# velbus-aio in TLA+

velbus-aio connects a Python program to a Velbus home-automation bus through a
serial or TCP gateway. It is written for asyncio: one event loop, many tasks.
This directory holds TLA+ models of its core, the TLC configurations that check
them on small instances, and TLAPS proofs of the results that matter most.
Sources are named relative to `src/velbusaio/`.

Throughout, **a step of a model is the code between two points at which a task
really gives up the event loop**: an `await` that may suspend, the start of a
task, a timer, a callback of the transport. Nothing else interleaves in asyncio.
An `await` that cannot suspend (an uncontended lock, `send()`, which puts to an
unbounded queue) is part of its step.

## 1. Inventory

| Part | State it keeps | Operations | Talks to |
|---|---|---|---|
| **Send side of `VelbusProtocol`** (`protocol.py`) | transport, `_send_queue`, `_write_transport_lock`, `_restart_writer`, writer task, `_closing` | `connection_made/lost`, `pause_writing`, `restart_writing`, `send_message`, `_get_message_from_send_queue`, `_write_message`, `close`, `wait_on_all_messages_sent_async` | the event loop's transport; called by the controller |
| **Receive side** (`protocol.py`, `raw_message.py`, `util.py`) | `_serial_buf` | `data_received`, `buffer_updated`, `create`, `_parse`, `to_bytes`, `checksum` | gives each packet to `PacketHandler.handle` in a task of its own |
| **Controller** (`controller.py`, class `Velbus`) | `_is_connected`, `_auto_reconnect`, `_closing`, reconnect task, callbacks, `_modules`, scheduled tasks | `connect`, `stop`, `_reconnect_loop`, `_on_connection_state`, `start`, `scan`, `add_module`, `add_submodules`, `send`, `sync_clock`, `add/remove_scheduled_task` | protocol, handler, modules |
| **`PacketHandler`** (`handler.py`) | found addresses of the scan, scan locks, `_scan_complete`, the delay of the scan | `scan`, `handle` with the type and subtype replies | controller, modules, cache files |
| **`Module`** (`module.py`) | names, `_name_buffer`, `_channels`, `_sub_address`, `loaded`, `_is_loading`, cache file | `load`, `is_loaded`, `_cache`, `write_cache`, `on_message`, requests for names, memory and status, `load_from_vlp`, renaming | send queue, `MemoryBackend`, channels |
| **`VmbDali`** (`module.py`) | channels found so far | load and discovery of DALI devices | as `Module` |
| **`MemoryBackend`** (`memory.py`) | `_cache`, `_waiters`, `_lock` | `read_byte(s)`, `write_byte(s)`, `invalidate`, `feed_message` | send queue; fed by `Module.on_message` |
| **Action tables** (`actions.py`) | list of slots, own or shared by the channels of a module | `load`, `set_action`, `clear_action`, `clear_actions_for_source`, lookup | `MemoryBackend` |
| **`TemperatureSettings`** (`temp_settings.py`) | values, loaded parts, waiters, lock | `refresh`, `set_value`, `feed_message` | send queue; fed by `Module` |
| **Channels, properties, configuration** (`channels.py`, `baseItem.py`, `properties.py`, `config.py`) | attributes, subscribers | the status handlers of `Module`, `update`, `status_update`, commands to the bus, thermostat presets and modes, `set_channel_enabled` | `Module`, `MemoryBackend` |
| **Messages and command registry** (`messages/`, `message_fields.py`, `command_registry.py`) | none, and tables filled at import | packing, unpacking, lookup by command and module type | everybody |
| **Match tables, VLP reader, panel schema, discovery** | none that changes | pure algorithms and I/O | module, controller |

How a message travels: a channel or a loader builds a message, the controller
queues it in the protocol, a writer task paces it onto the transport. A reply
comes back as bytes, is cut out of the stream, handed to `PacketHandler.handle`
in a fresh task, looked up in the command registry, and given to
`Module.on_message`, which updates channels, feeds the memory backend and the
temperature settings, and writes the cache file.

What is hard here:

* **Writers that overlap.** A lost connection stops the writer with a `None` in
  the queue; the next one starts another; the done callback of the old one may
  start a third. Correct: one of them writes, in order, each message once.
* **Callbacks in detached tasks.** Loss and reconnection are told by tasks that
  nobody awaits. Correct: told once each, in order, one transport at a time.
* **Arbitrary reads.** A read ends anywhere in a packet, and the parser sees at
  most one maximum-size packet. Correct: what is found does not depend on it.
* **Requests without identity.** A reply on the bus names an address, not the
  request it answers; timeouts leave requests and replies under way. Correct:
  a cache that follows the EEPROM, calls that end, acknowledgements one can trust.
* **Check, await, act.** Action slots, names and settings are looked up in a
  copy, then written over the bus, then entered in the copy.
* **A cache file written many times by many tasks**, deleted by a scan, read
  once after a restart and believed for good.
* **One scan lock, many frames.** Two scans may be asked for; frames of any module
  prolong the one that runs, and answers come when they like. Correct: a scan
  ends, finds whoever answered, and every frame goes to the block it is from.
* **Subscribers that suspend** in the middle of a frame, while later frames are
  handled. Correct: the last word stands and every subscriber hears it.
* **Commands made of two attributes**, one of them given by the caller, the other
  from an object that status messages keep changing.
* **Fields of fixed width** in 150 message classes and in memory.

`PROJECT.json` lists each of these at its line, with the properties that watch it.

## 2. Modules and plan

| Module | Models | Builds on | Checked by | Proved in |
|---|---|---|---|---|
| `Outbox` | what the send side promises, and nothing else | | `writer` | |
| `ProtocolWriter` | send side of `protocol.py` | implements `Outbox` | `writer` | `VelbusProtocol_proofs` |
| `VelbusLink` | connection life cycle of `controller.py` | EXTENDS `ProtocolWriter` | `link` | `VelbusProtocol_proofs` |
| `Framing` | receive side: `protocol.py`, `raw_message.py`, `util.py` | | `framing` | `VelbusProtocol_proofs` |
| `MessageFields` | the fields of `message_fields.py`: parsing, packing | | `codec` | `MessageExchange_proofs` |
| `Messages` | the classes of `messages/` as layouts of fields | EXTENDS `MessageFields` | `codec` | `MessageExchange_proofs` |
| `MessageExchange` | `command_registry.py`, `handle()` for known modules, messages that are built | EXTENDS `Messages` | `codec` | `MessageExchange_proofs` |
| `BusScan` | the scan of `handler.py` over all addresses, modules and sub-addresses, `start()` from a VLP file | | `scan`, `scan_vlp` | `BusScan_proofs` |
| `ModuleLoad` | one module from scan to cache file: `handler.py`, `module.py` | | `module` | `ModuleLoad_proofs` |
| `MemoryBackend` | `memory.py`, with the EEPROM | | `memory` | `Memory_proofs` |
| `ActionTable` | tables of `actions.py` | EXTENDS `MemoryBackend` | `actions` | `Memory_proofs` |
| `TempSettings` | `temp_settings.py`, with the sensor | | `settings` | `TempSettings_proofs` |
| `Temperature` | `maybe_update_temperature` of `channels.py` | | `climate`, `status` | |
| `Thermostat` | presets, climate modes and target of a Temperature channel, with the thermostat | EXTENDS `Temperature` | `climate` | `Thermostat_proofs` |
| `ChannelStatus` | the status handlers of `module.py`, `update()` and the subscribers | EXTENDS `Temperature` | `status` | `ChannelStatus_proofs` |

`MC...` modules give the constants their small values.

The order was: first the send side, on which everything depends, with its
abstract specification; then the connection around it; the receive side; memory
and the action tables above it; the loading of a module; then the formats of all
messages, the scan that leads to a module, the temperature settings, and what
status messages do to the channels. What is left, in this order:

1. **VmbDali**: channels that come and go with the answers of the devices while a
   broadcast walks through them, groups, names from the cache file.
2. **Channel settings**: renaming, which writes through the memory backend and
   then the cache file, and `set_channel_enabled`, both beside late name parts
   and a restart.
3. **Schedule**: scheduled tasks started, stopped, replaced and failing.
   Properties: at most one loop per name, none after its removal.
4. **Match tables**: `handle_match` as an operator against a reference.

Abstract specifications still worth stating: a *register file* for the memory
backend on a bus without losses (each call takes effect at once, at some moment
between call and return), and a *name register* for the loading of a module.
Theorems still worth proving: those of the register file and the name register.

## 3. The models and the code

### Outbox, ProtocolWriter

A message is its number in the order of acceptance; `None` (0) is the sentinel.
`transport` is `"none"`, `"open"` or `"closing"` (`is_closing()` already true,
`connection_lost()` still to come); `full` says that the transport's own buffer
is above its mark. A writer task is suspended in one of the places of `PCs`:
created, waiting for the lock, waiting in `get()`, backing off in
`_write_message`, about to evaluate its loop condition, or finished with its done
callback pending. Actions are `ConnectionMade`, `ConnectionLost`, `Close`,
`SendMessage`, `StartWriter`, `GetLock`, `GetItem`, `Retry`, `Continue`,
`WriterDone`, and of the environment `TransportFails` and `TransportDrains`.
Real time (the pacing sleeps, the back-off delays) is left out: a timer may
expire at any step.

The code's `pause_writing()` is at once its own way of stopping the writer and
the method asyncio calls when the transport's buffer fills up. There is no
counterpart that starts the writer again (`resume_writing()` is inherited and
does nothing), so a full buffer stops the writer until the next connection.
`DeliveredUnlessStopped` therefore speaks of a writer nothing told to stop.

A message is packed when it is about to be written. `to_bytes()` raises `ValueError`
for a body that is too long, which `_get_message_from_send_queue()` does not catch
(`PackingRaises`): the task ends, and as it acquired the lock without a `with`
block the lock stays taken, by nobody (`Dead`). Any message may turn out to be such a
one when `Oversized`; in the run it is.

### VelbusLink

Adds `_on_connection_state` tasks (`notes`, not yet started, and `telling`, those
awaiting callbacks), the caller and the reconnect loops as connectors, and
`stop()`. The network decides whether an attempt succeeds. Every step of
`ProtocolWriter` is also a step here, `connection_made` and `connection_lost`
with what they do to the controller.

### Framing

Bytes are real bytes, and `Parse`, `Trim`, `Checksum` and `ToBytes` do what the code
does to them. A step is a read (`Read`) or one turn of the loop in `create()`: it
returns nothing (`Leave`), goes on behind a start byte after a `ParseError` (`Skip`), or
returns a message (`Deliver`), with what `data_received()` then does. `window` is what
`create()` has been given of the buffer, one maximum-size packet at most. A stream is a sequence of pieces:
whole packets of the smallest, a middle and the largest size (with start and end
bytes in their bodies, and one whose checksum is 0), packets broken off in the
body and in the header, packets with a wrong checksum, end byte, priority or
size, and noise. The reference is by position in the whole stream: `PacketAt` says where
header, size, end byte and checksum make a packet, `IsScan` which of them a scan
finds, one after the other and all but those inside another.

### MemoryBackend

`toModule` and `toBackend` are the two ways over the bus, in order, with losses;
`eeprom` is the module's memory (external). A call waits for the lock
(`lockQueue`: its holder, then those who wait), then sends block and byte
requests one by one; `pc` says where it is suspended, `pos` how much of its range
is done. `LoadMemory` is the loader of `Module`, which asks for memory on its own
account, so that its replies arrive like any other. `quiet`, `stale` are history:
calls during which nothing else was under way, and addresses whose last
news was lost.

### ActionTable

The operations of a table over the complete memory backend, for a list kept by
one table or shared by channels. The calls of the backend are those that tables
make (`TableJobs`: the whole table is read, one slot is written). `Running` gives a
task whose memory call has returned precedence: in asyncio it goes on in the same
pass. `programmed`, `doubtful`, `alone` and `apart` are history; a slot is
`doubtful` after an exception left its write, and when the table is reloaded
while a write of it is under way (`OnItsWay`) or a reply that tells an older
content (`OldNews`). The tables are those of modules without a contact byte: with one,
`load()` reads it after the list, in one more `await` that leaves the list alone.

### ModuleLoad

One module with channels that have names of three parts each, and a name of its
own in memory blocks. A request stands for its replies, put on `bus` in order; a
lost request loses them one by one. Cache files are read and written in threads,
so `writers` are the tasks inside `_cache()` in the order of its lock, each with
the snapshot it took. `Restart` may come at any moment, leaves the file, and
leaves replies on the bus, which reach the new run (`late`). The timeout of
`wait_for(load())` and the end of polling may come at any moment.

### MessageFields, Messages, MessageExchange

A value is a sequence of integers, a field a record that says where it lies, how
its bits make the value and what bytes the value makes. The declarative classes
of the code become lists of fields, one definition per class, in the order of
declaration; classes that pack by hand have an operator of their own (`Packed`,
`Written`). `Refuses` is `_validate_populate` (priority, rtr bit, length),
`ParseError` and `JsonError` are the exceptions a frame ends with. Temperatures
are counted in their smallest step, so that nothing is rounded. The registry is
filled for nineteen module types with the classes their specifications name;
frames are every length with bytes that stand out, messages that are built have
each attribute at the edges of what its kind takes while the others are at their
defaults, or all at another value (`Assignments`).

Three notions say which layouts the theorems are about. `Legal` are the values a
field can tell apart on the bus, `Span` the bytes it takes, `WellMade` that it is
written as it is read. `LayoutAssumption` says of every class the program sends
that its fields stand one after the other where they are read (`InLine`) and that
what is written is read by the same field (`Mirrors`), or that it is one of the four
that pack by hand; TLC evaluates it for the classes of the specifications. The
exceptions, which the program would not read as it wrote them, are named
(`OneWay`): version 2.0 relays, and messages that only modules send.

### BusScan

All of `scan()`: the lock, the probes, the walk over the addresses, adding a
module, `load()` and its timeout, the polling whose delay frames prolong, and the
cache file; and the frames `handle()` routes. The scan joins the send queue before it asks
for types (`Probe`) and after it (`Sent`). `join()` may stop returning at any moment
(`Clog`): the send side leaves elements undone that nobody counts down. Two scans, of `start()` and of the
service, run against each other. A load is one step here and all names of a module
one frame: what happens inside is `ModuleLoad`. A module has one channel for each
block of eight it may have. `Spec` is what its specification names, `Has` what it has
(external): it may lack channels in a block for which it has no sub-address.
Whether a channel is *there* is not decided by the rule that deletes it: a module
may as well have channels in a block without a sub-address (`Misplaced`), as the
VMBGP4 of the TODO in `cleanupSubChannels()` has its channels 17 and 18. `Site` says what is on the bus (external); an
address on it belongs to one module, as its own or as one sub-address
(`ScanAssumption`), so that a sub-address has one number and the dictionary of
them is a function. `Foreign` is another program that makes modules tell their names.

### TempSettings

`_values`, `_loaded_parts`, `_waiters` and the lock, with the calls `refresh`,
`ensure_loaded`/read and `set_value`. The sensor (external) answers a request part
by part and takes what is written, in order; frames may be lost and the timer of a
refresh fire at any moment. `infer_temp_settings_layout()` decides which fields a
part carries; `Fits` says which values `data_to_binary()` takes.

### Temperature, Thermostat

`Measured` is `maybe_update_temperature()`, with `Floor` for the rounding down
and both precisions as integers; one degree is `Degree` of them. A fine temperature
travels as two bytes (`TwoBytes`, external) and is read by
`TemperatureField.parse()` (`Parsed`), which takes 127 degrees instead of 128 from what has the sign
bit: below zero it comes out a degree too high. Coarse ones, of the status message,
are read as they are meant. `Thermostat` has the attributes of the channel,
the three calls, and the two handlers; `_switch_mode()` sends preset and mode in
one command. The thermostat is external, with these assumptions: it reports its
status after every command and every change at its buttons, messages keep
their order and none is lost. `muddled` remembers that a call was made on a status
that was older than the call before.

### ChannelStatus

A frame becomes a list of updates (`Plan`, by the kinds of
`_build_message_handlers`), done one by one; an update that changes something calls
the subscribers, each of which may suspend, raise, or be removed meanwhile.
`running` holds the event loop while nobody suspends. The module types of
`MCChannelStatus` have few channels, but each kind of handler and each table of
numbers is there. Frames carry what the message classes have read in
them, so a temperature here is one already parsed. `recent`, `seen` and `missed` are history.

## 4. What the runs check

| Run | Instance | Shows |
|---|---|---|
| `writer` | 2 messages, 3 connections, 1 failed write, bodies that are too long, flow control, 3 writer tasks | one writer at a time, order and no duplicates, nothing forgotten, `join()` never early, refinement of `Outbox`, and liveness: a writer nobody stopped and no body killed delivers, and a message in hand survives a loss |
| `link` | 3 connections, 2 reconnect loops, 1 raising callback, `stop()` any time | one transport, disconnect callbacks finish before anything reconnects, changes told in order, the connection comes back, loops end |
| `framing` | streams of one to three of 12 pieces, every division into reads | delivery is the scan of the bytes that have left the buffer, no legal size holds the parser up, a message survives the way through |
| `memory` | 2 tasks, 2 calls, 3 addresses, blocks of 2, 1 loss, 1 loader request | one request at a time, the cache follows the EEPROM, calls do what they say when nothing else is under way, every call ends |
| `actions` | 2 tasks, 3 operations, 2 slots shared by 2 channels, 1 timeout | the list follows the EEPROM, a retry repeats no source, an operation that nothing overlaps takes a free slot |
| `module` | 2 channels, 2 blocks, 2 scans, 1 loss, 1 restart | cache writes land in order, what the file knows it keeps, every found module has a file, the name is whole, every channel gets its name in the end |
| `codec` | 19 module types, every class their specifications name, bodies of 0 to 7 bytes, attributes at their edges | what is written is read back the same, and fits a packet |
| `settings` | 2 tasks, 3 calls, a VMB1TC, 1 loss, timers at any moment | a `set_value` changes its own setting only, nothing nobody gave is written, every call ends |
| `scan` | 2 scans at once, a panel with sub-addresses in two messages and a module without, from the bus, from cache files or a VLP file, with a channel it lacks and one that is misplaced, 1 loss, a queue whose `join()` returns no more | frames go to their module and block, no channel is kept that is not there and only the misplaced are lost, nobody who answered is missed, scans that do not wait for the queue end |
| `scan_vlp` | one sub-address, from a VLP file | *refutes* `BlocksActive`: sub-addresses are numbered from 0 |
| `climate` | 3 calls, 2 presets, sleep of 2 minutes, 2 reports or changes of the thermostat's own, temperatures on both sides of zero | the thermostat does what was asked and the object shows what it does; coarse temperatures do not spoil fine ones; below zero the channel is at most the parser's one degree off |
| `status` | 3 frames of one of 8 module types, 2 subscribers, 1 removed or raising | the last word on an attribute stands, every subscriber hears it |

**Why the bounds are enough to meet the hard cases.** Three writer tasks with
three connections are what it takes for an old task, its successor and the one
of a done callback to be alive together, and two messages let one wait behind
the other; with a failed write the count of the queue goes wrong and stays so.
Three connections in `link` give a loss during the callbacks of the loss before.
Three pieces give a damaged one between two whole ones, and a stream longer than
one window of the parser. Three bytes in blocks of two give a call that mixes block
and byte requests; one loss and a timer that may always expire give every order
of late reply and next request. Two slots let a table be half full and full. Two
scans and a restart give every order in which a file is removed, written and
believed; two channels and two blocks let names be partly known. Bodies of up to seven bytes
with one byte that stands out tell every offset, mask and width of a class
apart, and the nineteen types register every class. Two scans are all there can be
(`start()` and the service); the panel's sub-addresses are 1 and 5, one for each
message, and channels of the blocks 1 and 3 tell a missed and a needless clean-up
apart. Two settings of one part and one of each other show a write that
takes others along. Three calls are one more than the late status and the call
built on it; temperatures on both
sides of zero meet the rounding and the sign, with a degree of two coarse steps. The largest
state spaces are those of `climate` (2,446,920 distinct states) and `scan` (917,332);
`writer` has 48,136 and `link` 61,914. Three frames
let two be handled inside a third.

**Deadlock** is not checked, in any run: bounds on messages, calls, losses or
scans are reached in the end, and a program nobody asks for anything rests.

**Fairness** is weak for what the event loop guarantees: a task that is ready, a
timer, a callback that was scheduled. Nothing makes the transport come, fail or
drain, a caller call, the bus deliver, except where a property could not be
stated otherwise: in `link` an attempt to connect that is made again and again
succeeds (strong), since the reconnection of a gateway that stays away
cannot be promised, and callbacks end or raise; in `module` replies that are not
lost are received. In `memory` and `settings` nothing is assumed of the bus, since the
timer of a request always expires. In `scan` the steps of a scan that was asked
for are fair, the bus is not. That holds of `Probe` and `Sent` only while `join()`
returns: they are disabled from `Clog` on, and `ScanEnds` says that a scan ends or
is left waiting for the queue (`Hangs`). Since every frame with names prolongs a
scan, it also leaves out another program that makes modules tell their names for
ever. In `module` no step of a scan is fair, so nothing rests on it.

## 5. What disagrees with the documentation

The run `scan_vlp` shows that `start()` with a VLP file numbers the sub-addresses
from 0 and keeps their hexadecimal text (`controller.py:349`), where
`module.py:401` counts "Block 2: 9-16 (index 1)": frames from a sub-address find no
module, and the channels of the first do not count as active.

Found while modelling, and left to the conditions of the properties:

* A `None` queued at a loss is read by the writer after the reconnection and stops
  it: messages stay queued on a healthy connection. `DeliveredUnlessStopped`
  leaves a stopped writer out.
* That `None`, taken without `task_done()`, keeps
  `wait_on_all_messages_sent_async()` from ever returning, and a scan begins by
  waiting for it, and waits again after its requests: the scan then has `_fullScanLock`
for ever, and the next one waits for that. `JoinSound` says only that `join()` never
returns early; `ScanEnds` leaves a scan out that waits for it.
* A body that is too long for a packet is found out by the writer task (`raw_message.py:43`),
  not by the caller of `send()`. The task ends with the lock, and since
  `restart_writing()` starts no task while the lock is taken, no message is written any
  more, on any connection. `DeliveredUnlessStopped` leaves a dead writer out.
* `stop()` does not end a connection attempt that is under way: it completes, and
  leaves a connection open. After `stop()` the loss is not told, and `connected`
  stays true.
* A packet header that announces 9 to 15 bytes stops reception: hence
  `NeverStuckLegalSize`.
* Behind noise or a damaged packet a whole one may wait for the next read: with less
  than a minimum-size packet left of its window `create()` returns nothing, and
  `data_received()` leaves its loop although more bytes are behind (`<<0, 255, 4>>` twice
  and a packet of nine bytes, in one read). `ChunkIndependent` speaks of the bytes that have
  left the buffer.
* Any reply at the same address acknowledges a write, also the late one of a
  request that timed out: hence `ConfirmedWhenQuiet`. This is also why the run
  `actions` has no lost messages: with one, `TableFollows` fails by the same fault.
* Two timeouts are enough without a loss: the late reply to a read acknowledges the
  write of a `set_action()`, which returns while its write is still under way; a
  `load(force=True)` after it can be answered by a reply older than the write, and
  the list then shows the old slot for good. `TableFollows` therefore counts slots
  about which something was under way at a reload as doubtful. The attempt to prove
  it for any number of timeouts showed this; the run has one.
* Two timeouts also put a source in two slots: two `set_action()` of different
  sources that pick the same slot time out, a `load(force=True)` is answered by the
  late acknowledgement of the first, so the list shows a source there that the EEPROM no
  longer has; the retry of the second finds another slot, and the list is believed until the
  next reload. `SourcesOnce` holds for any number of timeouts over one list only,
  and of slots no write is on its way to: a write of several blocks,
  acknowledged too early, is there in part for a while.
* A restart after a partial load keeps default names, and an empty set of
  sub-addresses, for good: a name in the cache is never asked for again.
* A negative temperature is read one degree too high (`message_fields.py:415`,
  -127 instead of -128): -1/16 arrives as +15/16. The status message of the same sensor
  is read rightly, so below zero a channel jumps up and down by a degree as the two
  alternate. `tests/message_sensor_test.py:32` tries only the lowest value.
* A memo text is padded to five characters but encoded in UTF-8: with characters
  that are not ASCII its body does not fit a packet, which kills the writer.
* A relay of version 2.0 is sent the number of a channel where the class that reads
  the same command takes a mask (`OneWay`).
* Settings: `wait_for()` cancels the futures before `refresh()` lists the parts that
  are missing, so the error always names none; a value that does not fit stays in
  `_values` and makes every later write of its part fail; an answer that
  outlives its refresh overwrites a value just set; classic sensors drop keys of
  the other layout silently.
* Scan: `cleanupSubChannels()` deletes channels that a module has in a block for which it
  has no sub-address (17 and 18 of a VMBGP4, as its TODO says); a subtype message that is late, or comes without the first one, deletes
  the channels of blocks that exist; with the sub-addresses from a cache file
  nothing cleans up, and channels the module does not have keep it from
  being loaded.
* Thermostat: `set_climate_mode("sleep")` repeats the time the module last told
  of; with none it means "run", after "manual" it means "manual".
* Status: a subscriber removed during a suspended round makes the next one be
  skipped; a subscriber's `KeyError` is taken for a missing channel; the relay
  handlers of old types do not translate channel numbers and never reset
  `forced_off`; the number map of a VMBPIRO turns the button frames of
  channel 1 into channel 9, its temperature.
* `docs/message-registry.md` describes `_default_commands` and
  `@register(..., types)`, which the code no longer has.

Properties of passing runs are stated with the conditions under which the code
keeps them, and each condition is known to be needed:

* `PickedFreeAlone`: two `set_action()` that overlap pick the same free slot.
* `TableFollows`: for callers that keep `load(force=True)` apart
  (`ReloadAlone`); otherwise a failed reload leaves a list of empty slots.
* `Represented`: for the first scan. A second one removes the file, and `loaded`,
  which is never reset, keeps it from being written again.
* `NameWhole`: a block lost and asked for again by another scan, or a late reply,
  puts the blocks in the wrong order.
* `Kept`: a name part meant for an earlier run, coming while `load()` reads the
  file, caches an empty module.
* `Settled`: without a loss, a stray answer or a refused value; with any of
  them TLC finds cache and module to differ.
* `ChannelsRight`: for modules loaded from the bus, without lost or late subtype
  messages, and for all channels but the misplaced.
* `TemperatureFits`: exact from zero up; below it, a degree more after a fine message.
* `ScanEnds`: unless names come for ever or `join()` returns no more.
* `AskedFor`: calls not made on a late status; otherwise the preset set before is
  undone.
* `LatestStands`, `Informed`: frames that overlap may leave the earlier value; a
  removal or an exception skips a subscriber.

## 6. What is proved

**`ProtocolWriter`**, in the first part of `VelbusProtocol_proofs`, for any number of
messages, connections, failed writes and writer tasks, with flow control or without, from
`WritersAssumption` (the owners of a free lock and of one that was left are no tasks) and
`BoundsAssumption` (bounds are naturals): `TypeCorrect`, `Mutex`,
`WrittenInOrder`, `NoneForgotten`, `JoinIsSound` and `Refinement`
(`Spec => Outbox`).

The properties are not inductive by themselves. `IInv` adds: a message is in a
writer's hand exactly while that writer backs off (`InHand`); queue, hand and
wire are sorted and follow each other (`Order`), which is what makes the next
message written a later one; each accepted message is somewhere (`Tracked`);
and the count of unfinished elements is at least the queue's length, plus one for
a message in hand, plus one for ever after a failed write (`Owed`), which is
why `join()` cannot return early. The mutual exclusion comes from the
lock: a new task enters the loop only when the lock is free and nobody waits for
it, a waiting one only when it is free, and only a return frees it: a lock whose owner
died is never free again. The refinement maps `pending` to queue and hand:
writing is `Transmit`, a write that raises is `GiveUp`, sentinels and task
switches stutter.

**`MemoryBackend`**, in the first part of `Memory_proofs`, for any number of tasks, addresses, block size above
one, calls, losses and loader requests, from `SizeAssumption`,
`ContentsAssumption` and `JobsAssumption`: `MemoryTypes`, `LockHolds`,
`CacheIsSound` and the action property `QuietIsConfirmed`. `MInv` has two halves. `CallInv`: the lock's queue has each task
that has not returned once, whoever waits for a reply or pauses is its head, and
only that task has a waiter. `BusInv`: the last reply under way that covers an
address has that address's present content (`News`). Without it a reply that is
received could bring the cache an old value with nothing newer behind it;
it holds because the module answers in order and each answer tells of all the
bytes it changed. A byte whose last news was lost is `stale` until the next
reply that covers it. For `ConfirmedWhenQuiet`, `QuietInv` says of a call that
nothing else was beside: only its own request, or the answer to it, is under way,
and the bytes it is done with stand in the EEPROM, or in what it has collected.

**`VelbusLink`**, in the second part, for any number of reconnect loops, connections and
raising callbacks, from `LinkAssumption`: `LinkUsesWriter` (`LinkSpec => Spec`:
each step of the controller is one of the writer or leaves it alone), so that the
theorems about the writer hold under it (`SenderUnderController`, `OutboxUnderController`); `OneTransport`,
`DisconnectIsFirst` and `ChangesAreTold`. The invariant `LinkInv` follows the right
to connect as it is handed on: from the loss that waits to be told, to the
task that calls the disconnect callbacks, to the loop that connects, to the
transport. It has one holder at a time (`Right`); the changes not yet
told alternate and end with what the protocol object has (`Told`).

**`Framing`**, in the third part, for whatever the bus sends and however it is cut into
reads, from `FramingAssumption`: `FramingChunkIndependent`, `FramingNeverStuck` and
`FramingRoundTrip` (for any set `Samples` of messages of a size a
packet can have). `FramingInv` says where the buffer's bytes are in the stream (`Held`), so
that `_parse()` of the buffer decides about a position of the stream (`ParseIs`): each
step drops bytes where no packet begins (`ScanOn`) or one packet (`ScanMore`). A
single message needs to be known not to wait in the buffer (`Untouched`).
`ScansAgree` says that a stream has one scan, which makes `ChunkIndependent` what its name
says. What the checksum adds up does not matter to these proofs: both sides apply
the same function to the same bytes; that a packet's bytes add up to 0 is evaluated by TLC
(`WalkAssumption`).

**`ModuleLoad_proofs`**, for any number of channels, blocks, scans, losses and
restarts, from `LoadAssumption`: `LoadTypes`, `LatestLands`, `FoundIsRepresented`,
`NameIsWhole` and the action property `FileKeeps`. `LInv` says which tasks exist in
each phase of a scan (`Phases`); that a module once written has a file or a
writer that will make one (`WrittenInv`); that file, snapshots in the order of
the lock, and object know ever more (`Growing`), which is why no write takes
anything back; and why name blocks join in the right order, for two different
reasons: when nothing is lost, the blocks that arrived and those under way
go round in order (`Cyclic`); within one scan, whatever is lost, a block
comes at most once and later ones come later (`Rising`).

**`ActionTable` over the backend**, in the second part of `Memory_proofs`, from `TableAssumption`.
`TableUsesMemory` (`ASpec => MSpec`) makes the theorems of the backend hold under
the tables, with losses and timeouts (`MemoryUnderTable`: `OneAtATime`,
`CacheFollows`, `ConfirmedWhenQuiet`). `TableIsTrue` (`TableFollows`) and
`PickedIsFree` (`PickedFreeAlone`) are for any number of slots, channels, operations
and timeouts, under two hypotheses that section 5 shows to be needed: `MaxLost = 0`
and `ReloadAlone`. The invariant `TInv` cannot follow requests and acknowledgements,
because any reply acknowledges any write. It follows each byte instead: `Will` is
what a byte holds once the writes under way have arrived, and for a slot nobody is
writing this is what operations that returned have left there (`Stored`). The list
says the same (`Listed`), because readers are before writers in the queue of the
lock and nobody writes before there is a list (`Order`): while there is no list, or
while somebody reads one, no write is under way and cache and replies tell what the
EEPROM holds (`Fresh`), outside doubtful slots, so that a reader's list cannot be
outdated when it is complete (`Reads`). `Alone` and `Picks` are what
`PickedFreeAlone` needs of the moment at which a slot was chosen. `SourcesAreOnce`
(`SourcesOnce`) takes two more hypotheses, again those of section 5: nobody reloads
and `set_action()` is not told a slot (`OwnPicks`), and the EEPROM begins without a
source twice (`FoundOnce`). It follows from `OneList`: the list repeats no source,
also with what is being written in it; a slot in doubt is still in that list as it
was, so that a retry finds the same slot again.

**`TempSettings_proofs`**, for any settings, parts, callers, calls and losses,
from `SettingsAssumption`: `SettingsSettle` and `NothingIsInvented`. `TSInv`: one
caller has the lock, and only that one waits for parts (`Turns`); the settings
of a loaded part are known, and all that is known or under way has been said by
the module or a caller (`Heard`), which is all `NothingInvented` needs, over any
losses. `Settled` needs more while nothing is lost, stray or refused: requests and
answers take turns on the bus (`Flow`), and the last write of a setting under way,
or else the module, has what was asked for (`Due`).

**`BusScan_proofs`**, for any site of modules with distinct addresses, from
`ScanAssumption`: `RouteIsRight`, `ChannelsAreRight` and the action property
`EveryoneFound` (`ScanIsWhole`). `SInv`: sub-addresses in modules and files are those
of the site (`Fitting`); one scan at a time has the lock (`Turns`) and walks over
the addresses (`Walk`); and while nothing is lost or late, no subtype
message comes from an address the walk has still to reach, and each module that was
added either is left with the channels it has, the misplaced excepted, or expects the
message that will clean up (`Orderly`). That what the code leaves are channels the module
has, and that only misplaced ones are gone, is `KeptIs`, from what `ScanAssumption` says of
the channels a module lacks.

**`Thermostat_proofs`**, for any precisions of which the coarse one is a
multiple of the fine one, presets, targets and times, from
`ThermostatAssumption`: `AskedIsDone` (`AskedFor`) and `TemperatureIsKnown`
(`TemperatureFits`). `THInv` follows what was asked for along the way: the last
command under way, or else the thermostat, has it (`Heeds`); a status made
after the last command confirms it (`Confirms`); once no command is under way the
last status, or else the object, shows what the thermostat is like (`Reflects`).
For the temperature some message under way, or the channel, is within a step of
the present one, as fine as any told since it changed (`Hears`), or, below zero, one
degree above it. `FineTold` says what `Parsed` makes of the two bytes, on either side of zero.

**`ChannelStatus_proofs`**, for any module types, frames, subscribers, removals and
exceptions, from `StatusAssumption` (the kinds of frames are those of
`_build_message_handlers`; a frame that lists values for named items gives no
measured temperature): `LatestFrameStands` (`LatestStands`) and `SubscribersInformed`
(`Informed`). `StatusInv` looks ahead from every task that is suspended. What it will
say last of an attribute is among what that attribute may hold (`Promised`), so
that after its last update about it the attribute is right, and an update that is
skipped because it changes nothing leaves it right as well; for each
subscriber that has not seen its channel as it is, some task is still to call it,
being at its place in the list or before, or it was skipped (`Reached`). `PlanIsGood`
goes through the fourteen kinds of handlers: none sets what `maybe_update_temperature()`
sets.

**`MessageExchange_proofs`**, for any module types and registry, bodies received, headers, and
values attributes are set to, from `LayoutAssumption` and `ValuesAssumption` (they
are values the fields stand for, unless `bytes()` refuses them, and as many as the class
insists on): `ReadsAsSent` (`ReadAsSent`) and `FitsPackets` (`BodyFits`). The invariant `XInv` says
what is known of the message in hand (`Genuine`): its body is what its class writes for its
attributes, or its attributes are what its class reads in a body it takes. The rest is
about the operators. A field that is written is read back, for every value it stands for
(`FieldsReadBack`): powers of two, bit masks of channels, numbers of one to three bytes or some bits
of one, signed half degrees, texts. A body of such fields has each of them where it is read
(`Placed`): the body is a fold over the fields, and the lemma goes along it, field
by field. What is read in a body the class takes is legal for the fields that will
write it (`ReceivedFits`), so that a message received can be written, and is read the
same again. The four classes that pack by hand are taken one by one, bit for bit
(`EdgeColorReads`, `PsuReads` and their like). `BodyFits` follows from where the last field ends; a memo
text of five ASCII characters has five bytes. Outside the theorems, as outside the
properties, stay the `OneWay` classes for reading back and texts that are not ASCII for
the length: for both, what the property says is not so.

`TypeCorrect`, `MemoryTypes` and `LoadTypes` are type invariants; being part of
the inductive invariants they need no run of their own. Induction over the
naturals is not among what the provers can use; where a proof needs a least
or last element (the last reply that covers an address, the first block of a
name, the first place at which a function defined by recursion would differ from
what is claimed of it), it takes it from a finite set of numbers, by a lemma on
such sets.

**Only model-checked**: that the classes of the specifications are laid out as
`LayoutAssumption` says, which is a table that TLC evaluates class by class;
`SourcesOnce` with reloads and at most one timeout, where the theorem leaves reloads
out; and all liveness, which needs fairness and `ENABLED`. Every safety property
of the passing runs is stated by a theorem.

## 7. What is not modelled

`VmbDali`, scheduled tasks, renaming, `set_channel_enabled` (all in the plan
above); the commands of channels that send one message and remember nothing;
matches of memory blocks with a module type (`handle_match`, a lookup in bit
patterns); VLP files, beyond what `start()` does with them; the panel schema and
the lists of configuration parameters (descriptions built once); discovery;
JSON data; `to_json()`; logging; scripts, skills and examples.

Real time: a timer may expire at any step, so
properties hold for every duration, and nothing is said about how long something takes.
