# BNK Sound in TLA+

BNK Sound is an audio mixer for PipeWire: one window with a slider per output,
input and application, profiles that remember levels and routes, and level
meters. This directory holds TLA+ models of it, TLC configurations that check
them on small instances, and proofs of their main properties for TLAPS.
Paths below are relative to the repository's `src/`, where a path without a
directory is in `src/src/`.

```
tlc -workers 2 -config MCThreads.cfg MCThreads.tla   # one run
tlapm ThreadsProofs.tla                              # one set of proofs
```

`PROJECT.json` is the index: the components and what models them, the runs, the source
lines behind each definition, the hazards of the code with the properties that would catch
them, the theorems, and for each property a plausible bug (`mutants`) that breaks it.

## 1. The system

Four kinds of threads share one process.

* **The main thread** runs the shell's loop (`native/app.rs`, `App::tick`, or GTK's main loop
  in `gtk_shell/app.rs`): it polls the compositor's socket, two message buses, the one-window
  socket and the peak pool, then handles what came, saves, steps the meters and paints. All
  application state belongs to it.
* **The PipeWire thread** (`pipewire_worker/`) binds nodes, clients, devices and
  the default metadata, reports streams as events on a bus, and carries out
  commands that come over a PipeWire channel.
* **The audio threads** run the capture streams' callbacks
  (`pipewire_worker/monitor.rs`) and fold peaks into the pool (`meter.rs`).
* **The MPRIS thread** (`mpris.rs`) follows players on D-Bus, keeps their titles
  in a cache under a mutex and nudges the main thread over a bus.

Other processes matter too: PipeWire and WirePlumber, other mixers that change
the same nodes, media players, the compositor and its other clients, and other launches of
BNK Sound itself. They are modelled from what the code hears of them and marked external.

| Component | State it keeps | Hard behaviour | Correct when | Modules |
|---|---|---|---|---|
| Reducer, profiles (`state.rs`, `profile.rs`, `domain.rs`) | rows by node id, tombstones, strip order, pending presets, profiles, dialog, dirty marks | id reuse, reconnects, presets against ghosts, failed saves | rows, order, presets and commands agree; edits are kept | `MixerTypes`, `Mixer`, `MixerClaims` |
| Projection (`view/`) | what is unfolded | two pieces of code find a column's members | what a gesture asks for is what the column shows; columns stay put | `Projection` |
| State file (`store.rs`, `lib.rs`) | the file, its temporary, the one set aside | kills and power cuts between system calls, other versions | whole or old, and never misread | `Codec`, `Store`, `SavedState` |
| Bus (`bus.rs`) | queue, eventfd | lost wake-up, full queue, receiver gone | a bounded FIFO channel | `Channel`, `Bus` |
| Peak pool (`meter.rs`) | slots, flag, eventfd | lock-free order of operations | no peak sleeps | `PeakPool` |
| Instance lock (`native/instance.rs`) | a socket file | launches, exits and crashes that race | one window, and always a window | `Instance` |
| Worker (`pipewire_worker/`) | bound nodes, clients, devices, defaults | metadata before nodes, double removals, ids reused before a bind | rows converge to the server | `Worker` |
| MPRIS, D-Bus (`mpris.rs`, `dbus/`) | player cache; receive buffer, kept signals | replies that race owner changes, late replies, partial reads | titles of players that are there; exact messages | `Mpris`, `Wire` |
| Native loop (`native/app.rs`, `shell.rs`) | buffers, frame callback, configure, deadlines | frames in flight against configures, ids reused | no frame into a held buffer; nothing due waits | `Frames`, `Sizing` |
| Seat (`platform/conn.rs`, `native/clipboard.rs`) | byte buffers, descriptors, keys, selection | reads and writes cut anywhere, descriptors beside bytes | a descriptor gets to its message; keys and selection are as told | `Seat` |
| GTK shell (`gtk_shell/`) | texture, ticks, timers, widgets' copies | callbacks of two loops, messages that are overtaken | still means done; copies are current | `GtkFrames`, `GtkMenu`, `GtkText`, `GtkSizing` |
| UI (`ui/input.rs`, `ui/mod.rs`, `ui/editor.rs`, `command_palette.rs`) | focus, drag, editor, scroll | focus against dialog and palette, rows that go under the pointer | keys go where the eye is | `Editor`, `Palette`, `Ui` |
| Layout (`ui/layout.rs`) | scroll offset, what is held | overlays, scrolled columns, narrow windows | what is in sight answers to a press | `Layout` |
| Meter bars and fades (`ui/meter.rs`, `ui/halo.rs`) | levels and clocks | turns that come late, or not at all | bars, rings and mark follow time | `Moving` |
| Text (`platform/grapheme.rs`, `render/text.rs`) | the segmenter's state | clusters the rules find by looking back | segmented as UAX #29 says; carets on clusters | `Graphemes`, `Text` |

## 2. How the modules fit together

A component's module has its state as `VARIABLES`, one action per handler or system call, and
a specification of its own. Components that interact are composed: `Projection` EXTENDS
`Mixer`, `Ui` EXTENDS `Palette` and `Editor`, `Store` EXTENDS `Codec`, `Text` EXTENDS
`Graphemes`, `GtkSizing` EXTENDS `Sizing`. Two are shown to implement an abstract one:
`Bus` the bounded channel of `Channel`, and `Store`, a system call a step, the promise of
`SavedState`, which replaces the file at one moment.

An MC module brings several components into one run as **scenes**: a variable `scene` is
chosen at the start and each step belongs to one scene, so that the components share nothing
but the start and their state spaces add up instead of multiplying. Each component's proofs
are of the whole of its own `Next`.

## 3. The modules

### MixerTypes, Mixer, MixerClaims — `state.rs`, `profile.rs`, `domain.rs`

`Mixer` has a variable for each field of `App` that a message reads, one for the
state file (`disk`) and two for what the last message asked of the worker (`out` per
node, `out_default` per direction). Each action is one arm of `state::update` with
all it calls: `StreamEvent` is `StreamAdded`/`StreamUpdated` (eviction of ghosts,
order numbers, pending presets, replay), `ApplyProfile` includes the flush of the
profile that is left and both saves, `ConfirmDelete` includes
`ensure_active_profile`. `Restart` is a crash or an exit followed by `boot_from`; an
exit saves first, which is `AutoSaveTick` and then `Restart`.

A node id is a number because the code walks its maps in id order.
An app identity or node name is a model value. The channels of a stream are one gain,
since the reducer reads the average and writes them all. Slider positions are whole
steps and PipeWire's gain is their cube, so a level is stored converted and reading it
back inverts the conversion; ratios of a group drag are rounded down. A level above the
slider's top, which another tool can set, is not reported. The `HashSet` of tombstones is
walked in no particular order: the heir is any of the ghosts. Writing the file replaces
its contents or fails and leaves them, which is what `SavedState` promises.

Guards that come from outside `update`: a gesture names a row of the last projection,
which is rebuilt after every message; a pin names a sink that is shown; a profile is
applied by the name of an entry in the list (`ApplyProfile` of a name that is gone only
sets the status line, after flushing). `Message::DeleteProfile` is sent by nobody: the
interface deletes through the dialog.

`MixerClaims` states what comments in `state.rs` say of the reducer, in the comments' own terms.

### Projection — `view/snapshot.rs`, `view/app_group.rs`, `view/rows.rs`

The projection is a function of the reducer's state, so it is operators over `Mixer`'s
variables: the columns and their order, a column's members, marks and level, and which rows a
node's peaks go to. Its own variables are the devices' forms and the unfolded columns. `Keeps`
says when a column is still the same one: its rows stay, or its only one comes back as a ghost's heir.

### Codec, Store, SavedState — `store.rs`, `lib.rs`, `geometry.rs`

`Codec` writes and reads the file field by field, in this version and the one before, with
the reader's positions and its checks; numbers have no width. `Store` takes `load`,
`quarantine`, `atomic_write` and the write in chunks a system call at a time. The file system is
external: names lead to inodes, a kill leaves what was written, and a power cut leaves of an
inode that was not synced any front of its contents and undoes the last of the directory
operations, in order. `SavedState` is the promise: whole documents, replaced at one moment, where a
power cut may bring back what the file held since the disk last settled.

### Channel, Bus — `bus.rs`, `platform/sys.rs`

`Channel` is what users of the bus rely on: a bounded queue, FIFO, what finds no room is
lost, what is accepted is delivered while the consumer is there. `Bus` is the code: a
producer enqueues (`TrySend`) and then writes the eventfd (`Signal`), two steps; the
consumer clears the fd (`StartDrain`, because it woke or on a turn something else caused),
receives until empty and goes back to its poll. The loop's order of drains is in
`App::tick`. The eventfd is a boolean: only whether it is zero is read.

### PeakPool — `meter.rs`, `shell.rs`, `pipewire_worker/monitor.rs`

Each atomic operation of `claim`, `fold`, `drain` and `drop` is a step; `writer[n]` and
`reader` say where each thread is. A channel keeps whose audible peak it holds, nothing of
its height. Claims and releases are on the PipeWire thread, one at a time; PipeWire
fires no callback during or after a teardown (comment at `meter.rs:151-153`), so a release
never meets a fold of its own node. Operations are taken to be sequentially consistent:
the relaxed folds are ordered by the acquire-release swap of the flag that follows them.

### Instance — `native/instance.rs`, `native/app.rs`

A process per launch, a step per system call. `UnixListener::bind` is two calls, bind
and listen, with the file visible in between; that is the standard library's doing and is
modelled from how the code uses it. `path` is whose socket the file is, so that an unlink
can hit another's. A crash closes the socket and leaves the file.

### Worker — `pipewire_worker/`

The server, with the session manager and other mixers, is external: `nodes`, `apps`,
`cards`, `meta`, `defaults` and `pins` are what it holds, and each of its steps changes that
and puts what the worker's listeners are told on `inbox`, one ordered connection. A bind is
answered with what the server holds when it answers, not what it announced: for an id
that has died meanwhile the answer is that the proxy is removed, for one that lives again the
new node. The two events of a node's end come in either order.

The worker is one loop, so each listener is one action on the head of `inbox`: `BindNode`,
`NodeSays` (info), `PropsCome` (param), `ProxyRemoved`, the same for clients and devices,
`BindMetadata`, `DefaultsCome` and `TargetsCome` (the property listener), and
`MetadataRemoved` with `GlobalRemoved` for the two halves of `global_remove`. A destroyed proxy's
listeners are gone with it, so what was still on its way to it becomes `nothing`. Commands come
from anyone at any time; one is lost when its proxy's global is gone. Three variables are
history: `told` is the stream a reader of the events last got for an id, `removed` what the last
handler reported removed, `outdated` the rows that show a pin of a metadata that has gone.

A level stands for channel volumes and mute together, a label for the names a
node or a client can give, a card has one route. Left out: level meters (they are the peak pool's),
binds that fail, the media name and role, the caps that panic, and the shutdown.

### Mpris, Wire — `mpris.rs`, `dbus/`

`Mpris` is the MPRIS thread over one connection: it lists names, binds each player with calls
that wait, and follows signals, with those that come during a call put aside. Names change hands
and players play and exit at any time; the bus answers a call late or after it was given up. The
main thread's match of a stream to a player, with its memory of titles, is `Project`. `Wire` is the
bytes under it: messages in both byte orders, their alignment and signatures, the handshake's
line, and a receive buffer filled by reads of any length.

### Frames, Sizing — `native/app.rs`, `shell.rs`, `ui/mod.rs`

`Frames` is a turn of the loop: it sleeps until something is due or has come, reads what the
compositor sent (`Handled`), drains the buses, steps what moves, saves, and presents a frame when one is
owed and the last has been answered. `slots` are the two buffers with what each owes, `held`
what the compositor samples, `dying` the destroyed objects whose ids it has not given back, and
`wire` the events on their way. A buffer's pixels are two booleans: whether its body and its meters are of now.
Deadlines are off, armed or ripe.

`Sizing` is the window's width over launches: configures with their states, bounds, the fit to the
columns and the way back, the geometry the core is told, saves and crashes. It counts in
half columns and has no height.

### Seat — `platform/conn.rs`, `native/app.rs`, `native/clipboard.rs`

Both directions of the Wayland socket are units in order with descriptors beside them. `Fill` reads
any part, a descriptor arrives with the first unit of its message, `Handle` takes the next whole message
and pops the next descriptor, and a write may stop anywhere and go on when there is room (`HandOver`), or
give up (`Stall`). On top of it: keys and their repeats, the cursor, offers and sources, and
a paste that waits on its pipe with a deadline. `crossed`, `strayed` and `self_wait` are history.

### GtkFrames, GtkMenu, GtkText, GtkSizing — `gtk_shell/`

An action is a callback of GTK's main loop. `GtkFrames` has the frame clock, the one tick callback, the
watch on the pool and the timers; `GtkMenu` the profile selector, whose rows speak to the reducer over
the bus; `GtkText` a field and the copy of its text in the overlay, with pastes that land when GDK has read the
clipboard; `GtkSizing` the fit through GTK's default size, with its retries after a launch.

### Editor, Palette, Ui — `ui/editor.rs`, `command_palette.rs`, `ui/input.rs`, `ui/mod.rs`

`Editor` is the text field as a record with an operator for each method. `Palette` is which commands a
state offers, how a query filters and ranks them and which window of the list shows. `Ui` is the input
mapping: an event is mapped against the projection as it is, changes the transient state, and sends messages
that the reducer takes one after the other; one action is all of it. The pointer is the target it hits.

### Layout — `ui/layout.rs`, `ui/input.rs`

`Project` makes the rectangles and the ordered hits of a frame from a view, a window and the
offsets, in exact pixels; the actions resize, scroll, grab the scrollbar or a fader, and open overlays.

### Graphemes, Text — `platform/grapheme.rs`, `render/text.rs`, `platform/shape.rs`

`Graphemes` is the segmenter a scalar at a time, and the rules of UAX #29 as predicates of the whole text.
Its tables are parameters; `TablesAssumption` says what the generated ones satisfy (no pictographic scalar
has another break value). `Text` is how clusters are measured, cut to a width and hit by a caret.

### Moving — `ui/meter.rs`, `ui/halo.rs`, `shell.rs`

A turn comes at any time (`Pass` lets time go by) and steps what is due: bars fall a step a unit of time and take the
peaks that were read, rings and the press mark fade. Levels below the floor count as silent, a
ladder is which cells of a meter light.

## 4. The runs

| Run | Instance | What it shows |
|---|---|---|
| `sessions` | scenes `rows` (3 ids, two apps, a ping, a sink that takes an id), `presets` (2 ids, two profiles), `profiles` (3 names, 2 geometries, no nodes) | order numbers are unique and never reused; commands reach live nodes and agree with the rows; a preset waits exactly while nothing matches; an active profile always exists; nothing unsaved goes unmarked; a ghost goes only to its own app and hands its settings on; a switch saves what it leaves; every edit reaches the file |
| `levels` | 3 streams of one app over 4 slider positions; and a strip of three apps and a sink | a group drag puts the loudest at the slider and lets none overtake another; columns stay where they are; a gesture is what its column then shows |
| `worker` | 2 node ids, a client, a card, 3 messages on the way, in two scenes | once what the server said is handled the rows are its nodes; every change is reported, a removal once |
| `threads` | bus: 2 producers, 3 messages each, 2 slots; pool: 2 nodes, 2 slots, 1 channel; lock: 3 launches, failing sockets | wake-ups and order, the refinement of `Channel`; no audible peak asleep and each taken; launches settle and handovers are answered; one window while launches come in turn |
| `frames` | native: 8 object ids, 2 unasked events on the wire; GTK: 2 allocations, 3 names, 1 posted message, 4 edits | no frame into a held buffer, every frame whole, bars fall; saves, messages and the last picture wait for no frame; GTK's window that asks for no frames shows all there is; drops land where they were let go |
| `window` | 2 widths, 2 scales; columns 0 to 2, configures 0, 1, 3, 2 refit ticks; the seat in four outings with room for 2 units, 4 strokes, 2 copies, 1 stall | the frame that settles has the size last asked for; a fitted window follows its columns and gives the user's width back; descriptors meet their messages, keys, cursor and selection are as told |
| `players` | 2 players on 2 names, 3 events, 1 time-out, 2 kept signals; 4 scripts of bytes read 7, 40 or all at a time | when all is read the cache is the bus; no title is another player's; messages are exact |
| `ui` | 2 letters and a blank, 2-byte fields, 3 streams, palette of 2 rows of 4, 2 profiles | carets and selections stay in the text; overlays, focus and highlight go together; a fader in the hand keeps its row |
| `forms` | state file: 2 documents, 3 first files, 5 inodes, writes of 24 fields, 2 saves, 2 cuts; frame: 9 views, 2 sizes; text: 14 kinds of scalar, 4 long (3 where measured); clock: 4 units, a fade of 3 | the file is whole or old and never misread; every control in sight answers; text breaks as the rules say; bars and rings follow time |
| `claim_*` | | section 6 |

**Why the bounds are enough.** The reducer's handlers relate at most an arriving
stream, the ghosts of its app and one neighbour, so three ids reach every pattern: two
ghosts and an heir, two groups that could swap, an id taken over. `MaxSeq` ends a behaviour
after that many first-seen numbers; three are as many as three rows need and a fourth only
repeats. Three profile names allow a create over, a rename onto and a delete of each of
active, other and target. For the bus, two slots with three messages each reach full, empty and
in between at every step of two producers. In the pool a
race is between one writer and the reader, two writers over the flag, or two nodes over one
slot after the other. Races over the socket file are between two launches and whoever owned
it before; `mishaps` records which races have happened so far, since two properties are for launches
that come one at a time. For the worker, `MaxInbox` stops the server, not the worker, while
three messages are on the way: what it takes for a global to come, go and come again before it
is bound. Six object ids are all that are ever in use at once (proved), so eight leave two to
be chosen wrongly. The fit compares two widths and a ceiling; three columns and three
configured widths order them every way. A seat's message is two units at most beside a descriptor, so
room for two stops a write at each point; `Outings` names what may be done in one run, because the
four kinds of strokes meet only in these pairs. One rename of an owner takes two events on the bus; a
third, with a time-out, lets a late answer meet the next owner. Two saves put one over the other, two cuts undo a
rename after a power cut before it. Four scalars are the shortest text in which each rule looks back past
a neighbour. Four units of time hold a fade of three with a unit of rest.

`MaxWire`, `MaxPosted`, `MaxTold`, `MaxText`, `MaxMeasured`, `MaxProfiles`, `MaxSaves`, `MaxCuts`, `MaxTime`, `MaxComing`,
`MaxStrokes`, `MaxCopies`, `MaxStalls`, `MaxEvents`, `MaxTimeouts`, `MaxGivenUp`, `MaxInbox`, `MaxSeq` and `Burst` are bounds of the
model; `MaxBytes`, `MaxVisible`, `MaxPending`, `MaxPlayers`, `MaxBody`, `MaxLine`, `MaxKept`, `Capacity`, `Slots`, `RefitTicks` and `BlinkToggles` are
the code's own limits made small.

**Deadlock** is not checked in `threads`, `players` and `claim_titles`, where the system really
stops: all messages sent and the receiver gone, every launch over, a stream dead or at its end.

## 5. Fairness

* `sessions` assumes `WF(AutoSaveTick)` in the scene of the profiles: the loop arms a save when something is
  unsaved and none is armed (`native/app.rs:1735`), later edits do not move it, and its deadline
  ends the poll, so it fires while edits keep coming. A crash loses what was
  not saved, by design, and `EditsReachTheDisk` is then about the session that was on disk.
* `Bus`: a thread that enqueued goes on to signal, a readable fd ends the poll, a drain runs
  to its end. Sends, other turns and the close are under no fairness. `Channel`'s own is that
  what is queued is delivered.
* `PeakPool`: claims and callbacks run to their end; a readable fd or a step that is due
  starts a drain, and a drain runs on. A step that is due waits while a frame callback is
  out, so this is about a window that is being painted.
* `Instance`: a claim, the loop of a window that is up and an exit go on. Launches, closing
  and crashes come when they like.
* `Frames`: the loop turns and a turn ends (one read is of a bounded buffer), an armed save comes due, and the
  compositor reads what it is sent, answers while the window is in sight and lets go of what it does not
  show. Hiding, configures and input are under none; `ShellsKeepUp` says of a hidden window only that
  saves and messages go on.
* `GtkFrames`: the main loop serves timers and watches; the frame clock ticks while the
  window is in sight and a tick is registered.

## 6. Where the code and its comments differ

Runs named `claim_*` check one sentence of a comment each and end in a behaviour of the
code that breaks it; `PROJECT.json` quotes the sentence and the line.

| Run | What happens |
|---|---|
| `claim_sibling` | an update of a live sibling takes over the ghost's older settings |
| `claim_savefails` | after a failed save nothing is marked unsaved |
| `claim_titles` | a name that goes to a player which exits at once leaves the old title on screen |

What else was met on the way, and no run here checks:

*Reducer.* Of a ghost and the live stream beside it the lower id takes a profile's entry, tombstone or not
(`state.rs:979` against 947). A ghost muted by the user comes back under its own id without the mute
(`state.rs:383-395`, against the comment at 492); a node of something else under a ghost's id drops the row
(`state.rs:415-418`, comment at 34); a group moves when a live sibling evicts the ghost that
held its place, or inherits one of two ghosts' numbers (`state.rs:411-425`, `view/app_group.rs:49`); deleting the active profile leaves
its unsaved mark on the next one (`state.rs:831`); what another tool set is saved into the profile with
the next edit of anything else (`state.rs:855`, against the comment at 65-66). After a failed save a boot may bring back an older
copy of a profile that is not active. A level is not clamped where the comment says it is (`domain.rs:258-265`).

*State file.* A read that fails for the moment sets a good file aside, and the second such replaces the first
that was kept. Two shells share one temporary file (`lib.rs:62-63`), so the rename of one may publish the half-written
file of the other.

*Threads.* Two launches at once may each take the other's socket, bound but not listening, for stale
(`native/instance.rs:127` against :1, "One window per session"); the loser removes
the winner's file at its exit (`native/instance.rs:73`). With a single turn at the bind, not two, launches in turn
could end in two windows too. A meter's new node may be shown the
last holder's peak once (`meter.rs:97-105`).

*Worker.* Rows keep pins of a metadata that has gone (`pipewire_worker/mod.rs:319-324` clears the defaults
only); an empty device dictionary takes a card's form back to Generic, which the
"sticky-on" comment rules out (`device.rs:152`, 208); an empty client dictionary
makes the client's next nodes go by their own names (`client.rs:54`, `node.rs:286`); a clear of a
whole metadata subject, a property without a key, is ignored (`default_meta.rs:62-80`).

*MPRIS.* Of a signal dropped for want of room a comment says "the next refresh re-reads the players anyway"
(`dbus/connection.rs:27-30`): nothing does. One connection with two names has only its first entry refreshed
(`mpris.rs:123-129`, 352-389). A match rule that cannot be added ends the thread. The five seconds for a reply are for each read, not for the
call (`dbus/connection.rs:138`).

*Native loop.* The viewport's destination is stale when the window's size changes and the device size does not
(`native/app.rs:1434-1439` against 1477-1479). "A rate of zero disables repeat entirely" (`native/app.rs:795`), but a rate that
becomes zero while a key is held makes the repeat loop endless (1674-1679). `take_fd` "consumes it in arrival order",
which fails for a source asked after it was replaced (778-785) and for a paste that was given up with its request still
buffered (`platform/conn.rs:119-124`). A keyboard that is lost and comes back is never asked for again. A slow writer yields
part of a paste.

*GTK.* The fit key strikes the press mark though this shell paints no button, and asks for no frame. A cut's or
paste's message that a key overtakes leaves the overlay with the older text (`gtk_shell/app.rs:287`); a paste lands in whichever overlay
has the focus by then. The fit of a launch is retried for 1.5 s even after the user has pressed the key.

*Overlays.* Opening a dialog does not move the focus: until its field is pressed, keys go to the mixer behind it, so that `m`
mutes the row last hovered ("typing goes to its editor and shortcuts do not leak into the mixer body", `ui/mod.rs:35-36`). Confirm, cancel and Enter
leave the focus in the dialog that is gone, where Ctrl+K does nothing until Escape. The rename dialog's field starts with whatever
the editor held. A wide character typed over a selection in a full field deletes the selection and reports nothing. The wheel cannot scroll the
palette past the selection (`state.rs:253`); Up after the list shrank moves nothing. The profile menu stays open beneath a dialog, a press on the palette's padding
dismisses it, and scrolling does not hover anew.

*Layout.* With client chrome the bottom resize grab covers all but 2 px of the scrollbar's lane; the menu's padding and separator let presses
through to the columns; six or more sinks at the least height push pins above their column; the hits of columns scrolled out lie over the
action bar (`layout.rs:599-600`); a chip is 1 px wide at the least width; an offset left from a wider strip makes the first step back of the
wheel do nothing.

*Text.* A caret's hit test skips clusters without advance; a label narrower than its ellipsis draws nothing; `truncate` counts the last cluster's
tracking, `draw_text` does not. The editor's caret may stand within a cluster and is drawn at its left edge. A ring lit while another still
fades counts the stretch since the last step (`halo.rs:12` speaks of still stretches only).

## 7. The proofs

Eight modules hold the theorems; each states what it proves for every value of the constants that satisfies the
modules' named assumptions: sentinels are not values of the sets they stand beside, capacities and the lengths of
clocks are positive, there are six object ids at least, tables give a pictographic scalar no other value.

* **MixerProofs** — types, `GhostsAreIdleApps`, `RowOrderSound`, `PendingUnmatched`, `CommandsAreSound` and `ProfilesSound` are one
  inductive invariant, each step of `Next` on its own, because they
  lean on each other: commands reach live rows because a settled row is never a tombstone's,
  a ghost hands on its number because it has one, and that the last value asked of a reconnected node is its row's needs
  that a ghost and a preset never meet. The file is part of the invariant too: what is on it
  must have unique names for a boot to have them. From it follow the action properties: `GhostsAreReclaimed`, `SwitchKeepsEdits` and `GroupKeepsBalance`,
  the last from lemmas about ratios of a drag (rounding down is monotone and the loudest divides by itself). `UnsavedKnows` needs that saves
  succeed and adds what the file holds of each profile that is not active. Least ids come from
  well-founded induction over a relation, cited in its set form.
  `GesturesShow` and `StripStaysPut` are over `Projection`. A column's place is the least number of its rows;
  the proof is that a place changes only with the rows that hold it, and that a number handed out is greater than all.
* **ThreadsProofs** — the bus: `NothingStranded` is inductive with the types; `InOrder` needs that what is queued is newer than what was delivered and no newer than what its
  producer has sent; every step maps to one of `Channel` or a stutter. The pool: `NoPeakAsleep` needs that a metered
  node owns exactly one slot and no two share one, that what a claim has zeroed stays silent, where the drain's position is, and the property itself also while
  the callback that set the flag has yet to signal. The lock: `GivesWayToAWindow` needs that a listening socket's process is setting
  up, up or leaving and that the file is never a leaving one's. `OneWindowInTurn` and `ExitSparesOthers` add that at most one launch is claiming, and
  what the file is at each of its steps; they need `Turns > 1`, without which they do not hold.
* **WorkerProofs** — `EventsTellAll`, `MarksFollowCache`, `ClientsNameTheirStreams`, `RemovalsMet`. The invariant adds
  `MessagesMet`: nothing on its way is for a proxy the worker does not hold, because the
  server answers only what is bound and a destroyed proxy's messages are dropped with it.
  The device, client and removed listeners take their entry for granted; this is why they may.
  `MirrorsServer` is not inductive: it speaks of an empty inbox. `MirrorInv` says of any inbox, of each
  node, pin, default and card, that the last word about it on its way is the server's present one, and where nothing is said the row agrees already;
  and that announcements and ends of an id alternate, so that a bind's answer is of the right life. The lemmas are about sequences: what a last word is after an append and after
  the head is taken.
* **FramesProofs** — `FramesAreSound`, `SettledSize` and `IdsStayApart` of the native loop and `GtkIsSound`. The hard part is ids: two buffers, two that were destroyed, a
  callback and the last one never coincide though the compositor may hold, release, delete and have them made again; `IdsIInv` says which of them an id in `held`, on the wire or in a request can be, and that
  the releases and deletes on the wire fit. At most six are in use, so a free one always exists. `SizesTell` says the last configure and scale on the wire are what the
  compositor asks for, or the client has them. That no frame is committed before the first acknowledged configure needs the order of what is on the wire.
* **WindowProofs** — `RefitFollows` in both shells, `WidthIsGivenBack`, `OrdinaryIsNormal`, `NeverBelowMinimum`. A fit and a save never take a width below the least; a restore width and `normal` determine
  each other until the compositor sizes the window; what a clean exit left on the disk stays until the next launch.
  `SeatIsSound` speaks of a quiet moment and of descriptors that have crossed; `SeatIInv` says of any moment what is still to come. `StreamsMeet`: the descriptors under way are those of the requests
  handed over and of the events whose first byte was read, in their order (`Meets` maps each to its message); it needs that no more has left or been read than there is, and that
  the request of a descriptor that waits is the last and unsent (`ConnOK`). `KeysStand`, `SelectionStands` and `PointerStands`: the last event of a kind on its way tells what is so,
  or, with none on its way, the client has it. `CursorStands`: the last shape asked for the pointer the client knows of is the one it thinks is worn, and no older pointer's event follows a newer one's.
  `Sources`: the client's sources are put up in the order of their numbers, one that was replaced is older than what is asked for, and the present one is the owner's, will be, or its end is on the way;
  so a paste that was asked for while the client had no source never finds one.
  How long messages are and which descriptors came with a read are recursive functions, and what they compute is found by induction in set form: a set of naturals with
  0 and each successor holds all, or the others would have a least (`LeastOf`, `Induction`, from the well-foundedness of `<`). The room on the connection is a number (`RoomAssumption`) and
  `Nil` none of the values it stands beside (`NilAssumption`).
* **FormsProofs** — `BreaksAsTheRulesSay`: the rules look back as far as they like, the machine carries a few flags; `Carried` says what each flag stands for of the text read,
  and one lemma for each kind of run says how the run grows by a scalar. `MovingIsSound`: a bar that is up is due a whole interval after the last step; a ring's clock runs
  exactly while a ring is under way, from the last turn. Each step begins where the last one ended.
  The state file: `DiskStands` is about every directory a power cut may come back to, not only the one there is. What the temporary name leads to in one of them is under no
  other name in it or in an earlier one, what the state's name leads to is on the disk, and that name never comes back to what it left; so a write never touches what a session may
  yet read, and what was set aside stays (`UnreadIsKept`). `FileStands` adds that those files are whole. With it `FileIsWholeOrOld`, the refinement of SavedState: the
  create, the writes and the sync are no step of it, the rename is its commit. It takes one process on the directory, which the instance lock sees to, and `CodecIsExact`: a document
  comes back from its file as `Kept` says, and what was read is kept as it is. TLC evaluates both for the documents of the run (`FilePremises` of MCForms); what stands for nothing is no document and
  no inode (`StoreAssumption`).
* **UiProofs** — `FieldStaysSound`, `OverlaysAgree`, `DragsKeepTheirRow`. First come lemmas about the field's operators: a splice weighs what it takes out less and what it
  puts in more, so a field that refuses by weight never runs over (`SplicedWeighs`); a word, a click and a drag stay within the text. The palette's
  list is a sequence of commands of known verbs, and its window holds the highlight (`RowOnScreen`). Every event is then of one of six kinds
  by what it sends and does to focus and text (`KindOfEvent`, `OpenEvent`), and the reducer is asked once for each kind, not for each event.
  The inductive invariant `OverlaysStand` is that focus and field are sound, a dialog names a profile there is and the palette and a dialog are
  never open together; `Agrees`, that the palette is open exactly while it has the keyboard and filters by the field's text, is kept by each kind
  but a Ctrl+K behind a dialog. `OverlaysHold` and `DragsHold` are of every run, `PaletteKeepsTheKeyboard` of the runs without that key,
  and `ScenesAgree` of the model-checked scenes, which `ScenesAreRuns` shows to be runs of the mapping. No palette is taken for `None`
  (`OverlayAssumption`), names and pastes are of the field's characters (`TextAssumption`), and the palette has room for one row (`RoomAssumption`).
* **MprisProofs** — `TitlesAreTheirOwn` and `SettledMirrors`. `AnswersStand` is inductive: the serials that are out, but for the one waited for, are no more than the calls
  given up, so that a new call always finds one of its own (`SerialIsFree`); hence an answer taken is to the question asked. A remembered title is what a match would
  find as long as the generation stands, which is new to every memory after each change.
  `SettledMirrors` speaks of a quiet moment; `MirrorsBus` says of any moment that nothing was lost in what is right up to the signals still to come, those kept aside
  included: the last signal of a name tells its owner; a name of which none is to come is known as it is on the bus, or is listed, or in hand; a title is right, or its
  signal is to come, or it is being read; and the loss of a name is heard of before the gain by which its connection came to another. It needs one name to a connection (`~ManyNames`), since a refresh reaches the first entry only. `Nobody` is nothing
  a call may return (`NobodyAssumption`).

**What stays with TLC.** Liveness and refinements with fairness (`EditsReachTheDisk`, `PeaksAreTaken`, `LaunchesEnd`, `ShellsKeepUp`,
the liveness half of `IsAChannel`), since fairness is ENABLED to the prover. What a recursive reading or a fold computes for every input: the codec
(`CodecIsExact`, and `OnlyWholeFilesRead`, the half of `NothingIsMisread` that is not `UnreadIsKept`) and the wire (`MessagesAreExact`), which
fold over bytes or are RECURSIVE operators; the seat's streams could be proved because their sums are recursive functions. `DropsLand` is about `SelectSeq`. `DrawingHolds` is about
rectangles computed by folds over a view.

## 8. Not modelled

The status line of the reducer, which nothing else reads; pixels, images and fonts, pure functions of the layout that
golden images cover; GTK's widgets and their look; bindings to C libraries; icon lookup; the development tools. `PROJECT.json` lists each component with what is
left out of it and why. The hazards the parts bear are listed there too, with the properties that cover them or a note why none does:
an echo of an older write over a newer gesture (`state.rs:418`) needs the reducer and the worker in one model, which is past TLC's reach
at bounds where it would say something.
