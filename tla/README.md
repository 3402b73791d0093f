# Readerboard in TLA+

Readerboard is a service that keeps messages on a BetaBrite LED sign.  HTTP
requests register messages, variables and alerts; the service renders them into
the sign's files over one serial link behind a network adapter, remembers in a
state file what it was asked to show, and puts the sign right again after
restarts, dropped links and power cuts.  Two tools are kept beside it: a
simulator that stands in for a sign, and a graphical client of the HTTP API.
This directory holds the specifications of the parts of these that keep state,
the TLC models that check them and the TLAPS proofs about them.

Paths below are relative to `src/readerboard/` unless they say otherwise.

## 1. The system

| Component | State | Operations | Hard behaviour |
| --- | --- | --- | --- |
| **Serial link** `transport/serial_link.py` | the port, a thread lock, backoff, `reopens` | `ensure_open`, `write`, `read_available`, `close` | worker threads that outlive the task that asked; a write that reopens the link under itself; a dead connection that swallows writes in silence |
| **Sign controller** `sign/controller.py` | suppression cache, run sequence, asyncio lock, `_seen_reopens`, `_repair_wanted` | file writes, special functions, reads, memory configuration, the reconnect loop and its hooks | a task cancelled in mid-send, its thread still writing; a sign deaf after a reset; a cache that must be right or the repairing write is the one skipped |
| **File pools** `sign/layout.py` | which key holds which file | assign, release, restore, the free count | a pool that shrinks and grows back under a saved mapping |
| **Slot registry** `services/registry.py` | slots, variables, pictures, `_dirty`, one asyncio lock | upsert, set_active, remove, clear, sweep, put/remove variable, refresh, restore, reboot, rendering | several sends to one operation, any of which may fail or be cancelled; order of writes on a sign that plays what the run sequence names; files taken for a message that then does not go out |
| **Alert service** `services/alerts.py` | the alert, `_sign_may_not_match`, a lock below the registry's | raise, release, sweep, lifted, reassert, restore | the priority file suppresses everything else; handing the sign back to draw a picture and taking it again; crashes between the sign and the state file |
| **State file** `sign/state.py` | a JSON file, written aside and renamed | load, save | a crash or a full disk in the middle |
| **Memory pool** `sign/pool.py` | none | measure, check_fits | a sign that does not answer |
| **Clock** `services/clock.py` | when it was last set | sync, a loop | a clock set across midnight or a change of DST |
| **Commands, markup, frames, replies, icons** | none | pure functions between text and bytes | what may not fit; what the sign answers late |
| **HTTP API** `api/` | app state, background tasks | startup, shutdown, one service call per route, the refresh and sweep loops, the reconnect hook | startup with no sign; loops that must survive errors |
| **Sign simulator** `../tools/signsim/` | scanners, one per connection; the sign's files, table, sequence and alert | feed, decode, apply, pause, reset | frames in pieces, broken off, or with header bytes in a bitmap; commands cut short; a file table that changes under the files |
| **API client** `../tools/apiclient/` | the call in flight, a chain of loads, forms, verdicts about addresses | send, load a set, load all, load a slot into a form, offer keys, check a service's description | replies that come after the form or the address changed; presses between a reply and the timer that follows it; a dialog that runs the event loop under its handler |
| **Fake transport, scripts, configuration, logging** | | | not part of the running service, or fixed once it starts |

How they interact.  Routes and loops are tasks of one event loop.  They call the
registry and the alert service; the registry's lock is always taken before the
alert service's, and both before the controller's.  The controller runs each
write in a worker thread, where the link's own thread lock is taken.  A task that
is cancelled lets go of its asyncio locks at once; its thread goes on.  The
controller calls back (hooks) after a link has come back; the hook asks the
registry for a full re-push, which in turn asks the alert service to hand the
sign back while it draws pictures, and to put the alert on again.  The simulator
takes the sign's place at the other end of the link, and the client is one more
caller of the routes.

What makes each correct: the link opens one connection at a time and always
comes back; the controller never believes what is not so, and owes a repair for
what may have been lost; pools never give one file to two keys; the registry's
record is on the sign whenever it says so, and no message draws another's icon;
the alert that is recorded is the one on the sign, and none is when none is; a
start finds what was saved and shows it; the simulator finds each frame, reads
it as it was meant and says what a sign would have lost; the client sends what
its forms were given and to whom.

## 2. The modules

| Module | Models | Checked or proved by |
| --- | --- | --- |
| `Transport` | the abstract link: what a controller may rely on | `SerialLink` refines it, `SignController` is driven by it |
| `SerialLink` | `SerialTransport` thread by thread, and the reconnect loop that drives it | `MCSerialLink`, `LineProofs` |
| `SignController` | the send path, suppression cache, reopens and repairs of `SignController` | `MCSignController`, `SignControllerProofs` |
| `AlertService` | `AlertService` with the registry's lock around it, and the loops and startup that drive it | `MCAlertService`, `AlertServiceProofs` |
| `SlotRegistry` | `SlotRegistry`'s operations as plans of sends | `MCSlotRegistry`, `SlotRegistryProofs` |
| `PicturePool` | which message calls which icon: claims, evictions and what gives them back, in the registry and in alerts | `MCPicturePool`, `PicturePoolProofs` |
| `FilePool` | `FilePool`: what holds which file, and how many are free | extended by `Startup` |
| `Startup` | one life of the service after another: state file, start, reallocation, reattaching, reboot; extends `FilePool` | `MCStartup`, `StartupProofs` |
| `Frames` | the payloads the service sends and which of them may be built | extended by the next two |
| `SimDecode` | a transmission read back: spans, calls, commands | extended by `SimSign` |
| `SimSign` | the simulated sign: what a command does to it and what is noted | extended by `Simulator` |
| `FrameScanner` | whole transmissions out of a stream in pieces | extended by `Simulator` |
| `Simulator` | clients, sockets, scanners, the pause and the sign together | `MCSimulator`, `SimulatorProofs`, `LineProofs` |
| `ClientForms` | the catalogue, the values and boxes of a form, what a reply reads as | extended by `ApiClient` |
| `ApiClient` | the client's window: one call, the chain, dialogs, verdicts | `MCApiClient`, `ApiClientProofs` |

They compose by interface.  `SerialLink` is shown to implement `Transport`
(`IsATransport`, checked and proved), and `SignController` drives the link by
`Transport`'s actions (`Net!...`), so what is proved of the controller holds over
the real link.  `AlertService`, `SlotRegistry` and `PicturePool` take from the
controller what it is shown to promise and no more: a send that changes nothing is
suppressed, one that fails makes it forget everything, one that is cancelled may
or may not have landed, one down a connection that has died returns as if it had
landed, and a link that comes back, or that a write opens again, asks for a repair.
What they leave to `SignController` is an older write, of a task that was cancelled,
landing after a later one (section 5).  `Frames` stands between the service and
the simulator: it builds what the one sends, and `CommandsReadAsMeant` says that
the other reads it back.

### FilePool

`assigned` is `_assigned`, `size` the configured count, `saved` the labels in the
state file's records; `Assign` and `Release` are its operations, `Restored` what a new
pool takes over of what was saved and `FreeCount` its count of what is left.  It has no specification of its
own: what is saved of it are the labels in the *records*, which need not be the
pool's, so saves, restarts and pools that change size are `Startup`'s.

### Transport and SerialLink

`Transport` is two variables: the link (`up`, `dead`, `down`) and the count of
reopens; a link that was down comes up by `Open` alone.  `SerialLink` has a
program counter per writer thread, one for the opener's, the thread lock and the
backoff.  `Check` is `write`'s look at `is_open` *before* it has the lock; `Take`,
`SendReturns`, `Reopen`, `Count`, `Resend` are the rest of `write`, with `SendFails` and
`ResendFails` for its error paths; `Ask`, `EnsureOpen` and `Open` are a tick of
the reconnect loop; `Tick` is a second of backoff.  `linkSeen` is the refinement
mapping: while a write is between closing the port it found broken and counting
its new one, a controller still sees a dead link.

### SignController

A task asks to send (`SendIfChanged`, `SendForced`, `SendSpecial`), waits for the
lock, has its worker write, and resumes: `Resume` is `_notice_a_reopen` with the
bookkeeping, `Fail` the `except TransportError`, `Record` the end of the pause.
`CancelWaiting`, `CancelWriting` and `CancelPausing` are the three places a
cancellation can strike; the second leaves an orphan, a thread that will still
write.  `Superseding` remembers that a later write of an orphan's file has been
accepted.  `doubt` and `lost` are history: why a file may not hold what was last
sent to it, and whether a send has vanished and has not been given to a repair since.
`Connect` gives it to one either way: it runs the hooks, or finds a repair under way,
repeats the hooks that one has finished and trusts the hook it is in to go on, which
may have lost a write of its own; `AlertService` follows that case.  The run
sequence is one of the files: `set_run_sequence` treats `_run_sequence` as
`_send_if_changed` treats an entry of the cache.

### AlertService

`op` and `pc` say what each task is doing; the registry's lock and the service's
own are variables of their own.  A send is begun by the step that decides on it
(`HandBack`, `Show`, `PutOn`, `GiveBack`, `Clear`), and `stage` says how far it has
got: suppressed, asked, accepted.  It is accepted by landing (`Land`), by vanishing
down a connection that has died (`Vanish`), which looks the same from here, or by
opening the link again under itself (`Reopen`), down a connection that may be dead in
its turn.  Then the task resumes (`Handed`, `Raised`, `Restored`, `Released`,
`Cleared`).  A send or a drawing may also fail (`Fail`) or be cancelled (`Cancel`),
at any stage, with everything the handlers do then (`PutsBack`, `Unwinds`).

`link` is up, dead with nobody knowing, or down; `ConnectionDies`, `OthersFindOut`
(another write or a read notices, and a write may reopen it) and `Reconnect` are
what happens to it outside a send.  `owed` is the repair that is still to come: a
reopen or a reconnect sets it, and the refresher takes it up (`Reassert`, `Refresh`),
pushing without asking.  A reconnect that finds the refresher at work may leave it to
that (`_connect`).  `disk` is the alert in the state file: a save may raise, and a
crash goes back to it.  Deadlines are `never`, `ahead` or `past`.  `doubt` is history,
like `SignController`'s: why the priority file may not hold what was last accepted.

### SlotRegistry

One lock is held from an operation's first look at the record to its last send,
so an operation is a plan: `op.todo` is a sequence of stages, each a set of sends
whose order among themselves is left open.  `Upsert` reserves a file, claims a
picture and begins to draw it; `Record` puts the slot on record and plans its
sends; `Show`, `Hide`, `Remove`, `Clear`, `Sweep`, `PutVariable`, `RemoveVariable`
and `ExpireVariables` begin theirs, and `Refresh` plans `Everything`
(`_rewrite_all`).  Each send is suppressed (`Suppress`), goes (`Send`), fails
(`Fail`) or is cancelled (`Cancel`); `Undo` is what the handlers take back.
`Lands` is the sign: an empty run sequence freezes it on a message it was playing
(docs/protocol-notes.md), which is why `_hide` and `_blank` empty the file of the
last message to go.  A message's bytes hold the *label* of the variable it calls.

### PicturePool

A message is the icons it calls.  `Begin` claims a file for each
(`_claim_pictures`): one it has, one that is free, or that of the icon claimed
longest ago that nothing calls (`Evicted`, `InUse`), one after another until one is
refused, or leniently (`ClaimAll`).  Then the sign is handed back
(`HandBack`), the bitmaps are drawn one send at a time (`Draw`), the alert put on
again (`PutBack`) and the text written (`Write`), or one of these fails.
`Undo` is `_undo_claims`, with the doubt it owns up to.  An alert that fails runs
`revert` of `rendering` first, which draws what was evicted again (`Draw`,
`GiveUp`), and can itself fail or be left (`LeaveReverting`).  `Refresh`, `Reboot`
and `Repush` are `_rewrite_all` with `_reclaim_pictures`.  `shown` has the *files*
a text on the sign calls, and `drawn` what is in them: a message shows the wrong
icon where the two part.

### Startup

`phase` is where the service is.  `Start` loads the state file with the settings
of the day and decides on a reallocation; a file that has become unreadable (`Spoils`)
is an empty state to it, as `load` has it; `Measure`, `Clear` and `Configure` carry
it out, `Attach` is `_reattach_labels`, `Rewrite` is `_rewrite_all`.  A save is
three steps (`BeginSave`, `FinishWriting`, `Replace`) or none (`SkipSave`), may
raise (`SaveFails`), and a `Crash` may strike between any two; `ReallocationFails`
and `RewriteFails` are the link.  `Reboot` reallocates while the messages stay.
A write to a file the sign's memory has no place for is discarded, as the sign
does.  `wrote` and `clean` are history: what the last save that returned had to
write, and whether anything has failed since everything was put back.

### Frames, SimDecode, SimSign, FrameScanner, Simulator

A byte is a number, a payload a sequence of them.  `Payload` builds what
`protocol/frames.py` builds for a command that is `Buildable`; `Encode` is the
eleven bytes of a file table's entry, with its two numbers kept as two
units.  `DecodePayload` is `decode_payload` with the command, its complaints
(`malformed`) and the spans that cover it; `Apply` is `SignState.apply`, a function
from a sign and a command to a sign and the notes a reader is shown.  `Annotate` cuts a body at the calls, the mode changes and the fifteen bytes of an
ALPHAVISION insert, whose argument may contain a call's byte and is none.  The table of
fixed sequences (`spans.py:267-271`: the longest of its names, from a slice that the
end of the body may clip) and the extended characters 0x80 to 0xC1 (`spans.py:273-280`)
are left out.  None of their sequences begins with or
holds the first byte of a call or a mode change, so they change how bytes are grouped for display and nothing that is called
or kept; and they are slices of the body one after another too, clipped ones included,
so what the spans cover does not depend on them.  A scanner is a record, `Feed` a
function of it.  In `Simulator` a client puts frames on the
wire whole (`Send`) or stops short (`SendCutShort`), the endpoint reads as much
as it likes (`ReadSome`), or reads and throws away while paused (`Discard`); what
is found is decoded and applied in the same step, as the window's slot runs in
the same call.  `due` is history: the frames that must still be found.

### ClientForms, ApiClient

One call may be in flight (`inflight`); `Arrives` is its reply, whose handler
(`CompletedQuietly`) records it, takes it in, fills what asked for it and sets the
timer for the next of a chain.  A handler that opens a dialog stops in the middle
(`CompletedWithADialog`, `PressSend` of a destructive call, `DescriptionArrives`),
the event loop runs on beneath it, and the rest of it is another action
(`CloseFailure`, `AnswerYes`, `AnswerNo`, `CloseSkew`, `CloseRefusal`).  The
service at the other end may give any answer in `Replies`.  `meant`, `typed`,
`source`, `left` and `made` are history: what each box was last given and by whom,
and what a chain has still to ask for.

## 3. What the runs show

| Run | Instance | Shows |
| --- | --- | --- |
| `link` | 2 writers, the opener, backoff up to 4, 3 reopens | lock discipline, the refinement of `Transport`, the link comes back, every write ends |
| `controller` | 2 tasks, one orphan, 1 file, 2 contents, 2 reopens | the cache is honest; a lost write is always owed a repair; until a cancellation, nothing swallowed is believed and a deaf sign is left alone |
| `alerts` | one caller, the sweep, the refresh loop, 2 alerts, stale leftovers; connections that die in silence, reopens, reconnects, crashes, power cuts, reboots, failed saves | out of doubt the sign shows the record, and an alert that was swallowed is owed a repair; pictures have the sign, or are to be drawn again; the cache is right |
| `alerts_fair` | the same with 1 alert, and of the troubles the link's | the sign is put right, the expired are released, every operation ends |
| `registry` | 2 slots, 2 files, 2 variables on one STRING file, 2 icons on one picture file, 1 fault | in sync means in sync, no empty turns, calls show their own variable, no file leaks |
| `pictures` | one slot and the alert, 3 icons on 2 files, messages of up to three icons, 2 faults | out of doubt no message draws another's icon; what is called keeps its file; a refusal is for want of room and nothing else |
| `startup` | 3 keys, 2 files of 2 sizes, a text that plays and one that is hidden, every trouble, an unreadable state file among them, but a start cut off in its reallocation | what was saved is what a start finds; what is put back is shown; keys never share a file; the free count is what assign finds |
| `simulator` | one connection, 9 commands, 5 payloads no builder makes, 1 that may be broken off, 3 frames | frames are found and never held back, no truncation is invented, commands read as meant, spans cover the frame, the sign holds only what its table has room for, alerts end by the bytes of an empty write only, losses are noted |
| `client` | 2 services, 4 texts of the address box, 2 keys, 2 presses, 2 edits | forms hold what was meant, chains lose nothing and end, each address is accounted for |
| `startup_shared`, `alerts_sweep`, `registry_frozen` | as above | a statement of the repository that the code does not keep: section 5 |

**Bounds.**  Two tasks and an orphan are what it takes to have one write in
flight, one waiting and one left behind; a third task would only wait longer.
One file is enough for the controller because entries of the cache do not depend
on each other except through being forgotten together, which the proofs, for any
set of files, confirm.  Two contents tell an older write from a newer.  The
counters that are bounded are named: `MaxReopens` (a write's reopens; beyond it a
dead link is opened by the loop only), `BackoffMax` and `BackoffInitial` (the
doubling reaches its cap), `MaxLabels`, `MaxFaults` (in `SlotRegistry` and
`PicturePool`, how often a link dies, the sign loses its memory or a request is
cancelled), `MaxFrames` and `Slack` (how many frames clients send, and how much is
on the wire when the next is begun), `MaxSplit` (how many of those may arrive in
pieces), `MaxSends` and `MaxEdits` (presses of a
button that calls, and edits of a box).

With one fault any step of any operation of `SlotRegistry` may be the one that
goes wrong, and the repair follows; for a repair that is itself interrupted,
`MCSlotRegistry.cfg` with one icon and `MaxFaults = 2` also passes (5.4 million
states, some minutes).  Two slots are needed to hide one while the other plays,
and to reuse a file.  Two picture files and three icons are what it takes for one
message to evict what another gave up while a third keeps its own; with two slots,
3 icons, 2 files, 6 messages and one fault `PicturePool` passes as well (6.1 million
states).  Three frames are a file table, what is written into it, and what then
changes under it.  `MaxFrame` is two bytes more than the longest frame of the
instance, so that one frame can be too long.  A read of the simulator takes all
that is there or stops once inside a frame, while no more than two frames have been
begun: the scanner never looks at what the sign holds, so the third frame in pieces
would repeat the second before another sign.  Two presses of the client are
a chain and whatever takes the gap in it.  Symmetry is used over keys, labels,
tasks and contents in the runs that check invariants only, and over the keys of
`MCStartup`, whose one action property names no key.

**Where data is cut down.**  In `Simulator` a hexadecimal number is one unit rather
than its digits, the wakeup is one null rather than six, and the capacities, the
longest frame and the size of a bitmap are small; the comparisons made of them are
those of the code.  In `ClientForms` the catalogue has one operation of each kind
the window treats differently, and numbers are three texts.  In `Startup` a message
is one of two texts and the memory is counted in small units.

**Fairness.**  `SerialLink`: the reconnect loop is one task that never ends, a
thread with the lock goes on, time passes (weak fairness); a thread waiting for
the lock gets it some time (strong: `threading.Lock` has no order).
`AlertService`: a task that can go on does, and the sweep comes round again (weak);
an `asyncio.Lock` wakes its waiters first come first served, which strong
fairness of taking it stands for.  The refresh loop comes round again too, and a
refresh that is asked for (`RefreshIsDue`: a repair is owed or the flag is up) queues
for the registry's lock, which others may be taking in turn: strong fairness of its
beginning.  `ApiClient`: a zero timer that is set fires, a
call that is out ends, since every request has a transfer timeout, and a dialog
that is open is closed (weak).  Nothing is assumed of links, adapters, power,
failures or cancellations, and `LinkComesBack`, `SignIsPutRight` and
`ExpiredIsReleased` say in their hypotheses that the link works from some time on.

**Excuses.**  Several properties hold only when nobody has owned up to a doubt,
and say so: `flag` is `_sign_may_not_match`, `dirty` is `_dirty`, `owed` a repair
asked for and not begun.  `wiped` (the sign lost its memory and nothing has
noticed), `swallowed` (by a connection that has died) and `cancelled` are history, for
what the code cannot know or, in the last case, does not record.  In `AlertService`
`swallowed` excuses only while the link has not come back; after that the properties
ask that a repair be owed.  `missed` is what nobody is going to look into: a hand-back
or an alert lost to a reconnect that trusted the repair under way, a start whose
`restore` failed (`TakeoverIsReleased`).  In `SlotRegistry` `InSyncIsAlwaysSo` is `InSyncIsSo` without the
excuse of a cancellation, and fails.  Three hazards are not refuted by the property
that names them, because its excuse or hypothesis is that very case: the write
overtaken by an older one (`CacheHonest`), the settle that is cancelled
(`DeafSignIsLeftAlone`) and the operation cancelled half way (`InSyncIsSo`).  Section 5
has the configurations that refute those.  `OwnIconsOnly` speaks when `_sign_still_holds_its_pictures`
would answer yes without asking: nothing dirty, and every picture file written.

## 4. What is proved

| Theorem | Says |
| --- | --- |
| `LineProofs!LinkIsSound` | `LinkSpec => []SerialLinkInv`, for any threads and any backoff |
| `LineProofs!LinkIsATransport` | `LinkSpec => Promised!Spec`: initial states map to initial states and every step to a step of `Transport` or a stutter |
| `SignControllerProofs!ControllerInvariant` | `Spec => []ControllerInv`, for any tasks, files and contents |
| `SignControllerProofs!CacheIsHonest` | `Spec => []CacheHonest` |
| `SignControllerProofs!LossesAreRepaired` | `Spec => []LossIsRepaired` |
| `SignControllerProofs!SwallowedWritesAreForgotten` | `Spec => []SwallowedIsForgotten` |
| `SignControllerProofs!DeafSignsAreLeftAlone` | `Spec => []DeafSignIsLeftAlone` |
| `AlertServiceProofs!AlertIsSound` | `Spec => []AlertInv`, for any callers, alerts, troubles and histories of the link |
| `AlertServiceProofs!RecordIsShown` | `Spec => []SignMatchesRecord` |
| `AlertServiceProofs!PicturesHaveTheSign` | `Spec => []PictureHasTheSign` |
| `AlertServiceProofs!SuppressionIsSafe` | `Spec => []CacheIsRightOutOfDoubt` |
| `SlotRegistryProofs!RegistryIsSound` | `Spec => []RegistryInv`, for any slots, variables, files, icons and faults |
| `SlotRegistryProofs!SignIsInSync` | `Spec => []InSyncIsSo` |
| `SlotRegistryProofs!TurnsAreNotEmpty` | `Spec => []NoEmptyTurn` |
| `SlotRegistryProofs!CallsAreTheirOwn` | `Spec => []CallsShowTheirOwn` |
| `SlotRegistryProofs!PoolsMatchTheRecord` | `Spec => []PoolMatchesRecord` |
| `PicturePoolProofs!CalledPicturesStay` | `Spec => []PicturePoolInv`, for any slots, icons, files, messages and faults |
| `PicturePoolProofs!RefusalsAreHonest` | `Spec => []RefusalIsHonest` |
| `PicturePoolProofs!TextsDrawTheirOwnIcons` | `Spec => []OwnIconsOnly` |
| `StartupProofs!RecordsKeepTheirFiles` | `StartupSpec => []NoSharedFile` where no start loses the link in its reallocation |
| `StartupProofs!FreeFilesAreCounted` | `StartupSpec => []FreeCountIsWhatAssignFinds`, likewise |
| `StartupProofs!RestoredMessagesAreShown` | `StartupSpec => []RestoredIsShown`, likewise |
| `StartupProofs!StartsFindTheLastSave` | `StartupSpec => StartFindsWhatWasSaved`, an action property, for any messages and troubles |
| `ApiClientProofs!AddressesAreChecked` | `Spec => []AddressesAreAccountedFor`, for any addresses and texts |
| `ApiClientProofs!ChainsLoseNothing` | `Spec => []NothingIsLostFromTheChain` |
| `ApiClientProofs!FormsAreAsMeant` | `Spec => []FormsHoldWhatWasMeant` |
| `SimulatorProofs!ScannersAreBounded` | `Spec => []SimulatorInv`, for any sockets, commands and streams |
| `SimulatorProofs!NothingIsHeldElsewhere` | `Spec => []HeldWhereAllocated` |
| `SimulatorProofs!OnlyAnEmptyWriteEndsAnAlert` | `Spec => []AlertsEndByRelease`: on the bytes, whatever the decoder makes of them |
| `SimulatorProofs!SpansCoverEveryFrame` | `Spec => []SpansCoverTheFrame` |
| `SimulatorProofs!LossesAreNoted` | `Spec => []QuietLossesAreNoted` |
| `SimulatorProofs!WhatIsBuiltIsRead` | `Spec => []CommandsReadAsMeant` |
| `LineProofs!EveryWholeFrameIsFound` | `Spec => []WholeFramesAreFound`, however a stream is split into reads |
| `LineProofs!TruncationIsNeverInvented` | `Spec => []NoTruncationIsInvented` |
| `LineProofs!NoFrameIsHeldBack` | `Spec => []NothingIsHeldBack` |

Every safety property that a passing run checks is proved, and so are the refinement
and the action property, which do not rest on fairness.  `LineProofs` has the two ends
of the line to the sign, the link that writes into it and the scanner that reads what
comes out, which is why `SerialLink` names its specification `LinkSpec`.

**Assumptions.**  Those named in the modules (`MaxLabelsAssumption`,
`LinkAssumption`, `ControllerAssumption`, `AlertAssumption`, `RegistryAssumption`,
`StartupAssumption`, `PicturePoolAssumption`, `ClientAssumption`, `FramesAssumption`,
`ScannerAssumption`, `SimulatorAssumption`), which TLC evaluates on every run.  Most only say that a special value (no file, no text,
nobody) differs from the ordinary ones and that bounds are naturals.  Two say
more.  `RegistryAssumption` has TEXT files and STRING files be different files,
which their labels are.  `ClientAssumption` has a closed box (an enumeration, a
tick box) typed into by choosing one of its entries, and the fields of a slot
read from a sign be values their schema allows (`Says`, of `SlotResponse`): a
service whose answers have another shape is what `CheckSurface` is there to tell.
`SimulatorAssumption` has what a client sends on purpose be something the builders
can be asked for (`IsMeant`) and build (`Buildable`), and every payload a sequence of numbers; what is crafted or breaks off is
any such sequence.  No payload holds an `EOT`, nor an `SOH` with an `STX` four bytes
on (`IsPlain`), and a whole frame is no longer than `MaxFrame`: that is what
`_next_header`'s docstring takes a header to be known by, and what `MAX_FRAME_BYTES`
is set well above.  It has to be assumed, for a payload with a header in it is two
transmissions to the scanner.  Three theorems of `StartupProofs` have the hypothesis that no start loses the
link in its reallocation; the run `startup_shared` shows that without it the
first of them is false.

**Pools, link and controller.**  `NoSharedFile` alone is not inductive, because a
start reattaches what was *saved*: `PoolInv` adds that the saved labels share no file
either.  What is saved are the records' labels, so `StartupInv` takes the same argument
through the record: the labels of the slots share no file, and from the reattaching on
they are the pool's.
The free count is a difference of cardinalities, and goes by the bijection between
the keys that hold a file and the files that are held, which `NoSharedFile` gives.
`RestoredIsShown` needs `ShownInv`: once the service is up its memory is as
configured, so every file in the pool is on the sign.  That a start finds the last
save rests on `KeptIsWritten`: only a rename changes the state file, and it is the
last step of a save.  `SerialLinkInv` adds to the properties of the port who holds
the lock at which point of a write; without it two threads might both be
reopening.  `ControllerInv` adds to `CacheHonest` who is sending what: the entry of
a file is unknown while its write is out, at most one task writes a file, and an
orphan that has not been superseded guards a file whose entry is unknown or
doubted.

**Alerts.**  `AlertInv` adds to its three properties who holds the lock and has a
send out (`LockInv`), what each send is for (`SendInv`), what a reopened link makes
nobody believe (`LineInv`) and what a send that was accepted or suppressed leaves on
the sign (`FileInv`).  Two conjuncts took the proof to find.  A send that was
suppressed leaves an entry of what it would have sent, or none: without it the end
of a suppressed write, which clears the doubt, could leave the cache wrong.  And a
hand-back that was suppressed by the entry a swallowed write left finds the repair
owed, if the link has come back before its picture is drawn.

**Registry.**  `RecordInv` adds to the pools what the operation under way would take
back (`UndoIsSound`): a file is given back by whichever send fails.  `SignInv` is
about the sign, and says one thing: what is left of the plan is all that stands
between the sign and the record.  `Will(f, c)` is that file `f` holds `c` once the
plan has run, either because a send of `c` to it is left or because none is and it
holds `c` now; and as long as nobody has owned up to more (`Calm`), every file
`Will` hold what is recorded for it (`WillMatch`).  With no plan left this is
`InSyncIsSo`.  `PlanIsSound` says that a plan writes each file once and the run
sequence after the files it names, `TurnsAreReadable` that a file is emptied only
after a sequence without it, which together are `NoEmptyTurn`.  `CallsExist` says that
what a message calls is there, now and if the operation is taken back.

**Pictures.**  `PoolOK` is about the record and the pool.  Its idea is what *lasts* if
the operation under way is undone (`Lasting`): the pictures it has not claimed, and
those that were given up for it.  Undoing restores exactly that, because what was
given up fits into the files of what was claimed and no two of them into one
(`EvictedOK`; so the `ValueError` that `_undo_claims` guards against cannot arise).
What a message calls lasts, and the message under way calls only what is recorded
(`CalledOK`, `OpOK`).  A refusal is a matter of counting: it
comes when no file is free and each picture is called by somebody else or kept for
the message itself, so that there are as many called icons in the record as there
are files, and the refused one is one more (`RefusalsCount`).

`SignOK` is about the files.  `FilesOK`: as long as nothing is known to be wrong, a
file that is believed written, and that the operation is not about to draw, holds
the icon it is recorded for.  `TextsOK`: a text that is right calls pictures that
last, or that the operation has claimed in their place.  The conjunct that is easy
to miss is `FullOrAllOK`: either every file is spoken for or every called icon has
one.  An alert may call an icon that has lost its file, and a claim for another
message may give that icon a file, which the alert's text would then call while the
claim may still be undone.  But in a full pool such a claim has to give something
up, and undoing it owns up (`dirty`).  Without it `OwnIconsOnly` is not inductive.

Claims are loops over sequences.  They are written as recursive functions on the
naturals (`ClaimAll`, `Without`), which is as much recursion as the provers can be
shown: `StepsCanBeTaken` proves that such a function exists and takes its steps, and
`IntervalInduction` is induction over an interval by way of the set of counterexamples,
whose least element is impossible.  Neither needs a theorem with an operator for a
parameter.

**Client.**  `ClientInv` is its three properties with what they need: types, that a
queue is a tail of `LoadAll`, that dialogs are of a kind that can be open
(`Types`); and `FillIsAsked`, that a key waits to be filled in only while the call
that asked for its slot is out or its failure is being told, and no other reading
of a slot is out.  The fields go box by box: what is put into a box, read back
(`Coerce`), is what its schema can say (`Says`).

**Simulator.**  `ScannersAreBounded` is about the loop of `feed`.  A look either takes a
transmission, which is at least the five bytes of a header, or leaves a scanner in
which the next look finds nothing and changes nothing (`LookTyped`, `Quiet`); so one
look more than the buffer holds headers is enough (`LooksAreEnough`), and a scanner
that finds nothing more is one that `_overlong` has had its say about.  The buffer
may only be longer when what may be a header stands in its last four bytes.  The
other two are an induction over what one read found: `FollowsFrom(s, t)` is what
applying any one decoded command may make of a sign `s`, namely a sign that holds
what it has a place for, and an alert still up unless the command is a release, and
each branch of `Apply` is shown to keep to it (`ApplyFollows`).  That what `Decode`
returns is a command of the right shape (`DecodeDecodes`) carries the bytes out of
this; they come in again where a release is concerned, for a command that reads as
one was decoded from an empty write and from no other bytes (`ReleasesAreEmptyWrites`).

`SpansCoverEveryFrame` is about the bytes.  `Make(q, s, S)` says that the pieces
`q`, laid end to end, are `s`; pieces that do and are each what a span is made of
stand where their spans say (`PiecesHaveTheirPlace`).  Each part of the decoder is
shown to return pieces that make what it was given: the annotation of a body, which
looks for the longest name that fits (`AnnotateMakes`), a message, the entries of a
configuration and the rows of a picture, which are cut into groups and flattened
again (`GroupsMake`, `FlattenedGroupsMake`), and so a payload and a frame
(`PayloadMakes`, `FrameMakes`).

`LossesAreNoted` has to speak of the sign after the read, which the invariant
`LastTold` says is what one read found made of `last.before`.  Each branch of
`Apply` then either leaves what the command says or has a note of the level that a
loss has (`ApplyIsNoted`).  For a message that rests on the pieces again: every
call of a file in a body is a piece, of two bytes unless it is the last
(`CallsAreShort`), and what is noted is noted piece by piece (`CallsAreNoted`).

`WhatIsBuiltIsRead` needs no invariant: it takes each builder's payload through the
decoder (`MessageReads`, `PictureReads`, `ConfigurationReads` and the others,
together in `MeantReads`) and the payload through its frame (`FrameHolds`).  The work
is in what is cut where.  Parts that are all equally long can be found again by
their length (`EvenlyFlat`, `EvenlyCut`), which gives the entries of a file table;
the rows of a picture are found by their carriage returns, and where those stand
is known because two sequences in order of the same numbers are the same
(`OneOrder`, `EndsAre`).  It rests on what `Buildable` refuses: rows of different
widths, pixels that are no pixels, an empty file table.

**Streams.**  The three theorems about the scanner share `StreamInv`, which speaks of
a connection's buffer and of what is in flight as one stream, so that it does not
matter where a read stops.  In that stream headers do not run into one another
(`HeadersApart`); no frame is too long to be kept (`FramesShort`), or `_overlong`
would give up one that is whole; what is begun is ended unless the connection was cut
(`AllEnd`); and, unless bytes were dropped, the frames that are due `Stand` in it, one
after another, and no other does.  A frame here is what `IsFrame` says without the
scanner: a header, and the first `EOT` after it with no header in between.  A write
joins one more to the end (`PlainSegment`, whole in `WholeSent` and broken off in
`PartSent`).  The step that matters is one look (`TakeOneTakes`, `LookReads`): it
takes the first frame that stands, or gives up one that is followed by a header, or
throws away bytes that begin none, and what it leaves is again such a stream.  That
takes care of `_take_one`, `_next_header` and `_overlong` for buffers in which a
header has come only in part: the look has to wait, and what it waits for is in flight
or has broken off.  The looks of a read are taken together by `IntervalInduction`, and
when no look finds anything more no whole frame is left in the buffer, which with
nothing in flight is `NothingIsHeldBack`. A connection that has dropped bytes is
`lossy` until a frame is begun with nothing of an earlier one left, and from there on
its stream is as good as new.

**Only model-checked.**  Liveness and fairness, which are out of the provers' reach:
`LinkComesBack`, `EveryWriteEnds`, `SignIsPutRight`, `ExpiredIsReleased`,
`EveryOperationEnds`, `LoadAllEnds`.  And the violations.

## 5. Where the code and its word part

Three are runs of their own.

* `alerts_sweep`.  `sweep` reads the deadline without the lock; the alert it
  releases may be the one that replaced the expired one.
* `registry_frozen`.  The refresh writes registered slots only.  A message whose
  registration was rolled back, or whose removal failed, after the sequence landed
  stays frozen on an otherwise empty sign, and `sign_in_sync` is true.
* `startup_shared`.  *"The sign may be unreachable, and that is not a reason to
  refuse to start. What is put back below happens again on the next reconnect"*
  (`api/app.py:258-260`).  With the pool changed in the settings and no sign at that
  start, the reallocation raises before anything is reattached, and neither happens
  again: the pools are empty under records that name their files, and the next
  message is given a file another is in.

These configurations, which TLC refutes too, are kept beside the runs:

* `MCSignControllerOrder.cfg`.  *"The lock is held across the thread hop, so ordering
  is preserved"* (`sign/controller.py:14-15`).  A cancelled task lets the lock go with
  its write still in a thread; a later write of the same file may overtake it, and
  the cache then holds what the sign does not (`sign/controller.py:546`).
* `MCAlertServiceTakeover.cfg`.  With the sign unreachable at startup, the release
  that *"guarantees the rotation is visible"* is not tried again: an alert left on by
  an unclean stop holds the sign for good (`services/alerts.py:226`).
* `MCAlertServiceSwallowed.cfg`.  A reopen under a write *"puts the same repair back"*
  that a reconnect gives (`sign/controller.py:609-613`), and that *"re-pushes everything
  without asking, because whatever went down the connection that died may not have
  arrived"* (`api/app.py:135-136`).  Not a release: one that was swallowed is recorded
  and the flag comes down, so `reassert` finds no alert and no flag and writes nothing
  (`services/alerts.py:311`), and `_rewrite_all` hands the sign back only for pictures.
  Without icons the alert holds the sign until the next one is raised or released.
* `MCSignControllerSettle.cfg`.  `send_special` calls a send and its settle *"one
  uninterruptible step"* (`sign/controller.py:425-426`); a request cancelled in the settle
  lets go of the lock with the sign still deaf.
* `MCSlotRegistryInSync.cfg`.  A hide, a removal or a variable's write cancelled half
  way leaves `sign_in_sync` true (`services/registry.py:1208`).
* `MCSlotRegistryYes.cfg`.  A picture drawn after the sign lost its memory answers for
  all that was lost: the refresh hears yes and repairs nothing
  (`services/registry.py:792`).
* `MCSimulatorCut.cfg`.  A transmission broken off by the next is one *"the sign would
  have discarded"* (`../tools/signsim/signsim/framing.py:262`), and the window applies
  it all the same: an alert whose write breaks off behind its `A0` releases the one
  that is up.  `AlertsEndByRelease` counts such bytes as an empty write.
* `MCApiClientSent.cfg`.  The timer of a chain may send the next set while the question
  before a destructive call is open.  Yes is then answered to a call that the busy
  client drops, and `run` returns that it was sent.

Met on the way, and not turned into runs:

* A reconnect that finds a repair under way trusts the hook it is in to go on
  (`sign/controller.py:581-600`), on the ground that a push cut short has failed.  One
  that the dead connection had swallowed has not: a hand-back or a put-back among those
  is not made again (`missed` in `AlertService`).
* A reallocation cut off between the clear and the configuration leaves
  `state.layout` claiming files the sign no longer has, so that the next start does
  not reallocate (`RestoredIsShown` needs `memory = applied`).
* A refresh that reclaims a file for an icon and then fails leaves `in_sync` true over
  a file that holds another bitmap, until the next refresh, which pushes everything
  since that file is not known to be written (`OwnIconsOnly` excludes it).
* The simulator reads a start of mode cut before a mode's second byte as whole, and
  takes an empty sequence to play nothing where a sign freezes (docs/protocol-notes.md).

## 6. Not modelled, and why

* **Clock, commands, replies, markup, tokens, the bitmaps of icons, configuration,
  logging**: data, wording, or functions without state.  What matters of them to the
  rest (a message may not render or not fit, the sign may not answer) is a choice of
  the modules that call them.
* **Request models and error texts of the HTTP API**: validation before a service is
  called; each route calls one operation.
* **`read_special` and the refresh that stops asking** (`_ask_again_at`): a read keeps
  nothing between calls, and the answer it gives the refresh is any answer.
* **The repair hooks one by one**: they are one repair that is owed (`SignController`)
  and one re-push (`SlotRegistry`, `PicturePool`).
* **The panes, the log and the drawing of the simulator; the highlighting, previews and
  renderings of the client**: what is drawn, not what is kept.
* **Fake transport and scripts**: test doubles and experiments by hand.

What would come next: the refinement of a one-register abstraction of the sign by the
registry over the controller.
