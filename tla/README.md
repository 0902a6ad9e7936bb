# MusicStudio in TLA+

MusicStudio is a digital audio workstation for macOS that reloads its own UI
and audio code while it runs. This directory models the parts of it whose
correctness depends on the order of steps: queues between threads, work handed
to worker threads, buffers filled ahead of the audio callback, code that is
replaced under its callers, frames that pass from layout to rendering.

Paths below are relative to `src/`; `LibThread`, `Basic`, ... are directories
of `src/Libraries`.

## The system

| component | state | operations | who calls it |
|---|---|---|---|
| `Basic/RingBuffer.c` | mirrored mapping, two free-running u32 offsets | init, lazy init, size, produce, consume | message queue |
| `LibThread/MessageQueue.c` | ring, counting semaphore, reader and writer thread ids | send, try_read, wait | layout frame to render frame, logger |
| `LibThread/DispatchQueue.c` | per worker: ring of batches, two counters, semaphores | queue, sync, worker thread | parallel loops |
| `LibThread/Thread.c`, `Semaphore.c` | suspended threads, Mach semaphores | init, start, signal, wait | all of the above |
| `LibThread/Logger.c` | queue of log events, logger thread | dispatch, the thread's loop | every thread's `Context.log` |
| `Basic/Mailbox` | mirrored ring, two offsets, the tied reader thread | post, peek, read, toss, wait | audio manager |
| `Basic/Promise.h`, `Basic/RPCServer.h` | promise cells, ports | resolve, reject, read | RPC users |
| `LibAudio/AudioManager` | tables of paths, of decoded clips and of blocks of samples, indexed by hashes; the history of prefetches | audio id, prefetch, sample, loop | audio callback and loader thread |
| `Basic/Arena`, `Basic/FixedArena`, `Basic/Context` | offset, mark | push, free, mark, sweep, drain | every temporary allocation |
| `Basic/MemoryPoker`, `Basic/MemoryPressureMonitor` | region ring, pressure state | push, poker thread; poll | audio manager, main loop |
| `LibCore/FSVolume`, `LibCore/Actor.c` | table of watched files, ring of open events; dlopen handles | mount, poll, reload; init, update, reload | reloader thread |
| `MusicStudio/State.cpp`, `main.cpp` | actors, queues, window | audio, layout and render frames, actor reloader loop | main thread, audio thread |
| `LibMusic`, `LibVST`, `LibVST2`, `LibWASM` | plugins, hosts, the WASM interpreter | load, process, parameters | audio frame |
| `LibLayout2` | pools of boxes, parent stack, mouse ids | begin, box begin, setters, box end, end | UI actor, main thread |
| `LibGL/Renderer` | vertex buffer, current shader, compiled shaders | push quad, flush, clear, shader, uniforms | render frame |
| `LibLayout`, `LibUI`, `LibRexim`, `LibImage`, `Piano` | widgets, windows, textures | layout, draw, events | main thread |
| `LibTar`, `LibMIDI`, `LibCLI`, `LibDSP`, `LibMath`, `LibNetwork` | none that outlives a call | parsing, formatting, arithmetic | tools, plugins |

How they interact: the main thread runs `layout_frame` and `render_frame` in
turn (`MusicStudio/main.cpp:113-136`); layout sends draw commands over one
lazily mapped `THMessageQueue` and render polls them. The audio callback runs
`audio_frame` of the current audio actor. A reloader thread polls the file
system volume and reloads an actor whose library changed. Every thread logs
through its context; the `THLogger` forwards events over a message queue to a
logger thread that blocks on it. Dispatch-queue users hand a loop to the
workers and then sync.

Behaviours that are hard: two threads in a queue at once, with no lock and two
ways of reading; a mapping installed lazily by whichever thread comes first;
counters read while another thread moves them; tokens left over from earlier
work; a callback reading samples that the loader replaces; code reloaded
between two frames; failed allocations and failed reloads half-way.

What makes each component correct:

* message queue: no message lost, duplicated, reordered or torn; the semaphore
  says how many messages there are; nobody overwrites unread bytes;
* dispatch queue: every item processed exactly once; after a sync no worker is
  in a callback; a sync returns;
* logger: every event is written once, and in order per thread;
* mailbox, promise, RPC: what was posted is what is read; no waiter sleeps on
  an answer that has come; no answer reaches another request;
* audio manager: a sample belongs to the clip and the block asked for;
* layout: a refused box leaves the tree as it was; boxes do not overlap; a
  click presses one box, once;
* frames: what reaches the screen is a frame that was laid out, at its scale;
  only a picture too big for the vertex buffer, or of two shaders, is drawn in
  parts, and in order;
* arenas: live allocations never overlap; a sweep frees back to its mark only;
* volume and actors: a changed file is reloaded; no call reaches unloaded code.

## Modules

| module | models |
|---|---|
| `RingBuffer` | the ring: offsets, clamps, mapping, as operators over its variables |
| `MessageQueue` | send, wait and try_read, one action per access to shared state |
| `MessageChannel` | what the queue promises: a bounded FIFO channel |
| `MessageQueueInvariant` | the limits the queue works within, its inductive invariant |
| `MessageQueueProofs` | the proofs about it |
| `Logger` | the logger of the audio callback and the logger thread, over the queue |
| `LoggerProofs` | the proofs about it |
| `Frames` | the main loop: layout frame, render frame and resizes, over the queue, with the vertex buffer of the renderer |
| `FramesProofs` | the proofs about it |
| `Layout`, `MCLayout` | the boxes of a frame; values for TLC |
| `LayoutProofs` | the proofs about the stack, the trees, what is drawn and the mouse |
| `Mailbox` | post, peek, read and wait of the mailbox |
| `PostBox` | what the mailbox promises |
| `AudioManager`, `MCAudioManager` | the audio callback and the loader, over the mailbox; values for TLC |
| `AudioManagerProofs` | the proofs about the mailbox as they use it, and about the tables |
| `DispatchQueue` | the caller's two functions and the worker threads |
| `ForkJoin` | what the dispatch queue promises |
| `DispatchQueueProofs` | the proofs about it, and that it is a fork-join |
| `FSVolume` | the file volume, the disk and the kqueue around it |
| `ShaderReload` | the frame loop as a user of a volume |
| `ShaderReloadProofs` | the proof that it reloads only what is stale |
| `ActorReload` | the actor reloader, the ring of library handles, the callers |
| `ActorReloadProofs` | the proofs about it, and about the volume |

`MessageQueue` uses `RingBuffer`; `Logger` and `Frames` extend
`MessageQueueInvariant` and give the queue its two ends; `AudioManager` extends
`Mailbox` in the same way; `ShaderReload` and `ActorReload` extend `FSVolume`
and close the loop around it. `MessageQueueInvariant` maps the queue to
`MessageChannel`, `Mailbox` maps its ring to `PostBox`, `DispatchQueue` maps
itself to `ForkJoin`; the mappings are checked as properties of runs, and proved.

An operator whose name is another's with a suffix (`CheckRoom_OffByOne`) is a
mutant: the definition as a likely bug would have it. No specification uses
one; each shows that some property would notice.

Some variables are history: `sent`, `taken`, `carried`, `commands`, `changes`,
`cleared`, `drawn`, `told`, `opened`, `unstacked`, `slept`, `given_up` and `gap` record what
happened, for the properties to speak about; no guard reads them but to resolve
a number to what it stands for, and the VARIABLES comments say which they are.

### Message queue

State: `write_offset`, `read_offset` (the u32 counters, modulo
`OffsetModulus`), `items` (the mapping in use), `memory` (for each mapping which
message a cell of the ring is of), `messages` (the semaphore), and for each side its program
counter and locals. A message is a number and a size, and each of its cells is
filled with both, so that a torn or overwritten message is seen.
`Send` .. `SignalMessage` are the steps of `th_message_send`, `LookForMessage`,
`BeginRead` .. `GiveTokenBack` those of `th_message_try_read` and
`th_message_wait`. The header and the payload are written and read in separate
steps, and the offset moves in a third. `SharedThread = TRUE` is the studio's
own use, where layout and render take turns on one thread: a call of one side
is then not interrupted by the other.

### Logger

`Log...` are the ways through `dispatch`: the text may not fit the temporary
arena (the event is dropped), its copy may not (printed at once), the send may
fail (`SendReturns`, printed at once), and a fatal event is printed at once and
ends the process with whatever is queued. `held` is how much of the caller's
arena is in use already, any number, since callers log in the middle of other
work. `WaitStep` and `HandleEvent` are the loop of `logger_thread`. The queue
in between is `MessageQueue` with every access a step of its own; the logger
maps it at init (`LazyInit = FALSE`).

### Frames

`StartRound` empties the temporary arena, `Resize` is the callback that runs
inside the event poll, `BeginLayout` .. `EndLayout` are `layout_frame` with a
send for each command, `BeginRender` .. `EndRender` are `render_frame` with the
loop over `th_message_try_read`. Both ends are on the main thread, and the
queue is mapped by whichever comes first (`LazyInit = TRUE`). A command that is
read is cloned into the temporary arena; `arena` counts that. What a frame
sends is any number of rectangles; which, is the business of `Layout`.

A rectangle is not drawn at once. `PushQuad` is `gl_push_quad`: the quad joins
those in the vertex buffer (`quads`), and these are drawn before it if six more
vertexes do not fit (`gl_reserve`) or if it comes with another shader
(`use_shader`); a flush command draws them, too. `screen` holds what was drawn
since `gl_clear`, one set of quads for each time. The buffer is not emptied when
a render frame ends: if the flush was refused or left behind, its quads are
drawn with those of a later frame. `BeginRender` finds the shader of the frame's
rectangles: the shader files are read again only there, before the first
command, so that one frame has one shader, which is any of `Shaders` or, if
none can be compiled, the one in use. A shader file that is written in place in
the middle of a render frame may show through its mapping; that is left out.

What `WholePictures` says is what the code keeps to, and no more. The rectangles
between two flush commands are drawn at once, or in parts, if there are more of
them than the buffer holds or the shader changed in the middle of them; the
parts come in order, no part has rectangles of two pictures, each rectangle that
was handled was painted or waits, and after the first one that is on the screen
or waits, none is left out. A part that was drawn is lost all the same if the
render frame stops before the rest and the next one clears the screen: an
overloaded queue whose flushes are refused gets there, once the frames it has
joined have more than 1365 rectangles.

### Layout

State: the pools (`elements`, `roots`, the child lists counted by `rows`), the
parent `stack`, `current`, and the three ids of the mouse rules. `BoxBegin` has
one disjunct per way out of `box_begin`; `BoxEnd` pops the stack and, for a
root, draws its tree: `DrawTree` folds `DrawBox` over the boxes of the tree,
which places each, applies the mouse rules (`Touch`) and leaves out a box whose
rectangle the queue refuses, with all in it. The setters are those whose field
the draw pass reads, but `box_id`: it sets the id that the mouse rules compare
(`LibLayout2/Layout.cpp:706`), and no UI of the studio calls it. The program is
any sequence of calls that ends each box that `box_begin` returned true for.

### Mailbox and audio manager

`ring` holds for each cell the message it is of and which part, so that an
overwritten message is seen. `CheckRoom` .. `SignalReader` are the steps of
`mailbox_post`, `FallAsleep` is the wait; a signal sent to a reader that does
not wait is lost. `AudioId` is `au_audio_id` (a path is one value: the code
copies it without an end and compares only as many bytes as the new path has, so
that in a slot that two clips share a mixture of both may be left), `Prefetch`
and `PreparePosted` are `au_audio_prefetch`, `CheckBlock` and `LoadSample` the
two reads of `au_audio_sample`, between which the loader may run. The loader's
`FindFile`, `Decode`, `Publish`, `FillSample` and `StoreId` are the parts of
`audio_manager_loop`: samples are stored one by one and the two words of a
block's id in either order. Which clips share a slot and what the files are is
chosen in the initial state.

### Dispatch queue

State: per worker `queue` (the ring), `work_count`, `done_count` and the two
semaphores, plus the caller's and the workers' program counters. The caller's
loop over the workers, the inline run when all rings are full, the pre- and
post-increment around the slot, and the sync that reads two counters and then
sleeps are actions of their own. `ForkJoin` knows only which items were handed
over and how often each was processed.

### Hot reload

`FSVolume` keeps, for every mounted file, the open inode, `stale`, `deleted`
and the content mapped last; for the kqueue, which inode is watched and what
has happened to it; for the disk, the inode at each path and each inode's
content, which is the number of the edit that made it. `Edit` is whatever
editors and linkers do. `Arm` and `Collect` are the two halves of the kevent
call, whose reports may come in any order, `ReopenEarlier`, `NoteEvents` and
`ReopenDeleted` the rest of `fs_volume_poll_events`; `VerifyStale`, `OpenFile` and `MapFile` are
`fs_file_reload`. Its callers say where to go on when it succeeds or fails.
`ActorReload` adds `actor_update` (`Update`), `actor_reload` (`Consider` ..
`StoreDispatch`), and callers that read `dispatch` and stay in the library for
as long as they like. `gap` is a history variable: the files edited while no
watch would report it.

## Runs

| run | question | answer |
|---|---|---|
| `lg_core` | is every event the audio callback logs printed once, in order, and in the end? | yes, except what overtakes on the spot, what is dropped for want of memory, and what is queued when a fatal event aborts |
| `fr_core` | does each frame show what was laid out for it, at its scale? | yes as long as nothing was refused or left behind; and commands are left behind only when the arena is full |
| `ly_core` | do refused boxes leave the tree of the others alone, do siblings stay apart, is a click one press? | yes, except in a tree in which the parent stack refused a box |
| `am_core` | does a block with an id hold that id's samples, does what was prefetched come, is a clip opened once, is the mailbox a FIFO box? | yes; blocks of clips that share a slot hold whichever was decoded |
| `am_sleep` | is a clip that was asked for heard in the end? | no: the signals of all that the first call posts may come before the loader waits |
| `mq_trap` | may a poll from another thread fall between produce and signal? | yes: the VERIFY at `LibThread/MessageQueue.c:115` fails |
| `mq_wrap` | do the offsets stay in order for ever? | no: not past 2^32 bytes |
| `dq_core` | is every item processed once, is a sync a barrier, and does it return? | yes |
| `sr_one` | is an edit of a shader ever overlooked, a fresh file ever reloaded? | no, but for edits between a report and the next registration |
| `sr_trap` | and with two shaders, one of which is removed and created? | the Create event names the wrong file and a VERIFY fails |
| `ar_core` | is code ever closed under a caller, is an old library ever taken for the latest? | not while fewer than `HandleCount - 1` reloads complete in one call; no, but for the same gap |
| `ar_sleep` | is the library a linker wrote last always loaded? | no: the reloader may see the deletion, find nothing, and sleep for good |

The findings that the violated runs show are quoted in `PROJECT.json`, each
with the line of the code or the document that says otherwise. `mq_trap` and
`mq_wrap` are uses of the queue that the studio does not make, or not for long:
its only polling reader shares the writer's thread, which `fr_core` shows to be
enough.

### Bounds

* Logger: a ring of 5 cells with headers of 1 and texts of 0 or 1 more is
  enough for a message to wrap in its header and in its payload, for a ring
  that is full, and for two unread messages; 4 events go round it more than
  once. An arena of 4 cells makes each of the three ways to run out of room
  happen. One failed clone of the logger thread. `OffsetModulus = 1000` is out
  of reach (the proofs assume as much); `mq_wrap` takes 8, which 4 sends reach.
* Frames: 14 sends are two rounds with a resize in each; the ring of 10 cells
  fills up when commands are left behind, so that each kind of command is
  refused in some behaviour; the arena of 5 cells is short by one command. The
  vertex buffer holds 3 quads where the code's holds 1365: two frames that a
  refused flush has joined do not fit, one frame does. Two shaders, either of
  which a frame may find, change in the middle of what waits. The run has
  2 250 000 distinct states.
* Layout: pools of 2 (child lists, and boxes in one), 3 (roots, parents) and 5
  (elements), of which the code keeps one place free in the last two: 5 calls
  of `box_begin` fill each of them, and a frame follows a frame without end, so
  that a mouse press meets any frame before it. One style and one refused
  rectangle per frame.
* Audio manager: 2 clips and 2 slots, sharing or not; blocks 0 and 1 are the
  parities of the block number, so that blocks evict each other; a mailbox of 7
  cells takes two messages (of 2 or 3), and `MaxOffset = 9` lets it wrap. The
  loader's arena holds 2 paths, the history 2 blocks, as few as make an arena
  run out within a round and a block fall out of the history. Clips, and slots,
  are symmetric: no definition tells one from another. `am_sleep` has one clip
  and no symmetry.
* Dispatch queue: 2 workers with rings of 2 slots (all are used, as in the code), jobs of 4
  items in batches of 1 or 2, two jobs: both workers get work, rings are full,
  batches run inline, and the second job meets the tokens of the first.
* Reload: 1 file and 5 edits of all kinds (written, removed, created, replaced
  and written again); 2 files where batches of events matter. 2 libraries, a
  ring of 3 handles and 3 replacements: the first library is closed by the
  third. One failure of mmap, dlopen or dlsym, at any call.

Deadlock is checked except where the system really stops: a bounded writer
leaves a blocking reader waiting, or a VERIFY ends the process. The config says
which.

### Fairness

* Logger: a call of the logger that has begun goes on, and the logger thread
  loops (`logger_thread` is an endless loop). Whether anything is logged is up
  to the program.
* Audio manager (`am_sleep`): both threads keep running, which is what audio
  callbacks and threads do; the loader's only obstacle is its own sleep.
* Dispatch queue: the caller goes on, each worker goes on, and a callback
  returns. These are threads under a preemptive scheduler.
* Reload: `render_frame` and `actor_reloader_loop` are called in endless loops.
  Editors and callers owe nothing.

## Proofs

Checked by TLAPS for every value of the constants that meets the assumptions.

**Message queue.** `QueueInvariant`: `QueueInv` is an invariant of `Spec`. It
is stronger than what is asked of the queue: the bytes between the offsets are
exactly the sent messages that are not consumed, cell by cell, plus what the
writer has written and not produced; the room that the writer was granted is
free; what the reader holds is the first unread message. `UnreadIntact` alone
is not inductive, since it does not say where the granted room lies. From it:
`TypeCorrect`, `NothingOverwritten`, `SemaphoreCorrect`, `WaitFindsMessage`,
`PollSeesWholeMessage`, `OneThreadNeverTraps` and `QueueRefinesChannel`, the
refinement of `MessageChannel`. Assumptions:

* `FramesFit`: a frame is shorter than the ring. The room check of
  `th_message_send` admits one exactly as long, which `ring_buffer_produce`
  refuses to add (`Basic/RingBuffer.c:131`): it would be announced and not be
  there. Frames of the studio are far shorter than its rings.
* `NoWrap`: the offsets do not wrap. `mq_wrap` shows why it is needed.
* `SingleMapper`: the ring is mapped by init, or by one thread. Two threads
  that found it unmapped would each map a ring of its own.

**Logger.** `LoggerQueueInvariant`: the queue keeps `QueueInv` between the
audio callback and the logger thread, since each of their steps is a step of the
queue or leaves it alone. `LogInvariant`: `LogInv` says which message carries
which event, that both go up together, that what was printed on the spot was
never sent, and that what was printed from the queue are the first `handled`
messages. The properties of the run alone say nothing of a send that is under
way, whose event may yet go either way. From it: `LoggerFindsMessage`,
`NeverPrintedTwice`, `OrderKept`, `NoEventLost`. Assumption beyond the queue's:
`LoggerAssumption`, with `ReadOps = {"wait"}`, as the thread only waits.

**Frames.** `FramesUseQueue`: every behaviour of the frames is one of the
queue's specification, with both ends on one thread. Hence `FramesTokensMatch`,
`FramesNeverTrap` and `FramesImplementChannel`.

`FramesInvariant`: `FramesInv` says what the frames draw, relative to
`QueueInv`. Layout: messages are named by the numbers of their commands, which
rise (`IdsRise`); the bounds of a frame are those of the last resolution command
before it (`BoundsAnnounced`); frames come one after the other and end with
their only flush (`FramesRise`, `FlushEndsFrame`). Render: its bounds are those
of the last resolution command it handled, and the quads in the vertex buffer
are of rectangles it handled since the last flush command, of all of them unless
that picture is torn, that is, too big for the buffer or of two shaders
(`RenderFollows`, `WaitingQuads`, `QuadsScaled`, `WholePictures`). A picture
that was torn stays torn while it grows, which is why a part, once drawn, stays
one (`TornGrows`, `DrawnStays`); that a full buffer means more rectangles than
it holds is a count of distinct commands, hence the cardinality in
`WaitingQuads`. Between them: the commands handled before a
frame is laid out are of earlier frames (`HandledEarlier`), a reader that stops
early had no room (`LeftForLater`), and as long as nothing failed it has handled
everything when it stops (`FrameByFrame`). The properties alone are not
inductive: they speak of the screen, and a command that is sent has yet to get
there. From it: `FramesRightScale`, `FramesWholePictures`, `FramesLeaveWhenFull`
and `FramesShowThisFrame`, for every queue, arena, vertex buffer, shader and
number of frames. Assumption: `FramesAssumption`, which says that sizes are
positive and that both ends of the queue share a thread.

**Layout.** `BoxInvariant`: `BoxInv` says that the boxes on the parent stack
are those the program has open and that each is the parent of the next, and
where the current element is: at the end of that chain, or one box below it
after a box that the stack refused. The chain is what makes it inductive, since
`box_end` pops the stack but goes to the parent of the current element: the two
stay together only if the stack follows the parent links. From it:
`StackHoldsOpenBoxes` and `BoxEndNeverTraps`. Assumption: `LayoutAssumption`, of
which only that lengths, and the width and height of the frame, are natural
numbers is used.

`TreeInvariant`: with `BoxInv` goes `TreeInv`, on the trees and what is made of
them. It was checked on `ly_core` first. Its parts beyond the properties:

* `ParentsOK`, `KidsOK`, `RowsOK`: a parent is older than its children, and the
  child lists mirror the parent links, one list for each box that has children.
* `OpenTree`: all boxes since the open root are below it, and a current element
  other than the last open box means that the stack refused one in this tree.
  It gives the second half of `RootsDrawn`: a `box_end` that empties the stack
  without drawing its root has a refused box to blame.
* `DrawnOK`: only boxes older than the open root are drawn, so no tree mixes
  with an earlier one, neither as siblings nor twice.
* `RootsOK`: a root is open, drawn, or of a tree with a refused box.
* `PressOK`: unless the button went down in this frame, what is pressed is what
  was pressed when it began, and was not drawn under the mouse since.

That `box_end` keeps the last three is a statement about `DrawTree`, which is a
recursive function over the boxes. `DrawTreeIsPass` unrolls it, and
`DrawTreeOK` is an induction along it (`InductionUpTo`, from the library's
`WFMin`) whose hypothesis is `PassOK`: the boxes met so far are in order, each
below a box that was sent (`OrderOK`); each is behind the cursor of its parent,
in the parent's direction, so the next one is apart from it (`PlacesOK`); and
the ids follow the edge of the button (`MouseOK`). From it: `TypeCorrect`,
`EveryRootDrawn`, `NoSiblingsOverlap`, `OnePressIsOne` and the action property
`PressIsAnEdge`, for all pool sizes, sizes of boxes, refusals and positions of
the mouse; they use the whole of `LayoutAssumption` but `Mice`.

**Mailbox and audio manager.** `MailInvariant`: `MailInv` is an invariant of the audio manager.
Its heart is `CellsOK`: every cell between the offsets is of a whole message
that lies between them. That the count fits the ring is not inductive without
it, since the reader moves its offset by the size it finds there. A post takes
several steps, so `PostOK` says that the room found is still there when the
message is written: the reader only makes more. From it: `BoxCountsFit` and
`SleepsOnlyOnOldMail`. `MailboxIsPostBox`, the refinement of `PostBox`: its
mapping `InBox` reads the ring by recursion from one offset to the next, so that
a post changes it at the far end. The proof goes by induction over the distance
to the write offset. The induction theorems of the library cannot be
instantiated here, so `InductionOverNat` states induction for a set of numbers:
the least number outside of it, which `LeastNatural` takes from the
well-foundedness of `<`, is the counterexample to the step.

`LoaderInvariant`: `LoaderInv` traces every letter from the callback to what the
loader makes of it. Beyond types it says: a slot opens only after it was decoded,
for a clip that hashes to it (`SlotsOK`); what is being posted is what the
callback asks for (`PostsWhatIsAsked`); a clip that was asked about has a path
in its slot (`PathsStored`), so that an Open is not posted again while it is
under way (`OnlyOnce`); a stored path means an Open that is under way or has
come to an end (`WillBeReady`); a remembered block is on its way
(`RememberedComes`), which needs `HalfIds`, since an id of which one word is
stored must not look like no id again; the Open of a clip lies before its
Prepares in the box (`OpensGoAhead`), so that a block is filled with silence
only if opening failed; and what is filled so far is of the clip in the slot
now (`FilledSoFar`). From it: `BlocksAreOfTheirId`, `RememberedIsOnItsWay`,
`ClipOpenedOnce` and `NotReadyForAReason`.

The proof corrected `BlocksMatch`. It used to say that all samples of a block
with an id are of one clip. That is not inductive, and not true: a block that
falls out of the history is prepared again, and when another clip was decoded
into the slot in between, the block carries its id while the first samples are
already of the one clip and the others still of the other. The mailbox of
`am_core` is too small to get there. The property now lets the samples be of
different sharers of the slot while the loader fills the block once more.

Assumptions: `MailboxAssumption` (sizes and capacity are positive),
`AudioManagerAssumption` (among others, no clip is named as none) and
`MailAssumption` (`Mail` holds all that the callback posts, and each block it
asks for has a place).

**Dispatch queue.** `DispatchInvariant`: `DispatchInv` holds the types and
relates the two counters of each worker to its tokens and to where the worker
is. From it: `RingNeverOverflows`, `VerifyHolds`, `SyncIsABarrier`. The argument
for the last: a sync that found the counters equal knows that they stay equal,
as only the caller increments the one.

`ItemsInvariant`: `ItemsInv` adds where the items are. The batches a worker has
yet to run lie at the positions `Due` of its ring, from the oldest that has not
run to the newest that is stored; each submitted item is not dealt yet, in
one batch at one due position of one ring, or has run, and it has run at most
once (`NoneLost`, `HeldOnce`, `RanOnce`, `DueToRun`). The counters alone do not
say this: the caller increments `work_count` before it stores the batch, so the
newest position counts only from the store on, and a slot must not be stored
into while an older batch is still due in it, which is what `SlotsApart`
derives from the free slot. TLC checked the invariant on the constants of
`dq_core` before it was proved. From it: `QueueIsForkJoin`, the refinement of
`ForkJoin`. Every step of the caller and the workers is a submission, the run of
a batch of items that had not run, a return from a sync that finds all of them
run, or a stutter.

Assumption: `DispatchAssumption`, which says that there are workers and slots and
that jobs are finite.

**Actors.** `ReloadInvariant`: `ReloadInv` is the actors' types and `RingInv`:
libraries in the ring are open and in one slot each; `dispatch` is what the
current slot holds, or the one behind it between `Install` and `StoreDispatch`;
a call is in the slot that lies as many behind as stores happened since it
began. `CallsSurvive` alone is not inductive: it does not say which slot is
closed next. From it `RingInvariant`, `CallsSurviveReloads` and
`DispatchStaysOpen`. Nothing is assumed of the volume but the types of its
disk: the theorems hold whatever is edited and whatever fails. Assumption:
`HandleCount >= 2`; the code has 8, so a call survives until the seventh reload
during it has completed.

**Volume.** `VolumeInvariant`: `VolumeInv` says that no two paths lead to one
inode and that an edit makes a new one (`InodesApart`), that a watch is of the
inode that is open (`WatchesOpen`), that what kevent returned is noted before
the next call (`OutNoted`), and that a file stays stale until it is mapped
(`Reloading`); with these `NothingOverlooked` is inductive. `LoadInv` says that
the file of a library that is settled was loaded, installed or is about to be,
unless the actor still needs its reload. From them: `VolumeOverlooksNothing` and
`ReloaderSleepsUpToDate`, whatever is edited and whatever fails.

**Shaders.** `OnlyStaleReloaded`: in the frame loop the VERIFY of
`fs_file_reload` does not fail, if there is one file or if none is ever removed
(`Harmless`). `sr_trap` shows that one of the two is needed: the Create event of
a file that is there again names file 0, which does no harm if that is the file,
or if every deleted file is there again before the poll ends. The proof is by `ReloadInv`: each
file has at most one event, whatever the order of kevent's reports, and is stale
if that event makes the loop reload it (`EventsFit`). For this, a deleted file
must keep its inode, which is not the one on disk, and must not be reported
again (`Deletions`, `NewInodes`); reports must be gone when the next poll
begins (`PollBegins`); and without removals a deleted file must be open again
before the poll ends (`ReplacedAtOnce`). `NeverTraps` says nothing of the events
that are still to be handled, and is far from inductive.

Model-checked only: everything that says "eventually" (liveness and ENABLED are
beyond the prover).

## What is not modelled

`PROJECT.json` lists every part with the reason. Most of the repository's
110 000 lines are vendored (stb, NanoVG, Clay, WASM3, SoundIo): image and font
decoding, rendering and an interpreter, which keep no state that steps of
several actors could spoil. The models cover the program's own concurrent core,
a small share of those lines.

In the parts that are modelled: the deinit functions, which may only follow the
last use; the kernel's own behaviour (a mapping of the same pages twice, Mach
semaphores, kqueue, dlopen, SIGCONT) is taken from how the code uses it; weak
memory order is not modelled: single accesses to shared state are atomic and in
program order, but for a block's id, whose two words come in either order. A
library written in place would be the same library to dlopen, so libraries are
only replaced, or removed and created. A content mapped with MAP_PRIVATE is
taken to stay what it was when it was mapped.

* Logger: one logging thread. The claim of the writer by the first caller is
  left out, and with it what happens when a second thread logs.
* Layout: the sizing passes (grow, fit), which compute what draw does not read;
  `box_id`, which the studio does not call.
* Renderer: compiling, uniforms, OpenGL itself; a shader that changes in the
  middle of a render frame.
* Dispatch queue: waits that fail. `th_sem_wait` takes an aborted wait up again
  by itself and fails only on a semaphore that is destroyed; sync and workers
  then loop.
* Mailbox: the ports, toss, the second peek and the timeouts, which the audio
  manager does not use. Audio manager: the reload of a file that changed (its
  volume is polled by nobody), and more than one channel.
* Promise and RPC, arenas, the memory poker and pressure monitor, positions,
  tar and WAV: see the plan.

Hazards in code that no module covers, noted while reading:

* `Basic/RingBuffer.c:131`: a frame exactly as long as the ring (`FramesFit`).
* `LibThread/DispatchQueue.c:47` and `:31`: sysconf that reports no processors;
  an init that fails after some workers run.
* `LibCore/Actor.c:102`: a library without the symbol is not closed.
* `LibCore/FSVolume.cpp:173`: the descriptor of a deleted inode is not closed;
  `:327` and `:362`: virtual files, and files mounted under another path, are
  reopened by the wrong path.
* `LibLayout2/Layout.cpp:57`: ids are counted per frame, so that a box that
  comes and goes moves the press to its neighbour; `:334`: the vertical growth
  adds up the horizontal flex factors.
* `Basic/Mailbox.cpp:295`: tying a writer from a second thread.
* `LibAudio/AudioManager.h:31`: block number and channel share one word.
* `Basic/MemoryPoker.cpp:52`: the start of a region is masked with the page
  size itself, which clears one bit.
* `Basic/MemoryPressureMonitor.cpp:138`: whether the pressure became critical is
  answered by comparing it with the warning level.
* `Basic/Arena.cpp:43`: the mark of a full arena fails the VERIFY of its sweep.

## Plan

1. Promise and RPC over the mailbox, against a table of requests that are
   answered once.
2. Arenas against an abstract stack of live blocks; prove that live blocks
   never overlap.
3. More of hot reload: two shaders replaced in turn, libraries whose watch is
   lost in the gap, a failed open that is never tried again
   (`LibCore/FSVolume.cpp:362`).
4. Memory poker and pressure monitor; small state machines with one run each.
5. Pure algorithms as operators against reference definitions: the sizing
   passes of the layout, positions, tar headers, WAV offsets, byte decoding.
