-------------------------------- MODULE Frames --------------------------------
(***************************************************************************)
(* The frames of the main thread (MusicStudio/main.cpp and State.cpp):     *)
(* layout_frame sends render commands into a message queue, render_frame   *)
(* takes them out again and draws, both on the main thread.  The queue is  *)
(* MessageQueue, step by step.                                             *)
(*                                                                         *)
(* The main loop empties the thread's temporary arena once per round, and  *)
(* a round draws more than one frame when the window is being resized: the *)
(* resize callback, run while events are polled, draws one as well.        *)
(*                                                                         *)
(* What the boxes of a frame are is left to module Layout: here a frame    *)
(* sends any number of rectangles up to MaxBoxes, which covers what a      *)
(* refused rectangle leaves out.                                           *)
(*                                                                         *)
(* A quad waits in the renderer's vertex buffer until it is flushed: by a  *)
(* flush command, or by the renderer itself before a quad that finds the   *)
(* buffer full or that comes with another shader.                          *)
(***************************************************************************)
EXTENDS MessageQueueInvariant, FiniteSets

CONSTANTS
    WindowSizes,  \* the sizes the window is given, each a positive number
    SmallSize,    \* the data size of a resolution and of a flush, in cells
    QuadSize,     \* the data size of a rectangle, in cells
    ArenaCells,   \* the size of the main thread's temporary arena, in cells
    QuadsMax,     \* the quads that the vertex buffer holds, 1365 in the code
    Shaders,      \* what the shader files may give: a slot of the renderer
    MaxBoxes,     \* bound: rectangles of a frame, beside the background
    MaxResizes    \* bound: resizes

ASSUME FramesAssumption ==
    /\ WindowSizes \subseteq Nat \ {0}
    /\ {SmallSize, QuadSize} \subseteq Sizes
    /\ ArenaCells \in Nat
    /\ QuadsMax \in Nat \ {0}
    /\ Shaders \subseteq Nat
    /\ MaxBoxes \in Nat
    /\ MaxResizes \in Nat
    /\ SharedThread /\ ReadOps = {"try_read"}

VARIABLES
    pc,          \* where the main thread is
    resizing,    \* the frame is drawn by the resize callback
    window,      \* the size of the window
    resizes,     \* number of resizes so far
    input,       \* the frame bounds in layout->input_state; 0 before a frame
    commands,    \* history: the command each th_message_send was given
    frame,       \* number of the frame
    boxes,       \* rectangles sent for this frame, beside the background
    arena,       \* cells of the temporary arena that are in use
    handled,     \* number of commands render_frame has carried out
    resolution,  \* trans->resolution; 0 before the first command
    found,       \* the shader that this frame's rectangles are given
    shader,      \* render->current_shader
    changes,     \* history: the rectangles that changed the shader
    quads,       \* quads that wait in the vertex buffer
    screen,      \* what was flushed since the screen was cleared
    cleared      \* history: the rectangles that clearing it has erased

layoutVars == <<input, commands, frame, boxes>>
renderVars == <<handled, resolution, found, shader, changes, quads, screen,
                cleared>>
windowVars == <<resizing, window, resizes>>
frameVars  == <<pc, windowVars, layoutVars, arena, renderVars>>
allVars    == <<vars, frameVars>>

FramesInit ==
    /\ Init
    /\ pc = "loop"
    /\ resizing = FALSE
    /\ window \in WindowSizes
    /\ resizes = 0
    /\ input = 0
    /\ commands = <<>>
    /\ frame = 0 /\ boxes = 0
    /\ arena = 0
    /\ handled = 0
    /\ resolution = 0
    /\ found = 0 /\ shader = 0 /\ changes = {}
    /\ quads = {} /\ screen = <<>> /\ cleared = {}

-----------------------------------------------------------------------------
(* The main loop                                                           *)

(* reset_temporary_arena.                                                  *)
StartRound ==
    /\ pc = "loop"
    /\ arena' = 0
    /\ pc' = "poll"
    /\ UNCHANGED <<vars, windowVars, layoutVars, renderVars>>

(* ui_application_poll_events calls the resize callback, which draws.      *)
Resize ==
    /\ pc = "poll"
    /\ resizes < MaxResizes
    /\ resizes' = resizes + 1
    /\ window' \in WindowSizes \ {window}
    /\ resizing' = TRUE
    /\ pc' = "layout"
    /\ UNCHANGED <<vars, layoutVars, arena, renderVars>>

StartFrame ==
    /\ pc = "poll"
    /\ resizing' = FALSE
    /\ pc' = "layout"
    /\ UNCHANGED <<vars, window, resizes, layoutVars, arena, renderVars>>

(* ui_window_gl_flush; then back to polling or to the next round.          *)
Swap ==
    /\ pc = "swap"
    /\ pc' = IF resizing THEN "poll" ELSE "loop"
    /\ UNCHANGED <<vars, windowVars, layoutVars, arena, renderVars>>

-----------------------------------------------------------------------------
(* layout_frame                                                            *)

Post(kind, n, bounds) ==
    /\ Send(IF kind = "rectangle" THEN QuadSize ELSE SmallSize)
    /\ commands' = Append(commands,
                          [kind |-> kind, frame |-> n, bounds |-> bounds])

(* Mutant: the resolution is sent for the first frame only.                *)
BeginLayout_FirstOnly ==
    /\ pc = "layout"
    /\ input' = window
    /\ frame' = frame + 1
    /\ boxes' = 0
    /\ IF input = 0
       THEN Post("resolution", frame', window)
       ELSE UNCHANGED <<vars, commands>>
    /\ pc' = "background"
    /\ UNCHANGED <<windowVars, arena, renderVars>>

(* layout_begin: the new bounds are remembered whether or not the command  *)
(* that announces them can be sent.                                        *)
BeginLayout ==
    /\ pc = "layout"
    /\ input' = window
    /\ frame' = frame + 1
    /\ boxes' = 0
    /\ IF input # window
       THEN Post("resolution", frame', window)
       ELSE UNCHANGED <<vars, commands>>
    /\ pc' = "background"
    /\ UNCHANGED <<windowVars, arena, renderVars>>

(* A send that has returned leaves wpc "idle"; what it returned is logged  *)
(* and otherwise ignored.                                                  *)
SendBackground ==
    /\ pc = "background"
    /\ Post("rectangle", frame, input)
    /\ pc' = "boxes"
    /\ UNCHANGED <<windowVars, input, frame, boxes, arena, renderVars>>

SendBox ==
    /\ pc = "boxes"
    /\ boxes < MaxBoxes
    /\ boxes' = boxes + 1
    /\ Post("rectangle", frame, input)
    /\ UNCHANGED <<pc, windowVars, input, frame, arena, renderVars>>

(* Mutant: a frame of unchanged bounds is not flushed.                     *)
EndLayout_OnChange ==
    /\ pc = "boxes"
    /\ wpc = "idle"
    /\ IF input # resolution
       THEN Post("flush", frame, input)
       ELSE UNCHANGED <<vars, commands>>
    /\ pc' = "render"
    /\ UNCHANGED <<windowVars, input, frame, boxes, arena, renderVars>>

EndLayout ==
    /\ pc = "boxes"
    /\ Post("flush", frame, input)
    /\ pc' = "render"
    /\ UNCHANGED <<windowVars, input, frame, boxes, arena, renderVars>>

(* The steps of th_message_send.                                           *)
SendStep == WriterStep /\ UNCHANGED frameVars

-----------------------------------------------------------------------------
(* render_frame                                                            *)

CommandsOf(drawn) == {q.command : q \in drawn}

OnScreen == UNION {CommandsOf(screen[i]) : i \in DOMAIN screen}

(* fs_volume_poll_events reads the shader files that were written, once,   *)
(* before the first command.  A shader that cannot be compiled leaves the  *)
(* renderer with the one it has.  Then the screen is cleared, but not the  *)
(* vertex buffer.                                                          *)
BeginRender ==
    /\ pc = "render"
    /\ wpc = "idle"
    /\ found' \in Shaders \union {shader}
    /\ screen' = <<>>
    /\ cleared' = cleared \union OnScreen
    /\ pc' = "read"
    /\ UNCHANGED <<vars, windowVars, layoutVars, arena, handled, resolution,
                   shader, changes, quads>>

CallTryRead ==
    /\ pc = "read"
    /\ BeginRead
    /\ pc' = "reading"
    /\ UNCHANGED <<windowVars, layoutVars, arena, renderVars>>

(* The steps of th_message_try_read.  Its copy of a command comes from the *)
(* temporary arena and stays there: the mark that is swept after the       *)
(* command was handled is taken after the copy was made.                   *)
ReadStep ==
    LET room == arena + rmsg.size <= ArenaCells IN
    /\ pc = "reading"
    /\ rpc # "idle"
    /\ ReaderStep
    /\ rpc = "clone" => (rpc' = "consume") = room
    /\ arena' = IF rpc = "clone" /\ room THEN arena + rmsg.size ELSE arena
    /\ UNCHANGED <<pc, windowVars, layoutVars, renderVars>>

(* The command that was read.                                              *)
Current == taken[handled + 1].id

(* gl_flush: nothing is drawn if no quad waits.                            *)
Flushed == IF quads = {} THEN screen ELSE Append(screen, quads)

(* Mutant: a full vertex buffer is emptied, but not drawn.                 *)
PushQuad_Drops(c) ==
    LET quad == [command |-> c, scale |-> resolution] IN
    /\ shader' = found
    /\ changes' = IF found = shader THEN changes ELSE changes \union {c}
    /\ IF found # shader \/ Cardinality(quads) = QuadsMax
       THEN screen' = screen /\ quads' = {quad}
       ELSE screen' = screen /\ quads' = quads \union {quad}

(* gl_push_quad: gl_reserve flushes the quads when six more vertexes do    *)
(* not fit, use_shader when they were pushed with another shader.          *)
PushQuad(c) ==
    LET quad == [command |-> c, scale |-> resolution] IN
    /\ shader' = found
    /\ changes' = IF found = shader THEN changes ELSE changes \union {c}
    /\ IF found # shader \/ Cardinality(quads) = QuadsMax
       THEN screen' = Flushed /\ quads' = {quad}
       ELSE screen' = screen /\ quads' = quads \union {quad}

SetResolution(bounds) ==
    /\ resolution' = bounds
    /\ UNCHANGED <<shader, changes, quads, screen>>

(* Mutant: one picture per frame, whatever the queue still holds.          *)
HandleCommand_OneFlush ==
    LET command == commands[Current] IN
    /\ pc = "reading" /\ rpc = "idle"
    /\ handled < Len(taken)
    /\ handled' = handled + 1
    /\ \/ command.kind = "resolution" /\ SetResolution(command.bounds)
       \/ /\ command.kind = "rectangle"
          /\ PushQuad(Current)
          /\ UNCHANGED resolution
       \/ /\ command.kind = "flush"
          /\ screen' = Flushed /\ quads' = {}
          /\ UNCHANGED <<resolution, shader, changes>>
    /\ pc' = IF command.kind = "flush" THEN "swap" ELSE "read"
    /\ UNCHANGED <<vars, windowVars, layoutVars, arena, found, cleared>>

HandleCommand ==
    LET command == commands[Current] IN
    /\ pc = "reading" /\ rpc = "idle"
    /\ handled < Len(taken)
    /\ handled' = handled + 1
    /\ \/ command.kind = "resolution" /\ SetResolution(command.bounds)
       \/ /\ command.kind = "rectangle"
          /\ PushQuad(Current)
          /\ UNCHANGED resolution
       \/ /\ command.kind = "flush"
          /\ screen' = Flushed /\ quads' = {}
          /\ UNCHANGED <<resolution, shader, changes>>
    /\ pc' = "read"
    /\ UNCHANGED <<vars, windowVars, layoutVars, arena, found, cleared>>

(* th_message_try_read returned false.                                     *)
EndRender ==
    /\ pc = "reading" /\ rpc = "idle"
    /\ handled = Len(taken)
    /\ pc' = "swap"
    /\ UNCHANGED <<vars, windowVars, layoutVars, arena, renderVars>>

MainLoop == StartRound \/ Resize \/ StartFrame \/ Swap

LayoutFrame ==
    BeginLayout \/ SendBackground \/ SendBox \/ EndLayout \/ SendStep

RenderFrame ==
    BeginRender \/ CallTryRead \/ ReadStep \/ HandleCommand \/ EndRender

FramesNext == rpc # "trapped" /\ (MainLoop \/ LayoutFrame \/ RenderFrame)

FramesSpec == FramesInit /\ [][FramesNext]_allVars

-----------------------------------------------------------------------------
(* Properties                                                              *)

OfKind(kind) == {c \in DOMAIN commands : commands[c].kind = kind}

Accepted == {sent[i].id : i \in DOMAIN sent}
Refused  == DOMAIN commands \ Accepted
Handled  == {sent[i].id : i \in 1 .. handled}

(* The last command of a kind that was sent before another command.        *)
Latest(kind, c) ==
    LET earlier == {d \in OfKind(kind) : d < c}
    IN  CHOOSE d \in earlier : \A other \in earlier : other <= d

(* A rectangle is scaled by the bounds of the frame it belongs to, also    *)
(* when it is drawn frames later, unless the queue refused the resolution  *)
(* command that announced them: layout_begin does not send it again.       *)
RightScale ==
    \A q \in quads :
        \/ q.scale = commands[q.command].bounds
        \/ Latest("resolution", q.command) \in Refused

(* What layout sent since the flush before, of what the queue accepted.    *)
Picture(flush) ==
    {c \in OfKind("rectangle") \intersect Accepted :
        /\ c < flush
        /\ \A other \in OfKind("flush") \intersect Accepted :
               ~(c < other /\ other < flush)}

(* The picture that a rectangle belongs to, as far as it was sent.         *)
PictureOf(c) ==
    {d \in OfKind("rectangle") \intersect Accepted :
        \A flush \in OfKind("flush") \intersect Accepted :
            /\ ~(c < flush /\ flush < d)
            /\ ~(d < flush /\ flush < c)}

(* A picture the renderer cannot draw at once: it has more rectangles than *)
(* the vertex buffer holds, or the shader changed in the middle of it.     *)
Torn(picture) ==
    \/ Cardinality(picture) > QuadsMax
    \/ \E c, d \in picture : c < d /\ d \in changes

(* Rectangles are painted in the order they were sent in, each one that    *)
(* was handled is painted or waits to be, and what is on the screen or     *)
(* waits leaves none out from its first to its last.                       *)
InOrder ==
    /\ \A i, j \in DOMAIN screen : i < j =>
          \A p \in screen[i], q \in screen[j] : p.command < q.command
    /\ \A c \in OnScreen : \A q \in quads : c < q.command
    /\ \A c \in OnScreen \union CommandsOf(quads) :
          \A d \in OfKind("rectangle") \intersect Handled :
              c < d => d \in OnScreen \union CommandsOf(quads)
    /\ OfKind("rectangle") \intersect Handled
          \subseteq OnScreen \union CommandsOf(quads) \union cleared

(* What is drawn at once is the picture between two flush commands: one    *)
(* frame, except that a refused flush joins a frame to the next.  Only a   *)
(* picture that the renderer cannot draw at once is drawn in parts, and no *)
(* part is of two pictures.                                                *)
WholeOrTorn(drawn) ==
    \/ \E flush \in OfKind("flush") \intersect Accepted :
          drawn = Picture(flush)
    \/ \E c \in drawn :
          drawn \subseteq PictureOf(c) /\ Torn(PictureOf(c))

DrawnWhole == \A i \in DOMAIN screen : WholeOrTorn(CommandsOf(screen[i]))

(* A picture comes to the screen whole, or in parts for want of room in    *)
(* the vertex buffer or because of its shader, in order and with nothing   *)
(* left out.  render_frame may stop in the middle of a picture and go on   *)
(* in a later frame, which clears the screen: nothing that was not painted *)
(* is lost then.                                                           *)
WholePictures == DrawnWhole /\ InOrder

(* render_frame leaves a command in the queue only if the temporary arena  *)
(* has no room for the copy.                                               *)
LeftOnlyWhenFull ==
    pc = "swap" /\ Unread # {} =>
        arena + sent[Len(taken) + 1].size > ArenaCells

(* As long as nothing was left behind and nothing was refused, each swap   *)
(* shows exactly the frame that was just laid out, whether or not it was   *)
(* more than the vertex buffer holds.                                      *)
ShowsThisFrame ==
    pc = "swap" /\ failures = 0 /\ Refused = {} =>
        /\ quads = {}
        /\ OnScreen = {c \in OfKind("rectangle") : commands[c].frame = frame}
=============================================================================
