---------------------------- MODULE FramesProofs ----------------------------
(***************************************************************************)
(* The frames of the main thread use the message queue as its              *)
(* specification says, so that what is proved of the queue holds of them,  *)
(* for every window, arena and number of boxes.                            *)
(***************************************************************************)
EXTENDS Frames, MessageQueueProofs, FiniteSetTheorems

(* Whatever a frame does is a call or a step of the queue, or none.        *)
LEMMA FrameIsQueueStep == [FramesNext]_allVars => [Next]_vars
<1>. SUFFICES ASSUME [FramesNext]_allVars PROVE [Next]_vars
  OBVIOUS
<1>1. CASE FramesNext /\ MainLoop
  <2>1. UNCHANGED vars
    BY <1>1 DEF MainLoop, StartRound, Resize, StartFrame, Swap
  <2> QED BY <2>1
<1>2. CASE FramesNext /\ LayoutFrame
  <2>. USE FramesAssumption
  <2>1. ASSUME NEW kind, NEW n, NEW bounds, Post(kind, n, bounds)
        PROVE  \E size \in Sizes : Send(size)
    BY <2>1 DEF Post
  <2>2. UNCHANGED vars \/ WriterStep \/ \E size \in Sizes : Send(size)
    BY <1>2, <2>1
    DEF LayoutFrame, BeginLayout, SendBackground, SendBox, EndLayout, SendStep
  <2> QED BY <1>2, <2>2 DEF Next, FramesNext
<1>3. CASE FramesNext /\ RenderFrame
  <2>1. UNCHANGED vars \/ ReaderStep
    BY <1>3
    DEF RenderFrame, BeginRender, CallTryRead, ReadStep, HandleCommand,
        EndRender, ReaderStep
  <2> QED BY <1>3, <2>1 DEF Next, FramesNext
<1>4. CASE UNCHANGED allVars
  BY <1>4 DEF allVars
<1> QED BY <1>1, <1>2, <1>3, <1>4 DEF FramesNext

(* layout_frame and render_frame use the queue by its specification.       *)
THEOREM FramesUseQueue == FramesSpec => Spec
<1>1. FramesInit => Init
  BY DEF FramesInit
<1> QED BY <1>1, FrameIsQueueStep, PTL DEF FramesSpec, Spec

(* The semaphore counts the commands render_frame has yet to take.         *)
THEOREM FramesTokensMatch == FramesSpec => []TokensMatch
  BY FramesUseQueue, SemaphoreCorrect, PTL

(* No frame ends in the VERIFY of th_message_try_read, since the two       *)
(* frames share a thread.                                                  *)
THEOREM FramesNeverTrap == FramesSpec => []NeverTraps
<1>1. Spec => []NeverTraps
  BY FramesAssumption, OneThreadNeverTraps
<1> QED BY <1>1, FramesUseQueue, PTL

(* Between layout_frame and render_frame the commands go through a bounded *)
(* FIFO channel: none is lost, torn, repeated or reordered.                *)
THEOREM FramesImplementChannel == FramesSpec => ImplementsChannel
  BY FramesUseQueue, QueueRefinesChannel, PTL
-----------------------------------------------------------------------------
(* The inductive invariant                                                 *)

Kinds   == {"resolution", "rectangle", "flush"}
Command == [kind : Kinds, frame : Nat, bounds : Nat]
Quad    == [command : Nat, scale : Nat]

FrameTypes ==
    /\ pc \in {"loop", "poll", "layout", "background", "boxes", "render",
               "read", "reading", "swap"}
    /\ window \in Nat \ {0} /\ input \in Nat /\ frame \in Nat
    /\ arena \in Nat /\ handled \in Nat /\ resolution \in Nat
    /\ commands \in Seq(Command)
    /\ quads \in SUBSET Quad
    /\ screen \in Seq(SUBSET Quad)

(* The two frames take turns, and so do the calls of the queue.            *)
Turns ==
    /\ pc \in {"loop", "poll", "layout", "read", "reading", "swap"}
         => wpc = "idle"
    /\ pc # "reading" => rpc = "idle" /\ handled = Len(taken)
    /\ pc = "reading" =>
         IF rpc \in {"take", "trapped"} THEN handled = Len(taken) - 1
         ELSE IF rpc = "idle" THEN handled \in {Len(taken) - 1, Len(taken)}
         ELSE handled = Len(taken)

(* A message is named by the number of its command, and those that were    *)
(* sent rise.                                                              *)
IdsRise ==
    /\ Len(commands) = attempts
    /\ \A i \in 1 .. Len(sent) : sent[i].id <= attempts
    /\ \A i, j \in 1 .. Len(sent) : i < j => sent[i].id < sent[j].id
    /\ wpc \notin {"idle", "signal"} =>
         /\ wmsg.id = attempts
         /\ \A i \in 1 .. Len(sent) : sent[i].id < attempts

(* d is the last resolution command of those before c.                     *)
Announces(d, c) ==
    /\ d \in OfKind("resolution") /\ d < c
    /\ \A other \in OfKind("resolution") : other < c => other <= d

(* The bounds of a frame are those of the last resolution command.         *)
BoundsAnnounced ==
    /\ pc \notin {"loop", "poll", "layout"} => input # 0
    /\ input # 0 =>
         \E d \in DOMAIN commands :
            Announces(d, Len(commands) + 1) /\ commands[d].bounds = input
    /\ \A c \in OfKind("rectangle") :
         \E d \in DOMAIN commands :
            Announces(d, c) /\ commands[d].bounds = commands[c].bounds

(* A frame ends with its only flush.                                       *)
FlushEndsFrame ==
    /\ \A c \in DOMAIN commands : commands[c].frame <= frame
    /\ \A c \in OfKind("flush"), d \in DOMAIN commands :
          c < d => commands[c].frame < commands[d].frame
    /\ pc \in {"background", "boxes"} =>
          \A c \in OfKind("flush") : commands[c].frame < frame
    /\ \A c \in DOMAIN commands :
          \/ pc \in {"background", "boxes"} /\ commands[c].frame = frame
          \/ \E f \in OfKind("flush") :
                c <= f /\ commands[f].frame = commands[c].frame
    /\ pc \in {"render", "read", "reading", "swap"} =>
          /\ Len(commands) \in OfKind("flush")
          /\ commands[Len(commands)].frame = frame

(* The commands are of one frame after the other, and a command that is    *)
(* being sent is of the frame being laid out.                              *)
FramesRise ==
    /\ \A c, d \in DOMAIN commands :
          c < d => commands[c].frame <= commands[d].frame
    /\ wpc # "idle" => commands[attempts].frame = frame

(* The rectangles handled since the last flush command.                    *)
Waiting ==
    {c \in OfKind("rectangle") \intersect Handled :
        \A f \in OfKind("flush") \intersect Handled : f < c}

(* The quads in the vertex buffer are theirs, all of them unless their     *)
(* picture is torn.                                                        *)
WaitingQuads ==
    /\ CommandsOf(quads) \subseteq Waiting
    /\ CommandsOf(quads) = Waiting \/ Torn(Waiting)
    /\ IsFiniteSet(quads) /\ Cardinality(CommandsOf(quads)) = Cardinality(quads)

(* What render_frame keeps is what the commands it handled say.            *)
RenderFollows ==
    /\ \A i \in 1 .. handled :
          /\ sent[i].id \in OfKind("resolution")
          /\ \A j \in i + 1 .. handled : sent[j].id \notin OfKind("resolution")
          => resolution = commands[sent[i].id].bounds
    /\ OnScreen \subseteq Handled
    /\ WaitingQuads

(* A rectangle was scaled by the bounds of its frame, or the resolution    *)
(* command before it was refused.                                          *)
QuadsScaled ==
    \A q \in quads, d \in DOMAIN commands :
        Announces(d, q.command) =>
            q.scale = commands[q.command].bounds \/ d \notin Accepted

(* The reader stopped.                                                     *)
Stopped ==
    \/ pc = "swap"
    \/ pc = "reading" /\ rpc = "idle" /\ handled = Len(taken)

LeftForLater ==
    Stopped /\ Unread # {} =>
        failures > 0 /\ arena + sent[Len(taken) + 1].size > ArenaCells

(* A command that the queue has refused.                                   *)
Lost(c) == c \notin Accepted /\ ~(c = attempts /\ wpc \notin {"idle", "signal"})

Shown ==
    /\ quads = {}
    /\ OnScreen = {c \in OfKind("rectangle") : commands[c].frame = frame}

HandledEarlier ==
    pc \in {"background", "boxes", "render"} =>
        \A i \in 1 .. handled : commands[sent[i].id].frame < frame

(* Nothing failed: the frames are handled one by one.                      *)
FrameByFrame ==
    failures = 0 /\ (\A c \in DOMAIN commands : ~Lost(c)) =>
        /\ pc \in {"loop", "poll", "layout", "swap"} => handled = Len(sent)
        /\ \A i \in handled + 1 .. Len(sent) :
              commands[sent[i].id].frame = frame
        /\ pc \in {"read", "reading"} =>
              OnScreen \union CommandsOf(quads) =
                  {c \in OfKind("rectangle") \intersect Handled :
                      commands[c].frame = frame}
        /\ pc = "swap" => Shown

FramesInv ==
    /\ FrameTypes /\ Turns /\ IdsRise
    /\ BoundsAnnounced /\ FlushEndsFrame /\ FramesRise /\ HandledEarlier
    /\ RenderFollows /\ QuadsScaled /\ WholePictures
    /\ LeftForLater /\ FrameByFrame

-----------------------------------------------------------------------------
(* Lemmas                                                                  *)

LEMMA InvFacts ==
    ASSUME QueueInv, FramesInv
    PROVE  /\ commands \in Seq(Command) /\ attempts \in Nat
           /\ Len(commands) = attempts /\ DOMAIN commands = 1 .. attempts
           /\ Len(sent) \in Nat /\ Len(taken) \in Nat /\ handled \in Nat
           /\ handled <= Len(taken) /\ Len(taken) <= Len(sent)
           /\ DOMAIN sent = 1 .. Len(sent)
           /\ \A i \in 1 .. Len(sent) : sent[i].id \in 1 .. attempts
<1>1. /\ commands \in Seq(Command) /\ Len(commands) = attempts
      /\ attempts \in Nat /\ handled \in Nat
      /\ sent \in Seq(Message) /\ taken \in Seq(Datum)
  BY QueueAssumption DEF FramesInv, FrameTypes, IdsRise, QueueInv, TypeOK
<1>2. /\ DOMAIN commands = 1 .. attempts /\ DOMAIN sent = 1 .. Len(sent)
      /\ Len(sent) \in Nat /\ Len(taken) \in Nat
  BY <1>1
<1>3. Len(taken) <= Len(sent)
  BY DEF QueueInv, Layout
<1>4. handled <= Len(taken)
  BY <1>1, <1>2 DEF FramesInv, Turns
<1>5. ASSUME NEW i \in 1 .. Len(sent) PROVE sent[i].id \in 1 .. attempts
  <2>1. sent[i] \in Message /\ sent[i].id <= attempts
    BY <1>1, <1>2 DEF FramesInv, IdsRise
  <2> QED BY <1>1, <2>1, QueueAssumption DEF Message
<1> QED BY <1>1, <1>2, <1>3, <1>4, <1>5

(* th_message_send is called: the command joins the others, and what was   *)
(* sent stays.                                                             *)
LEMMA CommandJoins ==
    ASSUME QueueInv, FramesInv, NEW kind \in Kinds, NEW n \in Nat,
           NEW bounds \in Nat, Post(kind, n, bounds)
    PROVE  /\ commands' \in Seq(Command)
           /\ Len(commands') = attempts + 1
           /\ DOMAIN commands' = 1 .. attempts + 1
           /\ \A c \in 1 .. attempts : commands'[c] = commands[c]
           /\ commands'[attempts + 1] =
                 [kind |-> kind, frame |-> n, bounds |-> bounds]
           /\ attempts' = attempts + 1
           /\ wpc = "idle" /\ wpc' = "map" /\ wmsg'.id = attempts + 1
           /\ rpc = "idle"
           /\ UNCHANGED <<rpc, taken, sent, failures>>
<1>1. /\ commands \in Seq(Command) /\ Len(commands) = attempts
      /\ attempts \in Nat
  BY InvFacts
<1>2. [kind |-> kind, frame |-> n, bounds |-> bounds] \in Command
  BY DEF Command
<1>3. /\ attempts' = attempts + 1
      /\ wpc = "idle" /\ wpc' = "map" /\ wmsg'.id = attempts + 1
      /\ rpc = "idle"
      /\ UNCHANGED <<rpc, taken, sent, failures>>
  BY FramesAssumption DEF Post, Send, history, readerVars
<1>4. commands' = Append(commands, [kind |-> kind, frame |-> n,
                                    bounds |-> bounds])
  BY DEF Post
<1>5. /\ commands' \in Seq(Command) /\ Len(commands') = attempts + 1
      /\ \A c \in 1 .. attempts : commands'[c] = commands[c]
      /\ commands'[attempts + 1] = [kind |-> kind, frame |-> n,
                                    bounds |-> bounds]
  BY <1>1, <1>2, <1>4
<1>6. DOMAIN commands' = 1 .. attempts + 1
  BY <1>1, <1>5
<1> QED BY <1>3, <1>5, <1>6

LEMMA KindsJoin ==
    ASSUME QueueInv, FramesInv, NEW kind \in Kinds, NEW n \in Nat,
           NEW bounds \in Nat, Post(kind, n, bounds), NEW k
    PROVE  OfKind(k)' = IF k = kind THEN OfKind(k) \union {attempts + 1}
                        ELSE OfKind(k)
<1>1. /\ DOMAIN commands = 1 .. attempts /\ attempts \in Nat
      /\ DOMAIN commands' = 1 .. attempts + 1
      /\ \A c \in 1 .. attempts : commands'[c] = commands[c]
      /\ commands'[attempts + 1].kind = kind
  <2>1. commands'[attempts + 1] =
           [kind |-> kind, frame |-> n, bounds |-> bounds]
    BY CommandJoins
  <2> QED BY <2>1, InvFacts, CommandJoins
<1>2. \A c : c \in 1 .. attempts + 1 <=> c \in 1 .. attempts \/ c = attempts + 1
  BY <1>1
<1>3. attempts + 1 \notin 1 .. attempts
  BY <1>1
<1> QED BY <1>1, <1>2, <1>3 DEF OfKind

(* What is painted, waits and was handled depends on these alone.          *)
LEMMA SameScreen ==
    ASSUME UNCHANGED <<commands, sent, handled, changes, quads,
                       screen, cleared>>
    PROVE  /\ OnScreen' = OnScreen /\ CommandsOf(quads)' = CommandsOf(quads)
           /\ Handled' = Handled /\ Accepted' = Accepted
           /\ Waiting' = Waiting /\ (Torn(Waiting) => Torn(Waiting)')
           /\ \A k : OfKind(k)' = OfKind(k)
<1>1. /\ \A k : OfKind(k)' = OfKind(k)
      /\ Accepted' = Accepted /\ Handled' = Handled
  BY DEF OfKind, Accepted, Handled
<1>2. OnScreen' = OnScreen /\ CommandsOf(quads)' = CommandsOf(quads)
  BY DEF OnScreen, CommandsOf
<1>3. Waiting' = Waiting
  BY <1>1 DEF Waiting
<1>4. Torn(Waiting) => Torn(Waiting)'
  BY <1>3 DEF Torn
<1> QED BY <1>1, <1>2, <1>3, <1>4

(* A torn picture stays torn when it grows.                                *)
LEMMA TornGrows ==
    ASSUME NEW S, NEW T, S \subseteq T, IsFiniteSet(T), Torn(S),
           changes \subseteq changes'
    PROVE  Torn(T)'
<1>1. CASE Cardinality(S) > QuadsMax
  <2>1. /\ Cardinality(S) <= Cardinality(T) /\ IsFiniteSet(S)
    BY FS_Subset
  <2>2. Cardinality(S) \in Nat /\ Cardinality(T) \in Nat /\ QuadsMax \in Nat
    BY <2>1, FS_CardinalityType, FramesAssumption
  <2>3. Cardinality(T) > QuadsMax
    BY <1>1, <2>1, <2>2
  <2> QED BY <2>3 DEF Torn
<1>2. CASE \E c, d \in S : c < d /\ d \in changes
  BY <1>2 DEF Torn
<1> QED BY <1>1, <1>2 DEF Torn

(* What was drawn stays whole or torn while more commands arrive.          *)
LEMMA DrawnStays ==
    ASSUME NEW D, WholeOrTorn(D), changes \subseteq changes',
           \A f \in OfKind("flush") \intersect Accepted :
               f \in OfKind("flush")' \intersect Accepted'
               /\ Picture(f)' = Picture(f),
           \A c \in Accepted : /\ PictureOf(c) \subseteq PictureOf(c)'
                               /\ IsFiniteSet(PictureOf(c)')
    PROVE  WholeOrTorn(D)'
<1>1. CASE \E f \in OfKind("flush") \intersect Accepted : D = Picture(f)
  <2>1. PICK f \in OfKind("flush") \intersect Accepted : D = Picture(f)
    BY <1>1
  <2>2. f \in OfKind("flush")' \intersect Accepted' /\ D = Picture(f)'
    BY <2>1
  <2> QED BY <2>2 DEF WholeOrTorn
<1>2. CASE \E c \in D : D \subseteq PictureOf(c) /\ Torn(PictureOf(c))
  <2>1. PICK c \in D : D \subseteq PictureOf(c) /\ Torn(PictureOf(c))
    BY <1>2
  <2>2. c \in Accepted
    BY <2>1 DEF PictureOf
  <2>3. PICK S, T : S = PictureOf(c) /\ T = PictureOf(c)'
    OBVIOUS
  <2>4. S \subseteq T /\ IsFiniteSet(T) /\ Torn(S) /\ D \subseteq T
    BY <2>1, <2>2, <2>3
  <2>5. Torn(T)'
    BY <2>4, TornGrows
  <2>6. Torn(PictureOf(c))'
    BY <2>3, <2>5 DEF Torn
  <2>7. D \subseteq PictureOf(c)'
    BY <2>3, <2>4
  <2> QED BY <2>6, <2>7 DEF WholeOrTorn
<1> QED BY <1>1, <1>2 DEF WholeOrTorn

LEMMA PicturesStay ==
    ASSUME DrawnWhole, UNCHANGED <<screen, changes>>,
           \A f \in OfKind("flush") \intersect Accepted :
               f \in OfKind("flush")' \intersect Accepted'
               /\ Picture(f)' = Picture(f),
           \A c \in Accepted : /\ PictureOf(c) \subseteq PictureOf(c)'
                               /\ IsFiniteSet(PictureOf(c)')
    PROVE  DrawnWhole'
<1>1. SUFFICES ASSUME NEW i \in DOMAIN screen
               PROVE  WholeOrTorn(CommandsOf(screen[i]))'
  BY DEF DrawnWhole
<1>2. PICK D : D = CommandsOf(screen[i])
  OBVIOUS
<1>3. WholeOrTorn(D)
  BY <1>1, <1>2 DEF DrawnWhole
<1>4. WholeOrTorn(D)'
  BY <1>3, DrawnStays
<1>5. CommandsOf(screen[i])' = D
  BY <1>2 DEF CommandsOf
<1> QED BY <1>4, <1>5 DEF WholeOrTorn

LEMMA OrderStays ==
    ASSUME InOrder, UNCHANGED <<screen, quads, cleared>>,
           OfKind("rectangle")' \intersect Handled'
               = OfKind("rectangle") \intersect Handled
    PROVE  InOrder'
<1>1. OnScreen' = OnScreen /\ CommandsOf(quads)' = CommandsOf(quads)
  BY DEF OnScreen, CommandsOf
<1>2. \A i, j \in DOMAIN screen' : i < j =>
         \A p \in screen'[i], q \in screen'[j] : p.command < q.command
  BY DEF InOrder
<1>3. \A c \in OnScreen' : \A q \in quads' : c < q.command
  BY <1>1 DEF InOrder
<1>4. \A c \in OnScreen' \union CommandsOf(quads)' :
         \A d \in OfKind("rectangle")' \intersect Handled' :
             c < d => d \in OnScreen' \union CommandsOf(quads)'
  BY <1>1 DEF InOrder
<1>5. OfKind("rectangle")' \intersect Handled'
         \subseteq OnScreen' \union CommandsOf(quads)' \union cleared'
  BY <1>1 DEF InOrder
<1> QED BY <1>2, <1>3, <1>4, <1>5 DEF InOrder

LEMMA PictureFinite ==
    ASSUME QueueInv, FramesInv
    PROVE  \A c : PictureOf(c) \subseteq 1 .. attempts
                  /\ IsFiniteSet(PictureOf(c))
<1>1. attempts \in Nat /\ DOMAIN commands = 1 .. attempts
  BY InvFacts
<1>2. \A c : PictureOf(c) \subseteq 1 .. attempts
  BY <1>1 DEF PictureOf, OfKind
<1>3. IsFiniteSet(1 .. attempts)
  BY <1>1, FS_Interval
<1> QED BY <1>2, <1>3, FS_Subset

(* Steps that send, handle and draw nothing.                               *)
LEMMA PictureUnchanged ==
    ASSUME QueueInv, FramesInv,
           UNCHANGED <<commands, sent, handled, resolution, changes, quads,
                       screen, cleared>>
    PROVE  RenderFollows' /\ QuadsScaled' /\ WholePictures'
<1>1. /\ \A k : OfKind(k)' = OfKind(k)
      /\ Accepted' = Accepted /\ Handled' = Handled
      /\ OnScreen' = OnScreen /\ CommandsOf(quads)' = CommandsOf(quads)
      /\ Waiting' = Waiting /\ (Torn(Waiting) => Torn(Waiting)')
  BY SameScreen
<1>2. RenderFollows'
  BY <1>1 DEF FramesInv, RenderFollows, WaitingQuads
<1>3. QuadsScaled'
  BY <1>1 DEF FramesInv, QuadsScaled, Announces
<1>4. WholePictures'
  <2>1. \A c : Picture(c)' = Picture(c) /\ PictureOf(c)' = PictureOf(c)
    BY <1>1 DEF Picture, PictureOf
  <2>2. \A c : IsFiniteSet(PictureOf(c)')
    BY <2>1, PictureFinite
  <2>3. DrawnWhole'
    BY <1>1, <2>1, <2>2, PicturesStay DEF FramesInv, WholePictures
  <2> QED BY <1>1, <2>3, OrderStays DEF FramesInv, WholePictures
<1> QED BY <1>2, <1>3, <1>4

LEMMA CommandsUnchanged ==
    ASSUME FramesInv, UNCHANGED <<commands, sent, attempts>>,
           \/ UNCHANGED <<wpc, wmsg>>
           \/ UNCHANGED wmsg /\ wpc' \in {"idle", "signal"}
           \/ UNCHANGED wmsg /\ wpc \notin {"idle", "signal"}
    PROVE  IdsRise'
  BY DEF FramesInv, IdsRise

LEMMA LoopKeeps ==
    ASSUME QueueInv, FramesInv, MainLoop
    PROVE  FramesInv'
<1>1. UNCHANGED <<vars, commands, input, frame, handled, resolution, changes,
                  quads, screen, cleared>>
  BY DEF MainLoop, StartRound, Resize, StartFrame, Swap, layoutVars, renderVars
<1>2. UNCHANGED <<sent, taken, attempts, wpc, wmsg, rpc, failures>>
  BY <1>1 DEF vars
<1>3. /\ pc \in {"loop", "poll", "swap"} /\ pc' \in {"loop", "poll", "layout"}
      /\ window' \in Nat \ {0} /\ arena' \in Nat
  <2>1. window \in Nat \ {0} /\ arena \in Nat
    BY DEF FramesInv, FrameTypes
  <2>2. CASE StartRound
    BY <2>1, <2>2 DEF StartRound, windowVars
  <2>3. CASE Resize
    BY <2>1, <2>3, FramesAssumption DEF Resize
  <2>4. CASE StartFrame \/ Swap
    BY <2>1, <2>4 DEF StartFrame, Swap, windowVars
  <2> QED BY <2>2, <2>3, <2>4 DEF MainLoop
<1>4. FrameTypes'
  BY <1>1, <1>3 DEF FramesInv, FrameTypes
<1>5. Turns' /\ LeftForLater' /\ HandledEarlier'
  BY <1>1, <1>2, <1>3
  DEF FramesInv, Turns, LeftForLater, Stopped, HandledEarlier
<1>6. IdsRise' /\ RenderFollows' /\ QuadsScaled' /\ WholePictures'
  BY <1>1, <1>2, PictureUnchanged, CommandsUnchanged
<1>7. BoundsAnnounced' /\ FlushEndsFrame' /\ FramesRise'
  <2>1. \A k : OfKind(k)' = OfKind(k)
    BY <1>1 DEF OfKind
  <2>2. BoundsAnnounced'
    <3>1. \A c, d : Announces(d, c)' = Announces(d, c)
      BY <2>1 DEF Announces
    <3> QED BY <1>1, <1>3, <2>1, <3>1 DEF FramesInv, BoundsAnnounced
  <2>3. FlushEndsFrame'
    BY <1>1, <1>3, <2>1 DEF FramesInv, FlushEndsFrame
  <2>4. FramesRise'
    BY <1>1, <1>2, <1>3 DEF FramesInv, FramesRise, Turns
  <2> QED BY <2>2, <2>3, <2>4
<1>8. FrameByFrame'
  <2>1. \A c : Lost(c)' = Lost(c)
    BY <1>2 DEF Lost, Accepted
  <2>2. FrameByFrame
    BY DEF FramesInv
  <2> QED BY <1>1, <1>2, <1>3, <2>1, <2>2 DEF FrameByFrame
<1> QED BY <1>4, <1>5, <1>6, <1>7, <1>8 DEF FramesInv

LEMMA QuadsHandled ==
    ASSUME QueueInv, FramesInv
    PROVE  /\ \A q \in quads : q.command \in OfKind("rectangle")
                               /\ q.command \in Handled
           /\ Handled \subseteq Accepted /\ Accepted \subseteq 1 .. attempts
           /\ \A k : OfKind(k) \subseteq 1 .. attempts
<1>1. \A q \in quads : q.command \in CommandsOf(quads)
  BY DEF CommandsOf
<1>2. \A q \in quads : q.command \in OfKind("rectangle")
                       /\ q.command \in Handled
  BY <1>1 DEF FramesInv, RenderFollows, WaitingQuads, Waiting
<1>3. \A i \in 1 .. handled : i \in 1 .. Len(sent)
  BY InvFacts
<1>4. Handled \subseteq Accepted /\ Accepted \subseteq 1 .. attempts
  BY <1>3, InvFacts DEF Handled, Accepted
<1>5. \A k : OfKind(k) \subseteq 1 .. attempts
  BY InvFacts DEF OfKind
<1> QED BY <1>2, <1>4, <1>5

(* A new command changes nothing of what was sent and drawn.               *)
LEMMA JoinKeeps ==
    ASSUME QueueInv, FramesInv, NEW kind \in Kinds, NEW n \in Nat,
           NEW bounds \in Nat, Post(kind, n, bounds),
           UNCHANGED <<handled, resolution, changes, quads, screen, cleared>>
    PROVE  IdsRise' /\ RenderFollows' /\ QuadsScaled' /\ WholePictures'
<1>1. /\ attempts \in Nat /\ attempts' = attempts + 1
      /\ Len(commands') = attempts + 1
      /\ \A c \in 1 .. attempts : commands'[c] = commands[c]
      /\ wpc' = "map" /\ wmsg'.id = attempts + 1
      /\ sent' = sent /\ Len(sent) \in Nat
      /\ \A i \in 1 .. Len(sent) : sent[i].id \in 1 .. attempts
      /\ DOMAIN commands' = 1 .. attempts + 1
  BY InvFacts, CommandJoins
<1>2. ASSUME NEW k, NEW c \in 1 .. attempts
      PROVE  c \in OfKind(k)' <=> c \in OfKind(k)
  <2>1. c # attempts + 1
    BY <1>1
  <2>2. OfKind(k)' = IF k = kind THEN OfKind(k) \union {attempts + 1}
                     ELSE OfKind(k)
    BY KindsJoin
  <2> QED BY <2>1, <2>2
<1>3. /\ Accepted' = Accepted /\ Handled' = Handled
      /\ Accepted \subseteq 1 .. attempts /\ Handled \subseteq 1 .. attempts
  BY <1>1, QuadsHandled DEF Accepted, Handled
<1>4. \A k : /\ OfKind(k)' \intersect Accepted' = OfKind(k) \intersect Accepted
             /\ OfKind(k)' \intersect Handled' = OfKind(k) \intersect Handled
  BY <1>2, <1>3
<1>5. IdsRise'
  <2>1. \A i \in 1 .. Len(sent) : sent[i].id < attempts + 1
    BY <1>1
  <2> QED BY <1>1, <2>1 DEF FramesInv, IdsRise
<1>6. RenderFollows'
  <2>1. \A i \in 1 .. handled : sent[i].id \in 1 .. attempts
    BY <1>1, InvFacts
  <2>2. \A i \in 1 .. handled :
           /\ sent[i].id \in OfKind("resolution")
           /\ \A j \in i + 1 .. handled : sent[j].id \notin OfKind("resolution")
           => resolution = commands[sent[i].id].bounds
    BY DEF FramesInv, RenderFollows, WaitingQuads
  <2>3. \A i \in 1 .. handled : \A j \in i + 1 .. handled : j \in 1 .. handled
    OBVIOUS
  <2>4. \A i \in 1 .. handled :
           /\ sent[i].id \in OfKind("resolution")'
           /\ \A j \in i + 1 .. handled :
                 sent[j].id \notin OfKind("resolution")'
           => resolution = commands'[sent[i].id].bounds
    BY <1>1, <1>2, <2>1, <2>2, <2>3
  <2>5. OnScreen' = OnScreen /\ CommandsOf(quads)' = CommandsOf(quads)
    BY DEF OnScreen, CommandsOf
  <2>6. Waiting' = Waiting
    BY <1>4 DEF Waiting
  <2>7. Torn(Waiting) => Torn(Waiting)'
    BY <2>6 DEF Torn
  <2> QED BY <1>1, <1>3, <2>4, <2>5, <2>6, <2>7
      DEF FramesInv, RenderFollows, WaitingQuads
<1>7. QuadsScaled'
  <2>1. SUFFICES ASSUME NEW q \in quads, NEW d \in 1 .. attempts + 1,
                        Announces(d, q.command)'
                 PROVE  q.scale = commands'[q.command].bounds
                        \/ d \notin Accepted
    BY <1>1, <1>3 DEF QuadsScaled
  <2>2. q.command \in 1 .. attempts
    BY QuadsHandled
  <2>3. d \in 1 .. attempts
    BY <1>1, <2>1, <2>2 DEF Announces
  <2>4. Announces(d, q.command)
    BY <1>2, <2>1, <2>3, QuadsHandled DEF Announces
  <2> QED BY <1>1, <2>2, <2>3, <2>4, InvFacts DEF FramesInv, QuadsScaled
<1>8. WholePictures'
  <2>1. \A c : Picture(c)' = Picture(c) /\ PictureOf(c)' = PictureOf(c)
    BY <1>4 DEF Picture, PictureOf
  <2>2. \A c : IsFiniteSet(PictureOf(c)')
    BY <2>1, PictureFinite
  <2>3. DrawnWhole'
    BY <1>4, <2>1, <2>2, PicturesStay DEF FramesInv, WholePictures
  <2> QED BY <1>4, <2>3, OrderStays DEF FramesInv, WholePictures
<1> QED BY <1>5, <1>6, <1>7, <1>8
(* N is the number of the commands so far. *)
LEMMA AnnouncesStays ==
    ASSUME QueueInv, FramesInv, NEW kind \in Kinds, NEW n \in Nat,
           NEW bounds \in Nat, Post(kind, n, bounds),
           NEW N \in Nat, N = attempts
    PROVE  /\ \A c \in 1 .. N : \A d : Announces(d, c) => Announces(d, c)'
           /\ \A d : Announces(d, N + 1) => Announces(d, N + 1)'
           /\ kind # "resolution" =>
                \A d : Announces(d, N + 1) => Announces(d, N + 2)'
           /\ kind = "resolution" => Announces(N + 1, N + 2)'
<1>1. /\ OfKind("resolution") \subseteq 1 .. N
      /\ OfKind("resolution")' = IF kind = "resolution"
                                 THEN OfKind("resolution") \union {N + 1}
                                 ELSE OfKind("resolution")
  BY InvFacts, KindsJoin, QuadsHandled
<1>2. \A o \in OfKind("resolution")' :
          o \in OfKind("resolution") \/ o = N + 1
  BY <1>1
<1>3. ASSUME NEW c \in 1 .. N + 1, NEW d, Announces(d, c)
      PROVE  Announces(d, c)'
  <2>1. ~(N + 1 < c)
    OBVIOUS
  <2>2. d \in OfKind("resolution")'
    BY <1>1, <1>3 DEF Announces
  <2> QED BY <1>2, <1>3, <2>1, <2>2 DEF Announces
<1>4. ASSUME kind # "resolution", NEW d, Announces(d, N + 1)
      PROVE  Announces(d, N + 2)'
  <2>1. OfKind("resolution")' = OfKind("resolution")
    BY <1>1, <1>4
  <2>2. \A o \in OfKind("resolution") : o \in 1 .. N
    BY <1>1
  <2>3. \A o \in 1 .. N : o < N + 1 /\ o < N + 2
    OBVIOUS
  <2>4. /\ d \in OfKind("resolution")
        /\ \A o \in OfKind("resolution") : o < N + 1 => o <= d
    BY <1>4 DEF Announces
  <2>5. /\ d \in OfKind("resolution") /\ d < N + 2
        /\ \A o \in OfKind("resolution") : o <= d
    BY <2>2, <2>3, <2>4
  <2> QED BY <2>1, <2>5 DEF Announces
<1>5. ASSUME kind = "resolution" PROVE Announces(N + 1, N + 2)'
  <2>1. N + 1 \in OfKind("resolution")' /\ N + 1 < N + 2
    BY <1>1, <1>5
  <2>2. \A o \in 1 .. N : o <= N + 1
    OBVIOUS
  <2>3. \A o \in OfKind("resolution")' : o <= N + 1
    BY <1>1, <1>2, <2>2
  <2> QED BY <2>1, <2>3 DEF Announces
<1>6. 1 .. N \subseteq 1 .. N + 1 /\ N + 1 \in 1 .. N + 1
  OBVIOUS
<1> QED BY <1>3, <1>4, <1>5, <1>6

(* What is refused stays refused.                                          *)
LEMMA LostStays ==
    ASSUME QueueInv, FramesInv, Accepted' = Accepted,
           attempts' = attempts + 1, wpc = "idle", wpc' = "map",
           DOMAIN commands' = 1 .. attempts + 1,
           \A c \in DOMAIN commands' : ~Lost(c)'
    PROVE  \A c \in DOMAIN commands : ~Lost(c)
<1>1. attempts \in Nat /\ DOMAIN commands = 1 .. attempts
  BY InvFacts
<1>2. ASSUME NEW c \in 1 .. attempts PROVE ~Lost(c)
  <2>1. c \in 1 .. attempts + 1 /\ c # attempts + 1
    BY <1>1
  <2>2. ~Lost(c)'
    BY <2>1
  <2> QED BY <2>1, <2>2 DEF Lost
<1> QED BY <1>1, <1>2

LEMMA BeginLayoutKeeps ==
    ASSUME QueueInv, FramesInv, BeginLayout
    PROVE  FramesInv'
<1>1. /\ pc = "layout" /\ pc' = "background"
      /\ input' = window /\ frame' = frame + 1
      /\ UNCHANGED <<window, arena, handled, resolution, changes, quads,
                     screen, cleared>>
  BY DEF BeginLayout, windowVars, renderVars
<1>2. /\ frame \in Nat /\ window \in Nat \ {0}
      /\ wpc = "idle" /\ rpc = "idle" /\ handled = Len(taken)
      /\ \A c \in DOMAIN commands : commands[c].frame \in Nat
      /\ \A c \in DOMAIN commands : commands[c].frame <= frame
  <2>1. /\ frame \in Nat /\ window \in Nat \ {0}
        /\ wpc = "idle" /\ rpc = "idle" /\ handled = Len(taken)
        /\ \A c \in DOMAIN commands : commands[c].frame <= frame
    BY <1>1 DEF FramesInv, FrameTypes, Turns, FlushEndsFrame
  <2>2. \A c \in DOMAIN commands : commands[c] \in Command
    BY InvFacts
  <2> QED BY <2>1, <2>2 DEF Command
<1>3. CASE input # window
  <2>1. Post("resolution", frame + 1, window)
    BY <1>1, <1>3 DEF BeginLayout
  <2>. PICK N \in Nat : N = attempts
    BY InvFacts
  <2>. DEFINE new == N + 1
  <2>2. /\ attempts \in Nat /\ commands' \in Seq(Command)
        /\ DOMAIN commands = 1 .. N
        /\ Len(commands') = new /\ DOMAIN commands' = 1 .. new
        /\ \A c \in 1 .. N : commands'[c] = commands[c]
        /\ commands'[new] =
              [kind |-> "resolution", frame |-> frame + 1, bounds |-> window]
        /\ attempts' = new /\ wpc' = "map"
        /\ UNCHANGED <<rpc, taken, sent, failures>>
    BY <1>2, <2>1, InvFacts, CommandJoins DEF Kinds
  <2>3. \A k : OfKind(k)' = IF k = "resolution" THEN OfKind(k) \union {new}
                            ELSE OfKind(k)
    <3>1. ASSUME NEW k
          PROVE  OfKind(k)' = IF k = "resolution"
                              THEN OfKind(k) \union {attempts + 1}
                              ELSE OfKind(k)
      BY <1>2, <2>1, KindsJoin DEF Kinds
    <3> QED BY <3>1
  <2>4. FrameTypes'
    BY <1>1, <1>2, <2>2 DEF FramesInv, FrameTypes
  <2>5. Turns' /\ LeftForLater'
    BY <1>1, <1>2, <2>2 DEF Turns, LeftForLater, Stopped
  <2>6. IdsRise' /\ RenderFollows' /\ QuadsScaled' /\ WholePictures'
    BY <1>1, <1>2, <2>1, JoinKeeps DEF Kinds
  <2>7. BoundsAnnounced'
    <3>1. /\ \A c \in 1 .. N : \A d : Announces(d, c) => Announces(d, c)'
          /\ Announces(new, new + 1)'
      <4>1. new + 1 = N + 2
        OBVIOUS
      <4> QED BY <1>2, <2>1, <4>1, AnnouncesStays DEF Kinds
    <3>2. \A c \in OfKind("rectangle")' :
             \E d \in DOMAIN commands' :
                Announces(d, c)' /\ commands'[d].bounds = commands'[c].bounds
      <4>1. SUFFICES ASSUME NEW c \in OfKind("rectangle")
                     PROVE  \E d \in DOMAIN commands' :
                               /\ Announces(d, c)'
                               /\ commands'[d].bounds = commands'[c].bounds
        BY <2>3
      <4>2. PICK d \in DOMAIN commands :
                Announces(d, c) /\ commands[d].bounds = commands[c].bounds
        BY DEF FramesInv, BoundsAnnounced
      <4>3. c \in 1 .. N /\ d \in 1 .. N /\ d \in 1 .. new
        BY <2>2, QuadsHandled
      <4> QED BY <2>2, <3>1, <4>2, <4>3
    <3>3. \E d \in DOMAIN commands' :
             Announces(d, Len(commands) + 1)' /\ commands'[d].bounds = input'
      <4>1. new \in DOMAIN commands'
        BY <2>2
      <4>2. commands'[new].bounds = input'
        BY <1>1, <2>2
      <4>3. Announces(new, Len(commands) + 1)'
        BY <2>2, <3>1
      <4> QED BY <4>1, <4>2, <4>3
    <3>4. input' # 0
      BY <1>1, <1>2
    <3> QED BY <3>2, <3>3, <3>4 DEF BoundsAnnounced
  <2>8. FlushEndsFrame'
    <3>1. \A c \in 1 .. new : c \in 1 .. N \/ c = new
      BY <2>2
    <3>2. OfKind("flush")' = OfKind("flush")
          /\ OfKind("flush") \subseteq 1 .. N
      BY <2>3, QuadsHandled
    <3>3. \A c \in DOMAIN commands' : commands'[c].frame <= frame'
      BY <1>1, <1>2, <2>2, <3>1
    <3>4. \A c \in OfKind("flush")' : commands'[c].frame < frame'
      BY <1>1, <1>2, <2>2, <3>2
    <3>5. ASSUME NEW c \in OfKind("flush")', NEW d \in DOMAIN commands', c < d
          PROVE  commands'[c].frame < commands'[d].frame
      <4>1. CASE d = new
        BY <1>1, <2>2, <3>4, <4>1
      <4>2. CASE d \in 1 .. N
        BY <2>2, <3>2, <3>5, <4>2 DEF FramesInv, FlushEndsFrame
      <4> QED BY <2>2, <3>1, <4>1, <4>2
    <3>6. ASSUME NEW c \in DOMAIN commands'
          PROVE  \/ pc' = "background" /\ commands'[c].frame = frame'
                 \/ \E f \in OfKind("flush")' :
                       c <= f /\ commands'[f].frame = commands'[c].frame
      <4>1. CASE c = new
        BY <1>1, <2>2, <4>1
      <4>2. CASE c \in 1 .. N
        <5>1. PICK f \in OfKind("flush") :
                  c <= f /\ commands[f].frame = commands[c].frame
          BY <1>1, <2>2, <4>2 DEF FramesInv, FlushEndsFrame
        <5> QED BY <2>2, <3>2, <4>2, <5>1
      <4> QED BY <2>2, <3>1, <4>1, <4>2
    <3> QED BY <1>1, <3>3, <3>4, <3>5, <3>6 DEF FlushEndsFrame
  <2>9. HandledEarlier'
    <3>1. \A i \in 1 .. handled : sent[i].id \in 1 .. N
      BY InvFacts
    <3> QED BY <1>1, <1>2, <2>2, <3>1 DEF HandledEarlier
  <2>10. FrameByFrame'
    <3>1. Accepted' = Accepted
      BY <2>2 DEF Accepted
    <3>2. ASSUME failures = 0, \A c \in DOMAIN commands' : ~Lost(c)'
          PROVE  handled = Len(sent)
      BY <1>1, <1>2, <2>2, <3>1, <3>2, LostStays DEF FramesInv, FrameByFrame
    <3> QED BY <1>1, <2>2, <3>2, InvFacts DEF FrameByFrame
  <2>11. FramesRise'
    <3>1. \A c \in 1 .. N : commands'[c].frame <= frame + 1
      BY <1>2, <2>2
    <3>2. \A c, d \in 1 .. new : c < d => c \in 1 .. N
      OBVIOUS
    <3>3. \A d \in 1 .. new : d \in 1 .. N \/ d = new
      OBVIOUS
    <3>4. ASSUME NEW c \in DOMAIN commands', NEW d \in DOMAIN commands', c < d
          PROVE  commands'[c].frame <= commands'[d].frame
      <4>1. c \in 1 .. N
        BY <2>2, <3>2, <3>4
      <4>2. CASE d = new
        BY <2>2, <3>1, <4>1, <4>2
      <4>3. CASE d \in 1 .. N
        BY <2>2, <3>4, <4>1, <4>3 DEF FramesInv, FramesRise
      <4> QED BY <2>2, <3>3, <4>2, <4>3
    <3> QED BY <1>1, <2>2, <3>4 DEF FramesRise
  <2> QED BY <2>4, <2>5, <2>6, <2>7, <2>8, <2>9, <2>10, <2>11 DEF FramesInv
<1>4. CASE input = window
  <2>1. UNCHANGED <<vars, commands, input>>
    BY <1>1, <1>4 DEF BeginLayout
  <2>2. UNCHANGED <<sent, taken, attempts, wpc, wmsg, rpc, failures>>
    BY <2>1 DEF vars
  <2>3. FrameTypes' /\ Turns' /\ LeftForLater'
    BY <1>1, <1>2, <2>1, <2>2
    DEF FramesInv, FrameTypes, Turns, LeftForLater, Stopped
  <2>4. IdsRise' /\ RenderFollows' /\ QuadsScaled' /\ WholePictures'
    BY <1>1, <2>1, <2>2, PictureUnchanged, CommandsUnchanged
  <2>5. \A k : OfKind(k)' = OfKind(k)
    BY <2>1 DEF OfKind
  <2>6. BoundsAnnounced'
    <3>1. \A c, d : Announces(d, c)' = Announces(d, c)
      BY <2>5 DEF Announces
    <3> QED BY <1>1, <1>2, <1>4, <2>1, <2>5, <3>1
        DEF FramesInv, BoundsAnnounced
  <2>7. FlushEndsFrame'
    <3>1. \A c \in DOMAIN commands : commands[c].frame < frame + 1
      BY <1>2
    <3>2. \A c \in OfKind("flush") : c \in DOMAIN commands
      BY DEF OfKind
    <3> QED BY <1>1, <1>2, <2>1, <2>5, <3>1, <3>2
        DEF FramesInv, FlushEndsFrame
  <2>8. HandledEarlier'
    <3>1. \A i \in 1 .. handled : sent[i].id \in DOMAIN commands
      BY InvFacts
    <3> QED BY <1>1, <1>2, <2>1, <2>2, <3>1 DEF HandledEarlier
  <2>9. FrameByFrame'
    <3>1. \A c : Lost(c)' = Lost(c)
      BY <2>1, <2>2 DEF Lost, Accepted
    <3>2. ASSUME failures = 0, \A c \in DOMAIN commands : ~Lost(c)
          PROVE  handled = Len(sent)
      BY <1>1, <3>2 DEF FramesInv, FrameByFrame
    <3> QED BY <1>1, <2>1, <2>2, <3>1, <3>2, InvFacts DEF FrameByFrame
  <2>10. FramesRise'
    BY <1>2, <2>1, <2>2 DEF FramesInv, FramesRise
  <2> QED BY <2>3, <2>4, <2>6, <2>7, <2>8, <2>9, <2>10 DEF FramesInv
<1> QED BY <1>3, <1>4

(* A rectangle of the frame, or the flush that ends it, is sent.           *)
LEMMA PostInFrame ==
    ASSUME QueueInv, FramesInv, NEW kind \in {"rectangle", "flush"},
           pc \in {"background", "boxes"}, Post(kind, frame, input),
           pc' = IF kind = "flush" THEN "render" ELSE "boxes",
           UNCHANGED <<window, input, frame, arena, handled, resolution,
                       changes, quads, screen, cleared>>
    PROVE  FramesInv'
<1>1. kind \in Kinds /\ frame \in Nat /\ input \in Nat /\ input # 0
  BY DEF Kinds, FramesInv, FrameTypes, BoundsAnnounced
<1>. PICK N \in Nat : N = attempts
  BY InvFacts
<1>. DEFINE new == N + 1
<1>2. /\ attempts \in Nat /\ commands' \in Seq(Command)
      /\ DOMAIN commands = 1 .. N
      /\ Len(commands') = new /\ DOMAIN commands' = 1 .. new
      /\ \A c \in 1 .. N : commands'[c] = commands[c]
      /\ commands'[new] = [kind |-> kind, frame |-> frame, bounds |-> input]
      /\ attempts' = new /\ wpc = "idle" /\ wpc' = "map" /\ rpc = "idle"
      /\ UNCHANGED <<rpc, taken, sent, failures>>
  BY <1>1, InvFacts, CommandJoins
<1>3. \A k : OfKind(k)' = IF k = kind THEN OfKind(k) \union {new}
                          ELSE OfKind(k)
  <2>1. ASSUME NEW k
        PROVE  OfKind(k)' = IF k = kind THEN OfKind(k) \union {attempts + 1}
                            ELSE OfKind(k)
    BY <1>1, KindsJoin
  <2> QED BY <2>1
<1>4. FrameTypes'
  BY <1>2 DEF FramesInv, FrameTypes
<1>5. Turns' /\ LeftForLater'
  BY <1>2 DEF FramesInv, Turns, LeftForLater, Stopped
<1>6. IdsRise' /\ RenderFollows' /\ QuadsScaled' /\ WholePictures'
  BY <1>1, JoinKeeps
<1>7. BoundsAnnounced'
  <2>1. /\ \A c \in 1 .. N : \A d : Announces(d, c) => Announces(d, c)'
        /\ \A d : Announces(d, N + 1) => Announces(d, N + 1)'
        /\ \A d : Announces(d, N + 1) => Announces(d, N + 2)'
    BY <1>1, AnnouncesStays
  <2>2. PICK e \in DOMAIN commands :
            Announces(e, N + 1) /\ commands[e].bounds = input
    BY <1>1, InvFacts DEF FramesInv, BoundsAnnounced
  <2>3. e \in 1 .. N /\ e \in DOMAIN commands' /\ commands'[e].bounds = input
    BY <1>2, <2>2
  <2>4. \A c \in OfKind("rectangle")' :
           \E d \in DOMAIN commands' :
              Announces(d, c)' /\ commands'[d].bounds = commands'[c].bounds
    <3>1. SUFFICES ASSUME NEW c \in OfKind("rectangle")'
                   PROVE  \E d \in DOMAIN commands' :
                             /\ Announces(d, c)'
                             /\ commands'[d].bounds = commands'[c].bounds
      OBVIOUS
    <3>2. CASE c \in OfKind("rectangle")
      <4>1. PICK d \in DOMAIN commands :
                Announces(d, c) /\ commands[d].bounds = commands[c].bounds
        BY <3>2 DEF FramesInv, BoundsAnnounced
      <4>2. c \in 1 .. N /\ d \in 1 .. N /\ d \in 1 .. new
        BY <1>2, <3>2, <4>1, QuadsHandled
      <4> QED BY <1>2, <2>1, <4>1, <4>2
    <3>3. CASE c = new
      <4>1. Announces(e, c)'
        BY <2>1, <2>2, <3>3
      <4>2. commands'[c].bounds = input
        BY <1>2, <3>3
      <4> QED BY <2>3, <4>1, <4>2
    <3> QED BY <1>3, <3>2, <3>3
  <2>5. \E d \in DOMAIN commands' :
           Announces(d, Len(commands) + 1)' /\ commands'[d].bounds = input'
    <3>1. Announces(e, Len(commands) + 1)'
      <4>1. Len(commands') + 1 = N + 2
        BY <1>2
      <4> QED BY <2>1, <2>2, <4>1
    <3> QED BY <2>3, <3>1
  <2> QED BY <1>1, <2>4, <2>5 DEF BoundsAnnounced
<1>8. FlushEndsFrame'
  <2>1. \A c \in 1 .. new : c \in 1 .. N \/ c = new
    OBVIOUS
  <2>2. OfKind("flush") \subseteq 1 .. N
    BY QuadsHandled, <1>2, InvFacts
  <2>3. \A c \in 1 .. new : commands'[c].frame <= frame
    BY <1>1, <1>2, <2>1 DEF FramesInv, FlushEndsFrame
  <2>4. \A c \in OfKind("flush") : commands'[c].frame < frame
    BY <1>2, <2>2 DEF FramesInv, FlushEndsFrame
  <2>5. ASSUME NEW c \in OfKind("flush")', NEW d \in DOMAIN commands', c < d
        PROVE  commands'[c].frame < commands'[d].frame
    <3>1. c \in OfKind("flush")
      <4>1. c # new
        BY <1>2, <2>5
      <4> QED BY <1>3, <2>5, <4>1
    <3>2. CASE d = new
      BY <1>2, <2>4, <3>1, <3>2
    <3>3. CASE d \in 1 .. N
      BY <1>2, <2>2, <2>5, <3>1, <3>3 DEF FramesInv, FlushEndsFrame
    <3> QED BY <1>2, <2>1, <3>2, <3>3
  <2>6. ASSUME NEW c \in DOMAIN commands'
        PROVE  \/ pc' = "boxes" /\ commands'[c].frame = frame
               \/ \E f \in OfKind("flush")' :
                     c <= f /\ commands'[f].frame = commands'[c].frame
    <3>1. CASE c = new
      <4>1. commands'[c].frame = frame /\ c <= new
        BY <1>2, <3>1
      <4>2. kind = "flush" => new \in OfKind("flush")'
        BY <1>3
      <4> QED BY <3>1, <4>1, <4>2
    <3>2. CASE c \in 1 .. N
      <4>1. \/ commands[c].frame = frame
            \/ \E f \in OfKind("flush") :
                  c <= f /\ commands[f].frame = commands[c].frame
        BY <1>2, <3>2 DEF FramesInv, FlushEndsFrame
      <4>2. CASE commands[c].frame = frame
        <5>1. commands'[c].frame = frame /\ commands'[new].frame = frame
              /\ c <= new
          BY <1>2, <3>2, <4>2
        <5>2. kind = "flush" => new \in OfKind("flush")'
          BY <1>3
        <5> QED BY <5>1, <5>2
      <4>3. ASSUME NEW f \in OfKind("flush"), c <= f,
                   commands[f].frame = commands[c].frame
            PROVE  \E g \in OfKind("flush")' :
                      c <= g /\ commands'[g].frame = commands'[c].frame
        <5>1. f \in OfKind("flush")' /\ f \in 1 .. N
          BY <1>3, <2>2, <4>3
        <5> QED BY <1>2, <3>2, <4>3, <5>1
      <4> QED BY <4>1, <4>2, <4>3
    <3> QED BY <1>2, <2>1, <3>1, <3>2
  <2>7. pc' = "boxes" =>
           \A c \in OfKind("flush")' : commands'[c].frame < frame
    BY <1>3, <2>4
  <2>8. pc' = "render" => Len(commands') \in OfKind("flush")'
                          /\ commands'[Len(commands')].frame = frame
    BY <1>2, <1>3
  <2>9. pc' \in {"boxes", "render"}
    OBVIOUS
  <2>10. \A c \in DOMAIN commands' : commands'[c].frame <= frame'
    BY <1>2, <2>3
  <2> QED BY <2>5, <2>6, <2>7, <2>8, <2>9, <2>10 DEF FlushEndsFrame
<1>9. HandledEarlier'
  <2>1. \A i \in 1 .. handled : sent[i].id \in 1 .. N
    BY InvFacts
  <2> QED BY <1>2, <2>1 DEF FramesInv, HandledEarlier
<1>10. FrameByFrame'
  <2>1. Accepted' = Accepted
    BY <1>2 DEF Accepted
  <2>2. ASSUME failures = 0, \A c \in DOMAIN commands' : ~Lost(c)'
        PROVE  \A i \in handled + 1 .. Len(sent) :
                  commands[sent[i].id].frame = frame
    <3>1. \A c \in DOMAIN commands : ~Lost(c)
      BY <1>2, <2>1, <2>2, LostStays
    <3> QED BY <2>2, <3>1 DEF FramesInv, FrameByFrame
  <2>3. \A i \in handled + 1 .. Len(sent) : sent[i].id \in 1 .. N
    BY InvFacts
  <2>4. ASSUME failures = 0, \A c \in DOMAIN commands' : ~Lost(c)'
        PROVE  \A i \in handled + 1 .. Len(sent) :
                  commands'[sent[i].id].frame = frame
    BY <1>2, <2>2, <2>3, <2>4
  <2>5. pc' \notin {"loop", "poll", "layout", "read", "reading", "swap"}
    OBVIOUS
  <2> QED BY <1>2, <2>4, <2>5 DEF FrameByFrame
<1>11. FramesRise'
  <2>1. \A c \in 1 .. N : commands'[c].frame <= frame
    BY <1>2 DEF FramesInv, FlushEndsFrame
  <2>2. \A c, d \in 1 .. new : c < d => c \in 1 .. N
    OBVIOUS
  <2>3. \A d \in 1 .. new : d \in 1 .. N \/ d = new
    OBVIOUS
  <2>4. ASSUME NEW c \in DOMAIN commands', NEW d \in DOMAIN commands', c < d
        PROVE  commands'[c].frame <= commands'[d].frame
    <3>1. c \in 1 .. N
      BY <1>2, <2>2, <2>4
    <3>2. CASE d = new
      BY <1>2, <2>1, <3>1, <3>2
    <3>3. CASE d \in 1 .. N
      BY <1>2, <2>4, <3>1, <3>3 DEF FramesInv, FramesRise
    <3> QED BY <1>2, <2>3, <3>2, <3>3
  <2> QED BY <1>2, <2>4 DEF FramesRise
<1> QED BY <1>4, <1>5, <1>6, <1>7, <1>8, <1>9, <1>10, <1>11 DEF FramesInv

LEMMA LayoutFrameKeeps ==
    ASSUME QueueInv, FramesInv, SendBackground \/ SendBox \/ EndLayout
    PROVE  FramesInv'
<1>1. CASE SendBackground
  <2>1. Post("rectangle", frame, input)
    BY <1>1 DEF SendBackground
  <2>2. /\ pc \in {"background", "boxes"} /\ pc' = "boxes"
        /\ UNCHANGED <<window, input, frame, arena, handled, resolution,
                       changes, quads, screen, cleared>>
    BY <1>1 DEF SendBackground, windowVars, renderVars
  <2> QED BY <2>1, <2>2, PostInFrame
<1>2. CASE SendBox
  <2>1. Post("rectangle", frame, input)
    BY <1>2 DEF SendBox
  <2>2. /\ pc \in {"background", "boxes"} /\ pc' = "boxes"
        /\ UNCHANGED <<window, input, frame, arena, handled, resolution,
                       changes, quads, screen, cleared>>
    BY <1>2 DEF SendBox, windowVars, renderVars
  <2> QED BY <2>1, <2>2, PostInFrame
<1>3. CASE EndLayout
  <2>1. Post("flush", frame, input)
    BY <1>3 DEF EndLayout
  <2>2. /\ pc \in {"background", "boxes"} /\ pc' = "render"
        /\ UNCHANGED <<window, input, frame, arena, handled, resolution,
                       changes, quads, screen, cleared>>
    BY <1>3 DEF EndLayout, windowVars, renderVars
  <2> QED BY <2>1, <2>2, PostInFrame
<1> QED BY <1>1, <1>2, <1>3

(* Between its call and its return th_message_send reads nothing and       *)
(* changes nothing that the frame keeps.                                   *)
LEMMA SendFacts ==
    ASSUME QueueInv, FramesInv, SendStep
    PROVE  /\ wpc # "idle" /\ rpc = "idle"
           /\ pc \in {"background", "boxes", "render"}
           /\ UNCHANGED <<taken, rpc, wmsg, attempts, commands, frameVars>>
           /\ failures' \in Nat /\ (failures' = 0 => failures = 0)
           /\ \/ wpc = "produce" /\ wpc' = "signal"
                 /\ sent' = Append(sent, wmsg)
              \/ UNCHANGED sent /\ (wpc = "signal" => wpc' = "idle")
                 /\ wpc \notin {"idle", "produce"} /\ wpc' # "signal"
<1>1. WriterStep /\ UNCHANGED frameVars /\ failures \in Nat
  BY DEF SendStep, QueueInv, TypeOK
<1>2. /\ wpc # "idle"
      /\ UNCHANGED <<taken, rpc, wmsg, attempts>>
      /\ failures' = failures \/ failures' = failures + 1
      /\ \/ wpc = "produce" /\ wpc' = "signal"
            /\ sent' = Append(sent, wmsg)
         \/ UNCHANGED sent /\ (wpc = "signal" => wpc' = "idle")
            /\ wpc \notin {"idle", "produce"} /\ wpc' # "signal"
  BY <1>1
  DEF WriterStep, WriterEnsure, WriterInstall, CheckRoom, WriteHeader,
      WritePayload, ProduceMessage, SignalMessage, WriterGoto, readerVars,
      EnvironmentFails, history
<1>3. rpc = "idle"
  BY <1>2, FramesAssumption DEF QueueInv, Mapped
<1>4. pc \in {"background", "boxes", "render"}
  BY <1>2 DEF FramesInv, FrameTypes, Turns
<1>5. UNCHANGED commands
  BY <1>1 DEF frameVars, layoutVars
<1> QED BY <1>1, <1>2, <1>3, <1>4, <1>5

LEMMA SendStepKeeps ==
    ASSUME QueueInv, FramesInv, SendStep
    PROVE  FramesInv'
<1>1. /\ wpc # "idle" /\ rpc = "idle" /\ rpc' = "idle"
      /\ pc \in {"background", "boxes", "render"}
      /\ UNCHANGED <<taken, rpc, wmsg, attempts, commands>>
      /\ UNCHANGED <<pc, window, input, commands, frame, arena, handled,
                     resolution, changes, quads, screen, cleared>>
      /\ failures' = 0 => failures = 0
  <2>1. UNCHANGED frameVars
    BY SendFacts
  <2> QED BY <2>1, SendFacts DEF frameVars, windowVars, layoutVars, renderVars
<1>2. FrameTypes' /\ Turns' /\ LeftForLater'
  BY <1>1 DEF FramesInv, FrameTypes, Turns, LeftForLater, Stopped
<1>3. \A k : OfKind(k)' = OfKind(k)
  BY <1>1 DEF OfKind
<1>4. BoundsAnnounced' /\ FlushEndsFrame' /\ FramesRise'
  <2>1. \A c, d : Announces(d, c)' = Announces(d, c)
    BY <1>3 DEF Announces
  <2>2. BoundsAnnounced'
    BY <1>1, <1>3, <2>1 DEF FramesInv, BoundsAnnounced
  <2>3. FlushEndsFrame'
    BY <1>1, <1>3 DEF FramesInv, FlushEndsFrame
  <2>4. FramesRise'
    BY <1>1 DEF FramesInv, FramesRise
  <2> QED BY <2>2, <2>3, <2>4
<1>5. CASE wpc = "produce" /\ wpc' = "signal" /\ sent' = Append(sent, wmsg)
  <2>1. /\ Len(sent) \in Nat /\ Len(commands) = attempts /\ attempts \in Nat
        /\ handled <= Len(sent) /\ handled \in Nat
        /\ \A i \in 1 .. Len(sent) : sent[i].id \in 1 .. attempts
        /\ DOMAIN sent = 1 .. Len(sent) /\ DOMAIN commands = 1 .. attempts
    BY InvFacts
  <2>2. /\ wmsg.id = attempts
        /\ \A i \in 1 .. Len(sent) : sent[i].id < attempts
        /\ \A i, j \in 1 .. Len(sent) : i < j => sent[i].id < sent[j].id
    BY <1>5 DEF FramesInv, IdsRise
  <2>. DEFINE n == Len(sent) + 1
  <2>3. wmsg \in Message /\ sent \in Seq(Message)
    BY <1>1 DEF QueueInv, WriterKnows, TypeOK
  <2>4. /\ Len(sent') = n /\ DOMAIN sent' = 1 .. n
        /\ \A i \in 1 .. Len(sent) : sent'[i] = sent[i]
        /\ sent'[n].id = attempts
    BY <1>5, <2>1, <2>2, <2>3
  <2>5. \A i \in 1 .. n : i \in 1 .. Len(sent) \/ i = n
    BY <2>1
  <2>6. Accepted' = Accepted \union {attempts}
    <3>1. \A x : (\E i \in 1 .. n : x = sent'[i].id)
                 <=> (\E i \in 1 .. Len(sent) : x = sent[i].id) \/ x = attempts
      <4>1. n \in 1 .. n /\ \A i \in 1 .. Len(sent) : i \in 1 .. n
        BY <2>1
      <4> QED BY <2>4, <2>5, <4>1
    <3>2. Accepted = {sent[i].id : i \in 1 .. Len(sent)}
      BY <2>1 DEF Accepted
    <3>3. Accepted' = {sent'[i].id : i \in 1 .. n}
      BY <2>4 DEF Accepted
    <3>. HIDE DEF n
    <3> QED BY <3>1, <3>2, <3>3
  <2>7. \A a \in Accepted : a \in 1 .. attempts /\ a < attempts
    BY <2>1, <2>2 DEF Accepted
  <2>8. \A i \in 1 .. handled : i \in 1 .. Len(sent) /\ sent'[i] = sent[i]
    BY <2>1, <2>4
  <2>9. Handled' = Handled
    BY <1>1, <2>8 DEF Handled
  <2>10. IdsRise'
    <3>1. \A i \in 1 .. n : sent'[i].id <= attempts
      BY <2>1, <2>4, <2>5
    <3>2. ASSUME NEW i \in 1 .. n, NEW j \in 1 .. n, i < j
          PROVE  sent'[i].id < sent'[j].id
      <4>1. i \in 1 .. Len(sent)
        BY <2>1, <3>2
      <4>2. CASE j = n
        BY <2>2, <2>4, <4>1, <4>2
      <4>3. CASE j \in 1 .. Len(sent)
        BY <2>2, <2>4, <3>2, <4>1, <4>3
      <4> QED BY <2>5, <4>2, <4>3
    <3> QED BY <1>1, <1>5, <2>1, <2>4, <3>1, <3>2 DEF IdsRise
  <2>11. RenderFollows'
    <3>1. \A i \in 1 .. handled : \A j \in i + 1 .. handled :
              j \in 1 .. handled
      BY <2>1
    <3>2. \A i \in 1 .. handled :
             /\ sent'[i].id \in OfKind("resolution")
             /\ \A j \in i + 1 .. handled :
                   sent'[j].id \notin OfKind("resolution")
             => resolution = commands[sent'[i].id].bounds
      BY <2>8, <3>1 DEF FramesInv, RenderFollows, WaitingQuads
    <3>3. OnScreen' = OnScreen /\ CommandsOf(quads)' = CommandsOf(quads)
      BY <1>1 DEF OnScreen, CommandsOf
    <3>4. Waiting' = Waiting
      BY <1>3, <2>9 DEF Waiting
    <3>5. Torn(Waiting) => Torn(Waiting)'
      BY <1>1, <3>4 DEF Torn
    <3> QED BY <1>1, <1>3, <2>9, <3>2, <3>3, <3>4, <3>5
        DEF FramesInv, RenderFollows, WaitingQuads
  <2>12. QuadsScaled'
    <3>1. SUFFICES ASSUME NEW q \in quads, NEW d \in DOMAIN commands,
                          Announces(d, q.command)
                   PROVE  \/ q.scale = commands[q.command].bounds
                          \/ d \notin Accepted'
      <4>1. \A c, d : Announces(d, c)' = Announces(d, c)
        BY <1>3 DEF Announces
      <4> QED BY <1>1, <4>1 DEF QuadsScaled
    <3>2. q.command \in 1 .. attempts
      BY QuadsHandled
    <3>3. d < q.command /\ d \in 1 .. attempts
      BY <2>1, <3>1 DEF Announces
    <3>4. d # attempts
      BY <2>1, <3>2, <3>3
    <3> QED BY <2>6, <3>1, <3>4 DEF FramesInv, QuadsScaled
  <2>13. WholePictures'
    <3>1. \A f \in OfKind("flush") \intersect Accepted :
             Picture(f)' = Picture(f)
      <4>1. SUFFICES ASSUME NEW f \in OfKind("flush") \intersect Accepted
                     PROVE  Picture(f)' = Picture(f)
        OBVIOUS
      <4>2. f < attempts /\ f \in 1 .. attempts
        BY <2>7
      <4>3. ~(attempts < f)
        BY <2>1, <4>2
      <4>4. \A c : c \in Accepted' /\ c < f <=> c \in Accepted /\ c < f
        BY <2>6, <4>3
      <4> QED BY <1>3, <2>6, <4>3, <4>4 DEF Picture
    <3>2. \A c \in Accepted : /\ PictureOf(c) \subseteq PictureOf(c)'
                              /\ IsFiniteSet(PictureOf(c)')
      <4>1. SUFFICES ASSUME NEW c \in Accepted
                     PROVE  /\ PictureOf(c) \subseteq PictureOf(c)'
                            /\ IsFiniteSet(PictureOf(c)')
        OBVIOUS
      <4>2. /\ \A d \in Accepted : ~(attempts < d)
            /\ OfKind("rectangle") \subseteq 1 .. attempts
        BY <2>1, <2>7, QuadsHandled
      <4>3. PictureOf(c) \subseteq PictureOf(c)'
        BY <1>3, <2>6, <4>2 DEF PictureOf
      <4>4. PictureOf(c)' \subseteq 1 .. attempts
        BY <1>3, <4>2 DEF PictureOf
      <4>5. IsFiniteSet(1 .. attempts)
        BY <2>1, FS_Interval
      <4>6. IsFiniteSet(PictureOf(c)')
        BY <4>4, <4>5, FS_Subset
      <4> QED BY <4>3, <4>6
    <3>3. DrawnWhole'
      BY <1>1, <1>3, <2>6, <3>1, <3>2, PicturesStay
      DEF FramesInv, WholePictures
    <3> QED BY <1>1, <1>3, <2>9, <3>3, OrderStays DEF FramesInv, WholePictures
  <2>14. HandledEarlier'
    BY <1>1, <2>8 DEF FramesInv, HandledEarlier
  <2>15. FrameByFrame'
    <3>1. \A c : Lost(c)' <=> Lost(c)
      BY <1>1, <1>5, <2>6 DEF Lost
    <3>2. commands[attempts].frame = frame
      BY <1>1 DEF FramesInv, FramesRise
    <3>3. \A i \in handled + 1 .. n : i \in handled + 1 .. Len(sent) \/ i = n
      BY <2>1
    <3>4. \A i \in handled + 1 .. Len(sent) : i \in 1 .. Len(sent)
      BY <2>1
    <3>5. ASSUME failures = 0, \A c \in DOMAIN commands : ~Lost(c)
          PROVE  \A i \in handled + 1 .. n :
                    commands[sent'[i].id].frame = frame
      <4>1. \A i \in handled + 1 .. Len(sent) :
               commands[sent[i].id].frame = frame
        BY <3>5 DEF FramesInv, FrameByFrame
      <4> QED BY <2>4, <3>2, <3>3, <3>4, <4>1
    <3> QED BY <1>1, <2>4, <3>1, <3>5 DEF FrameByFrame
  <2> QED BY <1>2, <1>4, <2>10, <2>11, <2>12, <2>13, <2>14, <2>15 DEF FramesInv
<1>6. CASE UNCHANGED sent /\ (wpc = "signal" => wpc' = "idle")
           /\ wpc \notin {"idle", "produce"} /\ wpc' # "signal"
  <2>1. IdsRise'
    BY <1>1, <1>6, CommandsUnchanged
  <2>2. RenderFollows' /\ QuadsScaled' /\ WholePictures'
    BY <1>1, <1>6, PictureUnchanged
  <2>3. HandledEarlier'
    BY <1>1, <1>6 DEF FramesInv, HandledEarlier
  <2>4. FrameByFrame'
    <3>1. \A c : Lost(c) => Lost(c)'
      BY <1>1, <1>6 DEF Lost, Accepted
    <3> QED BY <1>1, <1>6, <3>1 DEF FramesInv, FrameByFrame
  <2> QED BY <1>2, <1>4, <2>1, <2>2, <2>3, <2>4 DEF FramesInv
<1> QED BY <1>5, <1>6, SendFacts

(* render_frame starts: something of the frame that was laid out is still  *)
(* in the queue, unless all of it was refused.                             *)
LEMMA BeginRenderKeeps ==
    ASSUME QueueInv, FramesInv, BeginRender
    PROVE  FramesInv'
<1>1. /\ pc = "render" /\ pc' = "read" /\ wpc = "idle" /\ screen' = <<>>
      /\ cleared' = cleared \union OnScreen
      /\ UNCHANGED <<sent, taken, attempts, wpc, wmsg, rpc, failures, window,
                     input, commands, frame, arena, handled, resolution,
                     changes, quads>>
  BY DEF BeginRender, vars, windowVars, layoutVars
<1>2. FrameTypes' /\ Turns' /\ LeftForLater' /\ HandledEarlier'
  <2>1. FrameTypes'
    BY <1>1 DEF FramesInv, FrameTypes
  <2>2. Turns'
    BY <1>1 DEF FramesInv, Turns
  <2> QED BY <1>1, <2>1, <2>2 DEF LeftForLater, Stopped, HandledEarlier
<1>3. \A k : OfKind(k)' = OfKind(k)
  BY <1>1 DEF OfKind
<1>4. BoundsAnnounced' /\ FlushEndsFrame' /\ FramesRise'
  <2>1. \A c, d : Announces(d, c)' = Announces(d, c)
    BY <1>3 DEF Announces
  <2>2. BoundsAnnounced'
    BY <1>1, <1>3, <2>1 DEF FramesInv, BoundsAnnounced
  <2>3. FlushEndsFrame'
    BY <1>1, <1>3 DEF FramesInv, FlushEndsFrame
  <2> QED BY <1>1, <2>2, <2>3 DEF FramesInv, FramesRise
<1>5. IdsRise'
  BY <1>1, CommandsUnchanged
<1>6. Accepted' = Accepted /\ Handled' = Handled
  BY <1>1 DEF Accepted, Handled
<1>7. /\ OnScreen' = {} /\ CommandsOf(quads)' = CommandsOf(quads)
      /\ Waiting' = Waiting /\ (Torn(Waiting) => Torn(Waiting)')
  <2>1. OnScreen' = {}
    BY <1>1 DEF OnScreen
  <2>2. Waiting' = Waiting /\ CommandsOf(quads)' = CommandsOf(quads)
    BY <1>1, <1>3, <1>6 DEF Waiting, CommandsOf
  <2> QED BY <1>1, <2>1, <2>2 DEF Torn
<1>8. RenderFollows' /\ QuadsScaled'
  <2>1. RenderFollows'
    BY <1>1, <1>3, <1>6, <1>7 DEF FramesInv, RenderFollows, WaitingQuads
  <2>2. \A c, d : Announces(d, c)' = Announces(d, c)
    BY <1>3 DEF Announces
  <2> QED BY <1>1, <1>6, <2>1, <2>2 DEF FramesInv, QuadsScaled
<1>9. WholePictures'
  <2>1. DrawnWhole'
    BY <1>1 DEF DrawnWhole
  <2>2. ASSUME NEW c \in CommandsOf(quads),
               NEW d \in OfKind("rectangle") \intersect Handled, c < d
        PROVE  d \in CommandsOf(quads)
    <3>1. d \in OnScreen \union CommandsOf(quads)
      BY <2>2 DEF FramesInv, WholePictures, InOrder
    <3>2. PICK q \in quads : q.command = c
      BY DEF CommandsOf
    <3>3. d \in OnScreen => d < c
      BY <3>2 DEF FramesInv, WholePictures, InOrder
    <3>4. c \in Nat /\ d \in Nat
      BY <3>2, QuadsHandled, InvFacts
    <3> QED BY <2>2, <3>1, <3>3, <3>4
  <2>3. OfKind("rectangle") \intersect Handled
           \subseteq OnScreen' \union CommandsOf(quads) \union cleared'
    BY <1>1 DEF FramesInv, WholePictures, InOrder
  <2>4. InOrder'
    BY <1>1, <1>3, <1>6, <1>7, <2>2, <2>3 DEF InOrder
  <2> QED BY <2>1, <2>4 DEF WholePictures
<1>10. FrameByFrame'
  <2>1. \A c : Lost(c)' = Lost(c)
    BY <1>1, <1>6 DEF Lost
  <2>2. /\ attempts \in Nat /\ DOMAIN commands = 1 .. attempts
        /\ frame \in Nat /\ DOMAIN sent = 1 .. Len(sent)
        /\ handled \in Nat /\ Len(sent) \in Nat
    BY InvFacts DEF FramesInv, FrameTypes
  <2>3. \A c \in Handled : c \in Nat /\ commands[c].frame < frame
    <3>1. \A c \in Handled : commands[c].frame < frame
      BY <1>1 DEF FramesInv, HandledEarlier, Handled
    <3> QED BY <2>2, <3>1, QuadsHandled
  <2>4. ASSUME failures = 0, \A c \in DOMAIN commands : ~Lost(c),
               NEW c \in Waiting
        PROVE  FALSE
    <3>1. c \in Handled /\ c \in DOMAIN commands /\ commands[c].frame < frame
      BY <2>2, <2>3, QuadsHandled DEF Waiting
    <3>2. PICK f \in OfKind("flush") :
              c <= f /\ commands[f].frame = commands[c].frame
      BY <1>1, <3>1 DEF FramesInv, FlushEndsFrame
    <3>3. f \in DOMAIN commands
      BY DEF OfKind
    <3>4. f \in Accepted
      BY <1>1, <2>4, <3>3 DEF Lost
    <3>5. PICK i \in 1 .. Len(sent) : sent[i].id = f
      BY <2>2, <3>4 DEF Accepted
    <3>6. \A n \in handled + 1 .. Len(sent) : commands[sent[n].id].frame = frame
      BY <2>4 DEF FramesInv, FrameByFrame
    <3>7. commands[sent[i].id].frame # frame
      BY <2>2, <2>3, <3>1, <3>2, <3>5
    <3>8. i \in 1 .. handled
      BY <2>2, <3>6, <3>7
    <3>9. f \in Handled
      BY <3>5, <3>8 DEF Handled
    <3>10. f < c
      BY <3>9 DEF Waiting
    <3> QED BY <2>3, <3>1, <3>2, <3>9, <3>10
  <2>5. ASSUME failures = 0, \A c \in DOMAIN commands : ~Lost(c)
        PROVE  CommandsOf(quads) = {}
    BY <2>4, <2>5 DEF FramesInv, RenderFollows, WaitingQuads
  <2>6. {c \in OfKind("rectangle") \intersect Handled :
            commands[c].frame = frame} = {}
    BY <2>2, <2>3
  <2> QED BY <1>1, <1>3, <1>6, <1>7, <2>1, <2>5, <2>6
      DEF FramesInv, FrameByFrame
<1> QED BY <1>2, <1>4, <1>5, <1>8, <1>9, <1>10 DEF FramesInv

(* What a step of the reading keeps that takes no command.                 *)
LEMMA QuietStep ==
    ASSUME QueueInv, FramesInv, wpc = "idle", wpc' = "idle",
           UNCHANGED <<sent, attempts, wmsg, window, input, commands, frame,
                       handled, resolution, changes, quads, screen, cleared>>,
           \/ pc \in {"read", "reading"} /\ pc' = "reading"
           \/ pc = "reading" /\ pc' = "swap"
    PROVE  /\ IdsRise' /\ BoundsAnnounced' /\ FlushEndsFrame' /\ FramesRise'
           /\ HandledEarlier' /\ RenderFollows' /\ QuadsScaled'
           /\ WholePictures' /\ \A c : Lost(c)' = Lost(c)
           /\ OnScreen' = OnScreen /\ CommandsOf(quads)' = CommandsOf(quads)
           /\ Handled' = Handled /\ \A k : OfKind(k)' = OfKind(k)
<1>1. \A k : OfKind(k)' = OfKind(k)
  BY DEF OfKind
<1>2. Accepted' = Accepted /\ Handled' = Handled
  BY DEF Accepted, Handled
<1>3. \A c, d : Announces(d, c)' = Announces(d, c)
  BY <1>1 DEF Announces
<1>4. BoundsAnnounced'
  BY <1>1, <1>3 DEF FramesInv, BoundsAnnounced
<1>5. FlushEndsFrame'
  BY <1>1 DEF FramesInv, FlushEndsFrame
<1>6. IdsRise' /\ FramesRise' /\ HandledEarlier'
  BY CommandsUnchanged DEF FramesInv, FramesRise, HandledEarlier
<1>7. RenderFollows' /\ QuadsScaled' /\ WholePictures'
  BY PictureUnchanged
<1>8. \A c : Lost(c)' = Lost(c)
  BY <1>2 DEF Lost
<1> QED BY <1>1, <1>2, <1>4, <1>5, <1>6, <1>7, <1>8, SameScreen

LEMMA CallTryReadKeeps ==
    ASSUME QueueInv, FramesInv, CallTryRead
    PROVE  FramesInv'
<1>1. /\ pc = "read" /\ pc' = "reading" /\ wpc = "idle" /\ wpc' = "idle"
      /\ rpc = "idle" /\ rpc' = "map" /\ handled = Len(taken)
      /\ UNCHANGED <<sent, taken, attempts, wmsg, failures, window, input,
                     commands, frame, arena, handled, resolution, changes,
                     quads, screen, cleared>>
  <2>1. /\ pc = "read" /\ pc' = "reading" /\ rpc = "idle" /\ rpc' = "map"
        /\ UNCHANGED <<sent, taken, attempts, wmsg, wpc, failures, window,
                       input, commands, frame, arena, handled, resolution,
                       changes, quads, screen, cleared>>
    BY FramesAssumption
    DEF CallTryRead, BeginRead, writerVars, history, windowVars, layoutVars,
        renderVars
  <2> QED BY <2>1 DEF FramesInv, Turns
<1>2. FrameTypes' /\ Turns' /\ LeftForLater'
  BY <1>1 DEF FramesInv, FrameTypes, Turns, LeftForLater, Stopped
<1>3. FrameByFrame'
  BY <1>1, QuietStep DEF FramesInv, FrameByFrame
<1> QED BY <1>1, <1>2, <1>3, QuietStep DEF FramesInv

(* The steps of th_message_try_read and where each of them leads.          *)
LEMMA ReadFacts ==
    ASSUME QueueInv, FramesInv, ReadStep
    PROVE  /\ pc = "reading" /\ pc' = "reading" /\ rpc # "idle"
           /\ wpc = "idle" /\ wpc' = "idle"
           /\ UNCHANGED <<sent, attempts, wmsg, window, input, commands, frame,
                          handled, resolution, changes, quads, screen, cleared>>
           /\ failures' = 0 => failures = 0
           /\ arena' \in Nat
           /\ \/ rpc = "consume" /\ rpc' = "take"
                 /\ Len(taken') = Len(taken) + 1
              \/ rpc = "take" /\ rpc' \in {"idle", "trapped"}
                 /\ UNCHANGED taken
              \/ rpc \notin {"consume", "take", "trapped"} /\ UNCHANGED taken
                 /\ rpc' \notin {"idle", "take", "trapped"}
              \/ rpc \in {"map", "look", "clone"} /\ rpc' = "idle"
                 /\ UNCHANGED taken
                 /\ (Unread # {} =>
                       /\ failures' > 0
                       /\ arena' + sent[Len(taken) + 1].size > ArenaCells)
<1>1. /\ pc = "reading" /\ pc' = "reading" /\ rpc # "idle" /\ ReaderStep
      /\ UNCHANGED <<window, input, commands, frame, handled, resolution,
                     changes, quads, screen, cleared>>
      /\ rpc = "clone" =>
            ((rpc' = "consume") <=> arena + rmsg.size <= ArenaCells)
      /\ arena' = IF rpc = "clone" /\ arena + rmsg.size <= ArenaCells
                  THEN arena + rmsg.size ELSE arena
  BY DEF ReadStep, windowVars, layoutVars, renderVars
<1>2. wpc = "idle" /\ rop = "try_read"
  BY <1>1, FramesAssumption DEF QueueInv, Mapped, ReaderKnows
<1>3. rpc \notin {"sem", "check", "resignal"}
  BY <1>2 DEF QueueInv, ReaderKnows
<1>4. failures \in Nat /\ arena \in Nat /\ rmsg \in Datum
      /\ taken \in Seq(Datum) /\ ArenaCells \in Nat
  BY FramesAssumption DEF QueueInv, TypeOK, FramesInv, FrameTypes
<1>5. rmsg.size \in Nat
  <2>1. rmsg.size \in Sizes \union {0}
    BY <1>4 DEF Datum
  <2>2. Sizes \subseteq Nat
    BY QueueAssumption
  <2>3. rmsg.size \in Nat \union {0}
    BY <2>1, <2>2
  <2> QED BY <2>3
<1>6. arena' \in Nat
  BY <1>1, <1>4, <1>5
<1>7. \/ ReaderEnsure \/ ReaderInstall \/ LookForMessage \/ ReadHeader
      \/ CloneData \/ ConsumeMessage \/ TakeToken
  BY <1>1, <1>3 DEF ReaderStep, BeginRead, SemaphoreWait, CheckSize,
                    GiveTokenBack
<1>8. UNCHANGED <<sent, attempts, wmsg, wpc>> /\ (failures' = 0 => failures = 0)
  BY <1>4, <1>7
  DEF ReaderEnsure, ReaderInstall, LookForMessage, ReadHeader, CloneData,
      ConsumeMessage, TakeToken, ReaderGoto, writerVars, history,
      EnvironmentFails
<1>. DEFINE Leads ==
              \/ rpc = "consume" /\ rpc' = "take"
                 /\ Len(taken') = Len(taken) + 1
              \/ rpc = "take" /\ rpc' \in {"idle", "trapped"}
                 /\ UNCHANGED taken
              \/ rpc \notin {"consume", "take", "trapped"} /\ UNCHANGED taken
                 /\ rpc' \notin {"idle", "take", "trapped"}
              \/ rpc \in {"map", "look", "clone"} /\ rpc' = "idle"
                 /\ UNCHANGED taken
                 /\ (Unread # {} =>
                       /\ failures' > 0
                       /\ arena' + sent[Len(taken) + 1].size > ArenaCells)
<1>9. Leads
  <2>1. Len(taken) \in Nat /\ Len(sent) \in Nat
    BY InvFacts
  <2>2. CASE ReaderEnsure
    <3>1. CASE items # "none"
      BY <2>2, <3>1 DEF ReaderEnsure, ReaderGoto, history
    <3>2. CASE items = "none"
      <4>1. Len(sent) = 0
        BY <2>1, <3>2 DEF QueueInv, Mapped
      <4>2. Unread = {}
        BY <2>1, <4>1 DEF Unread
      <4> QED BY <2>2, <4>2 DEF ReaderEnsure, ReaderGoto, history
    <3> QED BY <3>1, <3>2
  <2>3. CASE ReaderInstall
    BY <2>3 DEF ReaderInstall, ReaderGoto, history
  <2>4. CASE LookForMessage
    <3>1. CASE RingSize > HeaderSize
      BY <2>4, <3>1 DEF LookForMessage, ReaderGoto, history
    <3>2. CASE ~(RingSize > HeaderSize)
      <4>1. Unread = {}
        BY <2>1, <3>2, UnreadIsWhole DEF Unread
      <4> QED BY <2>4, <3>2, <4>1 DEF LookForMessage, ReaderGoto, history
    <3> QED BY <3>1, <3>2
  <2>5. CASE ReadHeader
    BY <2>5 DEF ReadHeader, history
  <2>6. CASE CloneData
    <3>1. CASE rpc' = "consume"
      BY <2>6, <3>1 DEF CloneData, history
    <3>2. CASE rpc' # "consume"
      <4>1. /\ rpc = "clone" /\ rpc' = "idle" /\ failures' = failures + 1
            /\ UNCHANGED taken
        BY <1>2, <2>6, <3>2 DEF CloneData, ReaderGoto, EnvironmentFails, history
      <4>2. arena' = arena /\ arena + rmsg.size > ArenaCells
        BY <1>1, <1>4, <1>5, <3>2, <4>1
      <4>3. rmsg = sent[Len(taken) + 1]
        BY <4>1 DEF QueueInv, ReaderKnows
      <4>4. failures' > 0
        BY <1>4, <4>1
      <4> QED BY <4>1, <4>2, <4>3, <4>4
    <3> QED BY <3>1, <3>2
  <2>7. CASE ConsumeMessage
    <3>1. taken' = Append(taken, rmsg)
      BY <2>7 DEF ConsumeMessage
    <3>2. Len(taken') = Len(taken) + 1
      BY <1>4, <3>1
    <3> QED BY <1>2, <2>7, <3>2 DEF ConsumeMessage, ReaderGoto
  <2>8. CASE TakeToken
    BY <2>8 DEF TakeToken, ReaderGoto, history
  <2> QED BY <1>7, <2>2, <2>3, <2>4, <2>5, <2>6, <2>7, <2>8
<1> QED BY <1>1, <1>2, <1>6, <1>8, <1>9

LEMMA ReadStepKeeps ==
    ASSUME QueueInv, FramesInv, ReadStep
    PROVE  FramesInv'
<1>1. /\ pc = "reading" /\ pc' = "reading" /\ rpc # "idle"
      /\ wpc = "idle" /\ wpc' = "idle"
      /\ UNCHANGED <<sent, attempts, wmsg, window, input, commands, frame,
                     handled, resolution, changes, quads, screen, cleared>>
      /\ failures' = 0 => failures = 0
      /\ arena' \in Nat /\ Len(taken) \in Nat /\ handled \in Nat
  BY ReadFacts, InvFacts
<1>2. FrameTypes'
  BY <1>1 DEF FramesInv, FrameTypes
<1>3. IF rpc \in {"take", "trapped"} THEN handled = Len(taken) - 1
      ELSE handled = Len(taken)
  BY <1>1 DEF FramesInv, Turns
<1>4. Turns' /\ LeftForLater'
  <2>1. CASE rpc = "consume" /\ rpc' = "take" /\ Len(taken') = Len(taken) + 1
    BY <1>1, <1>3, <2>1 DEF Turns, LeftForLater, Stopped
  <2>2. CASE rpc = "take" /\ rpc' \in {"idle", "trapped"} /\ UNCHANGED taken
    BY <1>1, <1>3, <2>2 DEF Turns, LeftForLater, Stopped
  <2>3. CASE rpc \notin {"consume", "take", "trapped"} /\ UNCHANGED taken
             /\ rpc' \notin {"idle", "take", "trapped"}
    BY <1>1, <1>3, <2>3 DEF Turns, LeftForLater, Stopped
  <2>4. CASE rpc \in {"map", "look", "clone"} /\ rpc' = "idle"
             /\ UNCHANGED taken
             /\ (Unread # {} =>
                   /\ failures' > 0
                   /\ arena' + sent[Len(taken) + 1].size > ArenaCells)
    <3>1. Turns'
      BY <1>1, <1>3, <2>4 DEF Turns
    <3>2. Unread' = Unread
      BY <1>1, <2>4 DEF Unread
    <3>3. LeftForLater'
      BY <1>1, <2>4, <3>2 DEF LeftForLater
    <3> QED BY <3>1, <3>3
  <2> QED BY <2>1, <2>2, <2>3, <2>4, ReadFacts
<1>5. FrameByFrame'
  BY <1>1, QuietStep DEF FramesInv, FrameByFrame
<1> QED BY <1>1, <1>2, <1>4, <1>5, QuietStep DEF FramesInv

(* th_message_try_read has returned false.                                 *)
LEMMA EndRenderKeeps ==
    ASSUME QueueInv, FramesInv, EndRender
    PROVE  FramesInv'
<1>1. /\ pc = "reading" /\ pc' = "swap" /\ rpc = "idle"
      /\ wpc = "idle" /\ wpc' = "idle" /\ handled = Len(taken)
      /\ UNCHANGED <<sent, taken, attempts, wmsg, rpc, failures, window, input,
                     commands, frame, arena, handled, resolution, changes,
                     quads, screen, cleared>>
  <2>1. /\ pc = "reading" /\ pc' = "swap" /\ rpc = "idle"
        /\ handled = Len(taken)
        /\ UNCHANGED <<sent, taken, attempts, wmsg, wpc, rpc, failures, window,
                       input, commands, frame, arena, handled, resolution,
                       changes, quads, screen, cleared>>
    BY DEF EndRender, vars, windowVars, layoutVars, renderVars
  <2> QED BY <2>1 DEF FramesInv, Turns
<1>2. FrameTypes' /\ Turns' /\ LeftForLater'
  BY <1>1 DEF FramesInv, FrameTypes, Turns, LeftForLater, Stopped, Unread
<1>3. FrameByFrame'
  <2>1. failures = 0 => handled = Len(sent)
    <3>1. failures = 0 => Unread = {}
      BY <1>1 DEF FramesInv, LeftForLater, Stopped
    <3> QED BY <1>1, <3>1, InvFacts DEF Unread
  <2>2. ASSUME failures = 0, \A c \in DOMAIN commands : ~Lost(c)
        PROVE  Shown
    <3>1. /\ handled = Len(sent) /\ DOMAIN sent = 1 .. Len(sent)
          /\ DOMAIN commands = 1 .. attempts /\ attempts \in Nat
      BY <2>1, <2>2, InvFacts
    <3>2. Handled = Accepted
      BY <3>1 DEF Handled, Accepted
    <3>3. \A c \in DOMAIN commands : c \in Handled
      BY <1>1, <2>2, <3>2 DEF Lost
    <3>4. \A k : OfKind(k) \subseteq DOMAIN commands
      BY DEF OfKind
    <3>5. OnScreen \union CommandsOf(quads) =
             {c \in OfKind("rectangle") : commands[c].frame = frame}
      <4>1. OnScreen \union CommandsOf(quads) =
               {c \in OfKind("rectangle") \intersect Handled :
                   commands[c].frame = frame}
        BY <1>1, <2>2 DEF FramesInv, FrameByFrame
      <4> QED BY <3>3, <3>4, <4>1
    <3>6. attempts \in OfKind("flush") /\ attempts \in Handled
      BY <1>1, <3>3, <3>4, InvFacts DEF FramesInv, FlushEndsFrame
    <3>7. \A c \in OfKind("rectangle") : ~(attempts < c)
      BY <3>1, <3>4
    <3>8. CommandsOf(quads) = {}
      BY <3>6, <3>7 DEF FramesInv, RenderFollows, WaitingQuads, Waiting
    <3>9. quads = {}
      BY <3>8 DEF CommandsOf
    <3> QED BY <3>5, <3>8, <3>9 DEF Shown
  <2>3. Shown => Shown'
    BY <1>1, QuietStep DEF Shown
  <2> QED BY <1>1, <2>1, <2>2, <2>3, QuietStep DEF FramesInv, FrameByFrame
<1> QED BY <1>1, <1>2, <1>3, QuietStep DEF FramesInv

(* The command that is handled is the first that was not: those accepted   *)
(* before it are the ones that were.                                       *)
LEMMA NextCommand ==
    ASSUME QueueInv, FramesInv, HandleCommand
    PROVE  /\ handled + 1 \in 1 .. Len(sent) /\ handled + 1 = Len(taken)
           /\ Current = sent[handled + 1].id
           /\ Current \in 1 .. attempts /\ Current \in Accepted
           /\ handled' = handled + 1
           /\ Handled' = Handled \union {Current}
           /\ \A a \in Accepted : a < Current <=> a \in Handled
           /\ wpc = "idle" /\ rpc = "idle"
           /\ pc = "reading" /\ pc' = "read"
           /\ UNCHANGED <<sent, taken, attempts, wmsg, wpc, rpc, failures,
                          window, input, commands, frame, arena, cleared>>
<1>1. /\ rpc = "idle" /\ handled < Len(taken) /\ handled' = handled + 1
      /\ pc = "reading" /\ pc' = "read"
      /\ UNCHANGED <<sent, taken, attempts, wmsg, wpc, rpc, failures,
                     window, input, commands, frame, arena, cleared>>
  BY DEF HandleCommand, vars, windowVars, layoutVars
<1>2. /\ handled \in Nat /\ Len(taken) \in Nat /\ Len(sent) \in Nat
      /\ Len(taken) <= Len(sent) /\ attempts \in Nat
      /\ DOMAIN sent = 1 .. Len(sent)
      /\ \A i \in 1 .. Len(sent) : sent[i].id \in 1 .. attempts
  BY InvFacts
<1>3. handled + 1 = Len(taken) /\ wpc = "idle"
  BY <1>1, <1>2 DEF FramesInv, Turns
<1>4. handled + 1 \in 1 .. Len(taken) /\ handled + 1 \in 1 .. Len(sent)
  BY <1>1, <1>2
<1>5. Current = sent[handled + 1].id
  BY <1>4 DEF Current, QueueInv, TakenInOrder
<1>6. \A i \in 1 .. handled + 1 : i \in 1 .. handled \/ i = handled + 1
  BY <1>2
<1>7. Handled' = Handled \union {Current}
  <2>1. \A x : (\E i \in 1 .. handled + 1 : x = sent[i].id)
               <=> (\E i \in 1 .. handled : x = sent[i].id) \/ x = Current
    <3>1. handled + 1 \in 1 .. handled + 1
          /\ \A i \in 1 .. handled : i \in 1 .. handled + 1
      BY <1>2
    <3> QED BY <1>5, <1>6, <3>1
  <2> QED BY <1>1, <2>1 DEF Handled
<1>8. ASSUME NEW a \in Accepted PROVE a < Current <=> a \in Handled
  <2>1. PICK i \in 1 .. Len(sent) : a = sent[i].id
    BY <1>2 DEF Accepted
  <2>2. /\ a \in Nat /\ Current \in Nat
        /\ i < handled + 1 => a < Current
        /\ handled + 1 < i => Current < a
    BY <1>2, <1>4, <1>5, <2>1 DEF FramesInv, IdsRise
  <2>3. CASE i \in 1 .. handled
    <3>1. i < handled + 1
      BY <1>2, <2>3
    <3>2. a \in Handled
      BY <2>1, <2>3 DEF Handled
    <3> QED BY <2>2, <3>1, <3>2
  <2>4. CASE i \notin 1 .. handled
    <3>1. ~(a < Current)
      BY <1>2, <1>5, <2>1, <2>2, <2>4
    <3>2. ASSUME NEW j \in 1 .. handled, a = sent[j].id PROVE FALSE
      <4>1. j < handled + 1 /\ j \in 1 .. Len(sent)
        BY <1>2, <1>4
      <4>2. a < Current
        BY <1>4, <1>5, <3>2, <4>1 DEF FramesInv, IdsRise
      <4> QED BY <3>1, <4>2
    <3>3. a \notin Handled
      BY <3>2 DEF Handled
    <3> QED BY <3>1, <3>3
  <2> QED BY <2>3, <2>4
<1>9. Current \in Accepted /\ Current \in 1 .. attempts
  BY <1>2, <1>4, <1>5 DEF Accepted
<1> QED BY <1>1, <1>3, <1>4, <1>5, <1>7, <1>8, <1>9

(* What handling does, by the kind of the command.                         *)
LEMMA HandleCases ==
    ASSUME QueueInv, FramesInv, HandleCommand
    PROVE  \/ /\ Current \in OfKind("resolution")
              /\ resolution' = commands[Current].bounds
              /\ UNCHANGED <<changes, quads, screen>>
           \/ /\ Current \in OfKind("rectangle")
              /\ PushQuad(Current)
              /\ UNCHANGED resolution
           \/ /\ Current \in OfKind("flush")
              /\ screen' = Flushed /\ quads' = {}
              /\ UNCHANGED <<resolution, changes>>
  BY NextCommand, InvFacts DEF HandleCommand, SetResolution, OfKind

(* The quad of a rectangle joins the ones that wait, or they are drawn     *)
(* before it.                                                              *)
LEMMA PushCases ==
    ASSUME NEW c, NEW new, new = [command |-> c, scale |-> resolution],
           PushQuad(c)
    PROVE  /\ changes \subseteq changes'
           /\ \/ /\ quads' = quads \union {new} /\ screen' = screen
                 /\ Cardinality(quads) # QuadsMax /\ changes' = changes
              \/ /\ quads' = {new} /\ screen' = Flushed
                 /\ c \in changes' \/ Cardinality(quads) = QuadsMax
  BY DEF PushQuad

LEMMA AnnouncesOnce ==
    ASSUME QueueInv, FramesInv, NEW c, NEW d, NEW e,
           Announces(d, c), Announces(e, c)
    PROVE  d = e
<1>1. d <= e /\ e <= d
  BY DEF Announces
<1>2. d \in Nat /\ e \in Nat
  <2>1. d \in 1 .. attempts /\ e \in 1 .. attempts /\ attempts \in Nat
    BY QuadsHandled, InvFacts DEF Announces
  <2> QED BY <2>1
<1> QED BY <1>1, <1>2

(* How the rectangles that wait for a flush command change.                *)
LEMMA WaitingAfterHandling ==
    ASSUME QueueInv, FramesInv, HandleCommand
    PROVE  /\ Current \in OfKind("resolution") => Waiting' = Waiting
           /\ Current \in OfKind("rectangle") =>
                 Waiting' = Waiting \union {Current}
           /\ Current \in OfKind("flush") => Waiting' = {}
           /\ \A c \in Waiting : c < Current /\ c \in Nat
           /\ Current \notin Waiting /\ Current \in Nat
           /\ IsFiniteSet(Waiting)
<1>1. /\ Handled' = Handled \union {Current} /\ Current \in Accepted
      /\ \A a \in Accepted : a < Current <=> a \in Handled
      /\ Handled \subseteq Accepted /\ Accepted \subseteq 1 .. attempts
      /\ attempts \in Nat /\ UNCHANGED commands
  BY NextCommand, QuadsHandled, InvFacts
<1>2. \A k : OfKind(k)' = OfKind(k)
  BY <1>1 DEF OfKind
<1>3. /\ \A a \in Handled : a < Current /\ ~(Current < a) /\ a \in Nat
      /\ ~(Current < Current) /\ Current \notin Handled /\ Current \in Nat
  BY <1>1
<1>4. OfKind("rectangle") \intersect OfKind("flush") = {}
      /\ OfKind("rectangle") \intersect OfKind("resolution") = {}
      /\ OfKind("flush") \intersect OfKind("resolution") = {}
  BY DEF OfKind
<1>5. ASSUME Current \in OfKind("resolution") PROVE Waiting' = Waiting
  <2>1. /\ OfKind("flush") \intersect Handled'
              = OfKind("flush") \intersect Handled
        /\ OfKind("rectangle") \intersect Handled'
              = OfKind("rectangle") \intersect Handled
    BY <1>1, <1>4, <1>5
  <2> QED BY <1>2, <2>1 DEF Waiting
<1>6. ASSUME Current \in OfKind("rectangle")
      PROVE  Waiting' = Waiting \union {Current}
  <2>1. OfKind("flush") \intersect Handled' = OfKind("flush") \intersect Handled
    BY <1>1, <1>4, <1>6
  <2> QED BY <1>1, <1>2, <1>3, <1>6, <2>1 DEF Waiting
<1>7. ASSUME Current \in OfKind("flush") PROVE Waiting' = {}
  <2>1. Current \in OfKind("flush")' \intersect Handled'
    BY <1>1, <1>2, <1>7
  <2>2. \A c \in OfKind("rectangle")' \intersect Handled' : ~(Current < c)
    BY <1>1, <1>2, <1>3
  <2> QED BY <2>1, <2>2 DEF Waiting
<1>8. IsFiniteSet(Waiting)
  <2>1. Waiting \subseteq 1 .. attempts
    BY <1>1 DEF Waiting
  <2>2. IsFiniteSet(1 .. attempts)
    BY <1>1, FS_Interval
  <2> QED BY <2>1, <2>2, FS_Subset
<1>9. (\A c \in Waiting : c < Current /\ c \in Nat) /\ Current \notin Waiting
  BY <1>3 DEF Waiting
<1> QED BY <1>3, <1>5, <1>6, <1>7, <1>8, <1>9

(* If the quads before it are drawn because of a rectangle, the picture is *)
(* torn.                                                                   *)
LEMMA CutTears ==
    ASSUME QueueInv, FramesInv, HandleCommand,
           Current \in OfKind("rectangle"), PushQuad(Current),
           Current \in changes' \/ Cardinality(quads) = QuadsMax,
           NEW W, NEW C, W = Waiting, C = Current, W # {}
    PROVE  Torn(W \union {C})'
<1>1. /\ IsFiniteSet(W) /\ C \notin W
      /\ \A c \in W : c < C
  BY WaitingAfterHandling
<1>2. changes \subseteq changes'
  BY PushCases
<1>. DEFINE T == W \union {C}
<1>3. /\ IsFiniteSet(T) /\ Cardinality(T) = Cardinality(W) + 1
      /\ W \subseteq T
  BY <1>1, FS_AddElement
<1>4. CASE C \in changes'
  <2>1. PICK c \in W : c < C
    BY <1>1
  <2>2. c \in T /\ C \in T
    OBVIOUS
  <2> QED BY <1>4, <2>1, <2>2 DEF Torn
<1>5. CASE Torn(W)
  <2>. HIDE DEF T
  <2>1. Torn(T)'
    BY <1>2, <1>3, <1>5, TornGrows
  <2> QED BY <2>1 DEF T
<1>6. CASE Cardinality(quads) = QuadsMax /\ ~Torn(W)
  <2>1. Cardinality(W) = QuadsMax
    BY <1>6 DEF FramesInv, RenderFollows, WaitingQuads
  <2>2. Cardinality(T) > QuadsMax
    BY <1>3, <2>1, FramesAssumption
  <2> QED BY <2>2 DEF Torn
<1> QED BY <1>4, <1>5, <1>6

LEMMA WaitAfterHandling ==
    ASSUME QueueInv, FramesInv, HandleCommand
    PROVE  WaitingQuads'
<1>. PICK W, C, Q : W = Waiting /\ C = Current /\ Q = CommandsOf(quads)
  OBVIOUS
<1>1. /\ Q \subseteq W /\ (Q = W \/ Torn(W)) /\ IsFiniteSet(quads)
      /\ Cardinality(Q) = Cardinality(quads)
  BY DEF FramesInv, RenderFollows, WaitingQuads
<1>2. IsFiniteSet(W) /\ C \notin W
  BY WaitingAfterHandling
<1>3. IsFiniteSet(Q)
  BY <1>1, <1>2, FS_Subset
<1>4. CASE Current \in OfKind("resolution") /\ UNCHANGED <<changes, quads>>
  <2>1. Waiting' = W /\ CommandsOf(quads)' = Q
    BY <1>4, WaitingAfterHandling DEF CommandsOf
  <2>2. Torn(W) => Torn(Waiting)'
    BY <1>4, <2>1 DEF Torn
  <2> QED BY <1>1, <1>4, <2>1, <2>2 DEF WaitingQuads
<1>5. CASE Current \in OfKind("flush") /\ quads' = {}
  <2>1. Waiting' = {} /\ CommandsOf(quads)' = {}
    BY <1>5, WaitingAfterHandling DEF CommandsOf
  <2> QED BY <1>5, <2>1, FS_EmptySet DEF WaitingQuads
<1>6. CASE Current \in OfKind("rectangle") /\ PushQuad(Current)
  <2>. PICK new : new = [command |-> Current, scale |-> resolution]
    OBVIOUS
  <2>. DEFINE T == W \union {C}
  <2>1. new.command = C /\ Waiting' = T
    BY <1>6, WaitingAfterHandling
  <2>2. new \notin quads
    BY <1>1, <1>2, <2>1 DEF CommandsOf
  <2>3. IsFiniteSet(T) /\ W \subseteq T /\ C \in T
    BY <1>2, FS_AddElement
  <2>4. Torn(T)' => Torn(Waiting)'
    BY <2>1 DEF Torn
  <2>5. CASE quads' = quads \union {new} /\ changes' = changes
    <3>1. CommandsOf(quads)' = Q \union {C}
      BY <2>1, <2>5 DEF CommandsOf
    <3>2. /\ IsFiniteSet(quads') /\ Cardinality(quads') = Cardinality(quads) + 1
          /\ Cardinality(Q \union {C}) = Cardinality(Q) + 1
      BY <1>1, <1>2, <1>3, <2>2, <2>5, FS_AddElement
    <3>3. Torn(W) => Torn(T)'
      <4>. HIDE DEF T
      <4> QED BY <2>3, <2>5, TornGrows
    <3>4. CommandsOf(quads)' \subseteq Waiting'
      BY <1>1, <2>1, <3>1
    <3>5. CommandsOf(quads)' = Waiting' \/ Torn(Waiting)'
      BY <1>1, <2>1, <2>4, <3>1, <3>3
    <3>6. Cardinality(CommandsOf(quads)') = Cardinality(quads')
      BY <1>1, <3>1, <3>2
    <3> QED BY <3>2, <3>4, <3>5, <3>6 DEF WaitingQuads
  <2>6. CASE /\ quads' = {new}
             /\ Current \in changes' \/ Cardinality(quads) = QuadsMax
    <3>1. CommandsOf(quads)' = {C}
      BY <2>1, <2>6 DEF CommandsOf
    <3>2. W # {} => Torn(T)'
      BY <1>6, <2>6, CutTears
    <3>3. CommandsOf(quads)' = Waiting' \/ Torn(Waiting)'
      BY <2>1, <2>4, <3>1, <3>2
    <3>4. /\ IsFiniteSet({new}) /\ Cardinality({new}) = 1
          /\ Cardinality({C}) = 1
      <4>1. \A x : /\ IsFiniteSet({} \union {x})
                   /\ Cardinality({} \union {x}) = 1
        BY FS_EmptySet, FS_AddElement, SMTT(30)
      <4>2. \A x : {} \union {x} = {x}
        OBVIOUS
      <4> QED BY <4>1, <4>2
    <3>5. /\ IsFiniteSet(quads')
          /\ Cardinality(CommandsOf(quads)') = Cardinality(quads')
      BY <2>6, <3>1, <3>4
    <3>6. CommandsOf(quads)' \subseteq Waiting'
      BY <2>1, <3>1
    <3> QED BY <3>3, <3>5, <3>6 DEF WaitingQuads
  <2> QED BY <1>6, <2>5, <2>6, PushCases
<1> QED BY <1>4, <1>5, <1>6, HandleCases

(* gl_flush adds what waits to what is on the screen.                      *)
LEMMA FlushPaints ==
    ASSUME FramesInv, screen' = Flushed
    PROVE  /\ OnScreen' = OnScreen \union CommandsOf(quads)
           /\ \A i \in DOMAIN screen' :
                 \/ i \in DOMAIN screen /\ screen'[i] = screen[i]
                 \/ /\ i = Len(screen) + 1 /\ screen'[i] = quads
                    /\ quads # {}
           /\ DOMAIN screen = 1 .. Len(screen) /\ Len(screen) \in Nat
<1>1. screen \in Seq(SUBSET Quad) /\ quads \in SUBSET Quad
  BY DEF FramesInv, FrameTypes
<1>2. DOMAIN screen = 1 .. Len(screen) /\ Len(screen) \in Nat
  BY <1>1
<1>3. CASE quads = {}
  <2>1. screen' = screen /\ CommandsOf(quads) = {}
    BY <1>3 DEF Flushed, CommandsOf
  <2>2. OnScreen' = OnScreen
    BY <2>1 DEF OnScreen, CommandsOf
  <2> QED BY <1>2, <2>1, <2>2
<1>4. CASE quads # {}
  <2>. PICK n \in Nat : n = Len(screen)
    BY <1>2
  <2>1. screen' = Append(screen, quads)
    BY <1>4 DEF Flushed
  <2>2. /\ DOMAIN screen' = 1 .. n + 1
        /\ \A i \in 1 .. n : screen'[i] = screen[i]
        /\ screen'[n + 1] = quads
    BY <1>1, <2>1
  <2>3. \A i \in 1 .. n + 1 : i \in 1 .. n \/ i = n + 1
    OBVIOUS
  <2>4. n + 1 \in 1 .. n + 1 /\ \A i \in 1 .. n : i \in 1 .. n + 1
    OBVIOUS
  <2>5. ASSUME NEW x
        PROVE  x \in OnScreen' <=> x \in OnScreen \union CommandsOf(quads)
    <3>1. x \in OnScreen' <=> \E i \in 1 .. n + 1 : x \in CommandsOf(screen'[i])
      BY <2>2 DEF OnScreen, CommandsOf
    <3>2. x \in OnScreen <=> \E i \in 1 .. n : x \in CommandsOf(screen[i])
      BY <1>2 DEF OnScreen
    <3>3. \A i \in 1 .. n : CommandsOf(screen'[i]) = CommandsOf(screen[i])
      BY <2>2
    <3>4. CommandsOf(screen'[n + 1]) = CommandsOf(quads)
      BY <2>2
    <3> QED BY <2>3, <2>4, <3>1, <3>2, <3>3, <3>4
  <2>6. OnScreen' = OnScreen \union CommandsOf(quads)
    BY <2>5
  <2> QED BY <1>2, <1>4, <2>2, <2>3, <2>6
<1> QED BY <1>3, <1>4

LEMMA PaintedAfterHandling ==
    ASSUME QueueInv, FramesInv, HandleCommand
    PROVE  OnScreen' \subseteq Handled'
<1>1. Handled' = Handled \union {Current}
  BY NextCommand
<1>2. OnScreen \subseteq Handled /\ CommandsOf(quads) \subseteq Handled
  BY DEF FramesInv, RenderFollows, WaitingQuads, Waiting
<1>3. screen' = screen \/ screen' = Flushed
  BY HandleCases, PushCases
<1>4. screen' = screen => OnScreen' = OnScreen
  BY DEF OnScreen, CommandsOf
<1> QED BY <1>1, <1>2, <1>3, <1>4, FlushPaints

LEMMA FollowsAfterHandling ==
    ASSUME QueueInv, FramesInv, HandleCommand
    PROVE  RenderFollows'
<1>. DEFINE h == handled + 1
            Last(i, n) == /\ sent[i].id \in OfKind("resolution")
                          /\ \A j \in i + 1 .. n :
                                sent[j].id \notin OfKind("resolution")
<1>1. /\ h \in 1 .. Len(sent) /\ Current = sent[h].id /\ handled' = h
      /\ Handled' = Handled \union {Current} /\ Current \in Accepted
      /\ \A a \in Accepted : a < Current <=> a \in Handled
      /\ UNCHANGED <<sent, commands>> /\ handled \in Nat
  BY NextCommand, InvFacts
<1>2. \A k : OfKind(k)' = OfKind(k)
  BY <1>1 DEF OfKind
<1>3. \A i \in 1 .. handled :
         Last(i, handled) => resolution = commands[sent[i].id].bounds
  BY DEF FramesInv, RenderFollows, WaitingQuads
<1>4. WaitingQuads'
  BY WaitAfterHandling
<1>5. /\ Handled \subseteq Accepted /\ Accepted \subseteq 1 .. attempts
      /\ attempts \in Nat
  BY QuadsHandled, InvFacts
<1>6. /\ \A a \in Handled : a < Current
      /\ ~(Current < Current) /\ Current \notin Handled
      /\ \A a \in Handled : ~(Current < a)
  BY <1>1, <1>5
<1>7. OfKind("rectangle") \intersect OfKind("flush") = {}
      /\ OfKind("rectangle") \intersect OfKind("resolution") = {}
      /\ OfKind("flush") \intersect OfKind("resolution") = {}
  BY DEF OfKind
<1>8. ASSUME NEW i \in 1 .. h, Last(i, h)
      PROVE  resolution' = commands[sent[i].id].bounds
  <2>1. CASE i = h
    <3>1. Current \in OfKind("resolution")
      BY <1>1, <1>8, <2>1
    <3> QED BY <1>1, <1>7, <2>1, <3>1, HandleCases
  <2>2. CASE i \in 1 .. handled
    <3>1. h \in i + 1 .. h
      BY <1>1, <2>2
    <3>2. Current \notin OfKind("resolution")
      BY <1>1, <1>8, <3>1
    <3>3. \A j \in i + 1 .. handled : j \in i + 1 .. h
      BY <1>1, <2>2
    <3>4. Last(i, handled)
      BY <1>8, <3>3
    <3>5. resolution' = resolution
      BY <3>2, HandleCases
    <3> QED BY <1>3, <2>2, <3>4, <3>5
  <2>3. i = h \/ i \in 1 .. handled
    BY <1>1
  <2> QED BY <2>1, <2>2, <2>3
<1>9. OnScreen' \subseteq Handled'
  BY PaintedAfterHandling
<1>10. \A i \in 1 .. handled' :
          /\ sent'[i].id \in OfKind("resolution")'
          /\ \A j \in i + 1 .. handled' :
                sent'[j].id \notin OfKind("resolution")'
          => resolution' = commands'[sent'[i].id].bounds
  BY <1>1, <1>2, <1>8
<1> QED BY <1>2, <1>4, <1>9, <1>10 DEF RenderFollows, WaitingQuads

LEMMA ScaledAfterHandling ==
    ASSUME QueueInv, FramesInv, HandleCommand
    PROVE  QuadsScaled'
<1>1. /\ UNCHANGED <<sent, commands>> /\ Current \in Accepted
      /\ handled + 1 \in 1 .. Len(sent) /\ Current = sent[handled + 1].id
      /\ \A a \in Accepted : a < Current <=> a \in Handled
  BY NextCommand
<1>2. Accepted' = Accepted /\ \A k : OfKind(k)' = OfKind(k)
  BY <1>1 DEF Accepted, OfKind
<1>3. \A c, d : Announces(d, c)' = Announces(d, c)
  BY <1>2 DEF Announces
<1>4. SUFFICES ASSUME NEW q \in quads', NEW d \in DOMAIN commands,
                      Announces(d, q.command), d \in Accepted
               PROVE  q.scale = commands[q.command].bounds
  BY <1>1, <1>2, <1>3 DEF QuadsScaled
<1>5. CASE q \in quads
  BY <1>4, <1>5 DEF FramesInv, QuadsScaled
<1>6. CASE /\ Current \in OfKind("rectangle")
           /\ q = [command |-> Current, scale |-> resolution]
  <2>1. q.command = Current /\ q.scale = resolution
    BY <1>6
  <2>2. /\ d \in OfKind("resolution") /\ d < Current
        /\ \A o \in OfKind("resolution") : o < Current => o <= d
    BY <1>4, <2>1 DEF Announces
  <2>3. d \in Handled
    BY <1>1, <1>4, <2>2
  <2>4. PICK i \in 1 .. handled : sent[i].id = d
    BY <2>3 DEF Handled
  <2>5. handled \in Nat /\ handled <= Len(sent) /\ Len(sent) \in Nat
        /\ attempts \in Nat
        /\ \A j \in 1 .. Len(sent) : sent[j].id \in 1 .. attempts
    BY InvFacts
  <2>6. ASSUME NEW j \in i + 1 .. handled
        PROVE  sent[j].id \notin OfKind("resolution")
    <3>1. /\ j \in 1 .. Len(sent) /\ i \in 1 .. Len(sent)
          /\ i < j /\ j < handled + 1
      BY <2>5
    <3>2. d < sent[j].id /\ sent[j].id < Current
      BY <1>1, <2>4, <3>1 DEF FramesInv, IdsRise
    <3>3. ~(sent[j].id <= d)
      BY <2>4, <2>5, <3>1, <3>2
    <3> QED BY <2>2, <3>2, <3>3
  <2>7. resolution = commands[d].bounds
    BY <2>2, <2>4, <2>6 DEF FramesInv, RenderFollows, WaitingQuads
  <2>8. PICK e \in DOMAIN commands :
            Announces(e, Current)
            /\ commands[e].bounds = commands[Current].bounds
    BY <1>6 DEF FramesInv, BoundsAnnounced
  <2>9. e = d
    BY <1>4, <2>1, <2>8, AnnouncesOnce
  <2> QED BY <2>1, <2>7, <2>8, <2>9
<1>7. \/ q \in quads
      \/ /\ Current \in OfKind("rectangle")
         /\ q = [command |-> Current, scale |-> resolution]
  <2>1. PICK new : new = [command |-> Current, scale |-> resolution]
    OBVIOUS
  <2>2. quads' = quads \/ quads' = {}
        \/ (Current \in OfKind("rectangle") /\ PushQuad(Current))
    BY HandleCases
  <2>3. ASSUME PushQuad(Current)
        PROVE  quads' = quads \union {new} \/ quads' = {new}
    BY <2>1, <2>3, PushCases
  <2> QED BY <2>1, <2>2, <2>3
<1> QED BY <1>4, <1>5, <1>6, <1>7

(* The rectangles that wait, and one that joins them, are of one picture.  *)
LEMMA OnePicture ==
    ASSUME QueueInv, FramesInv, HandleCommand
    PROVE  LET S == IF Current \in OfKind("rectangle")
                    THEN Waiting \union {Current} ELSE Waiting
           IN  \A c, d \in S : d \in PictureOf(c)
<1>. DEFINE S == IF Current \in OfKind("rectangle")
                 THEN Waiting \union {Current} ELSE Waiting
<1>1. /\ Current \in Accepted /\ Handled \subseteq Accepted
      /\ \A a \in Accepted : a < Current <=> a \in Handled
      /\ Accepted \subseteq 1 .. attempts /\ attempts \in Nat
  BY NextCommand, QuadsHandled, InvFacts
<1>2. \A a \in Accepted : a \in Nat
  BY <1>1
<1>3. ASSUME NEW c \in S
      PROVE  /\ c \in OfKind("rectangle") /\ c \in Accepted /\ c \in Nat
             /\ \A f \in OfKind("flush") \intersect Accepted :
                   IF f \in Handled THEN f < c ELSE c <= f
  <2>0. c \in Waiting \/ (c = Current /\ Current \in OfKind("rectangle"))
    OBVIOUS
  <2>1. /\ c \in OfKind("rectangle") /\ c \in Accepted /\ c \in Nat
        /\ c <= Current
    <3>1. CASE c = Current /\ Current \in OfKind("rectangle")
      BY <1>1, <1>2, <3>1
    <3>2. CASE c \in Waiting
      <4>1. c \in OfKind("rectangle") /\ c \in Handled
        BY <3>2 DEF Waiting
      <4>2. c < Current /\ Current \in Nat
        BY <1>1, <1>2, <3>2, WaitingAfterHandling
      <4> QED BY <1>1, <1>2, <4>1, <4>2
    <3> QED BY <2>0, <3>1, <3>2
  <2>2. ASSUME NEW f \in OfKind("flush") \intersect Accepted
        PROVE  IF f \in Handled THEN f < c ELSE c <= f
    <3>1. CASE f \in Handled
      BY <1>1, <3>1 DEF Waiting
    <3>2. CASE f \notin Handled
      BY <1>1, <1>2, <2>1, <3>2
    <3> QED BY <3>1, <3>2
  <2> QED BY <2>1, <2>2
<1>4. ASSUME NEW c \in S, NEW d \in S PROVE d \in PictureOf(c)
  <2>1. ASSUME NEW f \in OfKind("flush") \intersect Accepted
        PROVE  ~(c < f /\ f < d) /\ ~(d < f /\ f < c)
    <3>1. c \in Nat /\ d \in Nat /\ f \in Nat
      BY <1>2, <1>3
    <3>2. IF f \in Handled THEN f < c /\ f < d ELSE c <= f /\ d <= f
      BY <1>3
    <3> QED BY <3>1, <3>2
  <2> QED BY <1>3, <2>1 DEF PictureOf
<1> QED BY <1>4

(* What is drawn is a picture or a part of a torn one.                     *)
LEMMA DrawnAfterHandling ==
    ASSUME QueueInv, FramesInv, HandleCommand, quads # {},
           screen' = Flushed, NEW Q, Q = CommandsOf(quads)
    PROVE  WholeOrTorn(Q)'
<1>. PICK W, C : W = Waiting /\ C = Current
  OBVIOUS
<1>1. /\ UNCHANGED <<sent, commands>> /\ C \in Accepted
      /\ \A a \in Accepted : a < C <=> a \in Handled
      /\ Handled \subseteq Accepted /\ Accepted \subseteq 1 .. attempts
      /\ attempts \in Nat
  BY NextCommand, QuadsHandled, InvFacts
<1>2. Accepted' = Accepted /\ \A k : OfKind(k)' = OfKind(k)
  BY <1>1 DEF Accepted, OfKind
<1>3. \A c : Picture(c)' = Picture(c) /\ PictureOf(c)' = PictureOf(c)
  BY <1>2 DEF Picture, PictureOf
<1>4. /\ Q \subseteq W /\ (Q = W \/ Torn(W)) /\ Q # {}
  BY DEF FramesInv, RenderFollows, WaitingQuads, CommandsOf
<1>. PICK c \in Q : TRUE
  BY <1>4
<1>5. PICK P : P = PictureOf(c)
  OBVIOUS
<1>6. IsFiniteSet(P) /\ Q \subseteq P /\ W \subseteq P
  BY <1>4, <1>5, OnePicture, PictureFinite
<1>7. SUFFICES Torn(P)'
               \/ \E f \in OfKind("flush") \intersect Accepted : Q = Picture(f)
  <2>1. CASE Torn(P)'
    <3>1. PictureOf(c)' = P
      BY <1>3, <1>5
    <3>2. Torn(PictureOf(c))'
      BY <2>1, <3>1 DEF Torn
    <3> QED BY <1>6, <3>1, <3>2 DEF WholeOrTorn
  <2>2. CASE \E f \in OfKind("flush") \intersect Accepted : Q = Picture(f)
    BY <1>2, <1>3, <2>2 DEF WholeOrTorn
  <2> QED BY <1>7, <2>1, <2>2
<1>8. CASE Current \in OfKind("flush") /\ UNCHANGED changes
  <2>1. CASE Torn(W)
    BY <1>6, <1>8, <2>1, TornGrows
  <2>2. CASE Q = W
    <3>1. ASSUME NEW a \in OfKind("rectangle"), NEW f \in OfKind("flush"),
                 a \in Accepted, f \in Accepted
          PROVE  f < a <=> ~(a < f)
      <4>1. a # f
        BY DEF OfKind
      <4>2. a \in Int /\ f \in Int
        BY <1>1, <3>1
      <4> QED BY <4>1, <4>2
    <3>2. ASSUME NEW a PROVE a \in Picture(C) <=> a \in W
      <4>1. a \in Picture(C) <=>
               /\ a \in OfKind("rectangle") \intersect Handled
               /\ \A f \in OfKind("flush") \intersect Accepted :
                     ~(a < f /\ f < C)
        BY <1>1 DEF Picture
      <4>2. a \in OfKind("rectangle") \intersect Handled =>
               ((\A f \in OfKind("flush") \intersect Accepted :
                    ~(a < f /\ f < C))
                <=> \A f \in OfKind("flush") \intersect Handled : f < a)
        BY <1>1, <3>1
      <4> QED BY <4>1, <4>2 DEF Waiting
    <3>3. Q = Picture(C)
      BY <2>2, <3>2
    <3> QED BY <1>1, <1>8, <3>3
  <2> QED BY <1>4, <2>1, <2>2
<1>9. CASE /\ Current \in OfKind("rectangle") /\ PushQuad(Current)
           /\ Current \in changes' \/ Cardinality(quads) = QuadsMax
  <2>1. PICK T : T = W \union {C}
    OBVIOUS
  <2>2. Torn(T)'
    BY <1>4, <1>9, <2>1, CutTears
  <2>3. T \subseteq P
    BY <1>4, <1>5, <1>9, <2>1, OnePicture
  <2>4. Torn(P)'
    <3>1. CASE Cardinality(T) > QuadsMax
      <4>1. Torn(T)
        BY <3>1 DEF Torn
      <4>2. changes \subseteq changes'
        BY <1>9, PushCases
      <4> QED BY <1>6, <2>3, <4>1, <4>2, TornGrows
    <3>2. CASE \E a, b \in T : a < b /\ b \in changes'
      BY <2>3, <3>2 DEF Torn
    <3> QED BY <2>2, <3>1, <3>2 DEF Torn
  <2> QED BY <2>4
<1>10. CASE Current \in OfKind("resolution") /\ UNCHANGED screen
  BY <1>10, FlushPaints DEF FramesInv, FrameTypes, Flushed
<1>11. CASE Current \in OfKind("rectangle") /\ UNCHANGED screen
  BY <1>11, FlushPaints DEF FramesInv, FrameTypes, Flushed
<1> QED BY <1>8, <1>9, <1>10, <1>11, HandleCases, PushCases

LEMMA OrderAfterHandling ==
    ASSUME QueueInv, FramesInv, HandleCommand
    PROVE  InOrder'
<1>. PICK C, Q, O, R : /\ C = Current /\ Q = CommandsOf(quads)
                       /\ O = OnScreen
                       /\ R = OfKind("rectangle") \intersect Handled
  OBVIOUS
<1>. PICK new : new = [command |-> Current, scale |-> resolution]
  OBVIOUS
<1>1. /\ Handled' = Handled \union {C} /\ C \in Accepted
      /\ \A a \in Accepted : a < C <=> a \in Handled
      /\ Handled \subseteq Accepted /\ Accepted \subseteq 1 .. attempts
      /\ attempts \in Nat /\ UNCHANGED <<commands, cleared>>
  BY NextCommand, QuadsHandled, InvFacts
<1>2. \A k : OfKind(k)' = OfKind(k)
  BY <1>1 DEF OfKind
<1>3. /\ \A a \in Handled : a < C /\ ~(C < a)
      /\ ~(C < C)
  BY <1>1
<1>4. O \subseteq Handled /\ Q \subseteq Handled
  BY DEF FramesInv, RenderFollows, WaitingQuads, Waiting
<1>5. /\ \A i, j \in DOMAIN screen : i < j =>
            \A p \in screen[i], q \in screen[j] : p.command < q.command
      /\ \A c \in O : \A q \in quads : c < q.command
      /\ \A c \in O \union Q : \A d \in R : c < d => d \in O \union Q
      /\ R \subseteq O \union Q \union cleared
  BY DEF FramesInv, WholePictures, InOrder
<1>6. new.command = C
  OBVIOUS
<1>7. OfKind("rectangle")' \intersect Handled' =
         IF C \in OfKind("rectangle") THEN R \union {C} ELSE R
  BY <1>1, <1>2
<1>8. CASE C \notin OfKind("rectangle") /\ UNCHANGED <<quads, screen>>
  BY <1>1, <1>7, <1>8, OrderStays DEF FramesInv, WholePictures
<1>9. CASE /\ C \in OfKind("rectangle") /\ screen' = screen
           /\ quads' = quads \union {new}
  <2>1. OnScreen' = O /\ CommandsOf(quads)' = Q \union {C}
    BY <1>6, <1>9 DEF OnScreen, CommandsOf
  <2>2. \A c \in O : \A q \in quads' : c < q.command
    BY <1>3, <1>4, <1>5, <1>6, <1>9
  <2>3. \A c \in O \union (Q \union {C}) : \A d \in R \union {C} :
           c < d => d \in O \union (Q \union {C})
    BY <1>3, <1>4, <1>5
  <2>4. OfKind("rectangle")' \intersect Handled'
           \subseteq OnScreen' \union CommandsOf(quads)' \union cleared'
    BY <1>1, <1>5, <1>7, <2>1
  <2>5. \A c \in OnScreen' \union CommandsOf(quads)' :
           \A d \in OfKind("rectangle")' \intersect Handled' :
               c < d => d \in OnScreen' \union CommandsOf(quads)'
    BY <1>7, <1>9, <2>1, <2>3
  <2> QED BY <1>5, <1>9, <2>1, <2>2, <2>4, <2>5 DEF InOrder
<1>10. ASSUME screen' = Flushed
       PROVE  /\ OnScreen' = O \union Q
              /\ \A i, j \in DOMAIN screen' : i < j =>
                    \A p \in screen'[i], q \in screen'[j] :
                       p.command < q.command
  <2>1. /\ OnScreen' = O \union Q
        /\ \A i \in DOMAIN screen' :
              \/ i \in DOMAIN screen /\ screen'[i] = screen[i]
              \/ i = Len(screen) + 1 /\ screen'[i] = quads
        /\ DOMAIN screen = 1 .. Len(screen) /\ Len(screen) \in Nat
    BY <1>10, FlushPaints
  <2>2. ASSUME NEW i \in DOMAIN screen', NEW j \in DOMAIN screen', i < j,
               NEW p \in screen'[i], NEW q \in screen'[j]
        PROVE  p.command < q.command
    <3>1. i \in DOMAIN screen /\ p \in screen[i]
      BY <2>1, <2>2
    <3>2. CASE j \in DOMAIN screen /\ screen'[j] = screen[j]
      BY <1>5, <2>2, <3>1, <3>2
    <3>3. CASE screen'[j] = quads
      <4>1. p.command \in O
        BY <3>1 DEF OnScreen, CommandsOf
      <4> QED BY <1>5, <2>2, <3>3, <4>1
    <3> QED BY <2>1, <3>2, <3>3
  <2> QED BY <2>1, <2>2
<1>11. CASE /\ C \in OfKind("rectangle") /\ screen' = Flushed
            /\ quads' = {new}
  <2>1. CommandsOf(quads)' = {C}
    BY <1>6, <1>11 DEF CommandsOf
  <2>2. \A c \in O \union Q : \A q \in quads' : c < q.command
    BY <1>3, <1>4, <1>6, <1>11
  <2>3. \A c \in (O \union Q) \union {C} : \A d \in R \union {C} :
           c < d => d \in (O \union Q) \union {C}
    BY <1>3, <1>4, <1>5
  <2>4. OnScreen' = O \union Q
    BY <1>10, <1>11
  <2>5. OfKind("rectangle")' \intersect Handled'
           \subseteq OnScreen' \union CommandsOf(quads)' \union cleared'
    BY <1>1, <1>5, <1>7, <2>1, <2>4
  <2>6. \A c \in OnScreen' \union CommandsOf(quads)' :
           \A d \in OfKind("rectangle")' \intersect Handled' :
               c < d => d \in OnScreen' \union CommandsOf(quads)'
    BY <1>7, <1>11, <2>1, <2>3, <2>4
  <2> QED BY <1>10, <1>11, <2>2, <2>4, <2>5, <2>6 DEF InOrder
<1>12. CASE /\ C \notin OfKind("rectangle") /\ screen' = Flushed
            /\ quads' = {}
  <2>1. CommandsOf(quads)' = {}
    BY <1>12 DEF CommandsOf
  <2> QED BY <1>1, <1>5, <1>7, <1>10, <1>12, <2>1 DEF InOrder
<1>13. \/ C \in OfKind("rectangle") /\ PushQuad(Current)
       \/ C \notin OfKind("rectangle") /\ UNCHANGED <<quads, screen>>
       \/ C \notin OfKind("rectangle") /\ screen' = Flushed /\ quads' = {}
  BY HandleCases DEF OfKind
<1> QED BY <1>8, <1>9, <1>11, <1>12, <1>13, PushCases

LEMMA PicturesAfterHandling ==
    ASSUME QueueInv, FramesInv, HandleCommand
    PROVE  WholePictures'
<1>1. UNCHANGED <<sent, commands>>
  BY NextCommand
<1>2. Accepted' = Accepted /\ \A k : OfKind(k)' = OfKind(k)
  BY <1>1 DEF Accepted, OfKind
<1>3. /\ \A c : Picture(c)' = Picture(c) /\ PictureOf(c)' = PictureOf(c)
      /\ \A c : IsFiniteSet(PictureOf(c)')
  <2>1. \A c : Picture(c)' = Picture(c) /\ PictureOf(c)' = PictureOf(c)
    BY <1>2 DEF Picture, PictureOf
  <2> QED BY <2>1, PictureFinite
<1>4. changes \subseteq changes' /\ (screen' = screen \/ screen' = Flushed)
  BY HandleCases, PushCases
<1>5. ASSUME NEW i \in DOMAIN screen'
      PROVE  WholeOrTorn(CommandsOf(screen[i]))'
  <2>1. PICK D : D = CommandsOf(screen[i])'
    OBVIOUS
  <2>2. \/ i \in DOMAIN screen /\ D = CommandsOf(screen[i])
        \/ screen' = Flushed /\ D = CommandsOf(quads) /\ quads # {}
    BY <1>4, <2>1, FlushPaints DEF CommandsOf
  <2>3. CASE i \in DOMAIN screen /\ D = CommandsOf(screen[i])
    <3>1. WholeOrTorn(D)
      BY <2>3 DEF FramesInv, WholePictures, DrawnWhole
    <3>2. WholeOrTorn(D)'
      BY <1>2, <1>3, <1>4, <3>1, DrawnStays
    <3> QED BY <2>1, <3>2 DEF WholeOrTorn
  <2>4. CASE screen' = Flushed /\ D = CommandsOf(quads) /\ quads # {}
    <3>1. WholeOrTorn(D)'
      BY <2>4, DrawnAfterHandling
    <3> QED BY <2>1, <3>1 DEF WholeOrTorn
  <2> QED BY <2>2, <2>3, <2>4
<1>6. DrawnWhole'
  BY <1>5 DEF DrawnWhole
<1> QED BY <1>6, OrderAfterHandling DEF WholePictures

(* If nothing failed so far, what is on the screen or waits is what was    *)
(* handled of the frame.                                                   *)
LEMMA ShownAfterHandling ==
    ASSUME QueueInv, FramesInv, HandleCommand
    PROVE  FrameByFrame'
<1>. PICK C, Q, O, h : /\ C = Current /\ Q = CommandsOf(quads)
                       /\ O = OnScreen /\ h = handled + 1
  OBVIOUS
<1>. PICK new : new = [command |-> Current, scale |-> resolution]
  OBVIOUS
<1>1. /\ h \in 1 .. Len(sent) /\ C = sent[h].id /\ handled' = h
      /\ Handled' = Handled \union {C}
      /\ UNCHANGED <<sent, commands, attempts, wpc, failures, frame>>
      /\ wpc = "idle" /\ pc = "reading" /\ pc' = "read"
      /\ handled \in Nat /\ Len(sent) \in Nat
  BY NextCommand, InvFacts
<1>2. Accepted' = Accepted /\ \A k : OfKind(k)' = OfKind(k)
  BY <1>1 DEF Accepted, OfKind
<1>3. \A c : Lost(c)' = Lost(c)
  BY <1>1, <1>2 DEF Lost
<1>4. SUFFICES ASSUME failures = 0, \A c \in DOMAIN commands : ~Lost(c)
               PROVE  /\ \A i \in h + 1 .. Len(sent) :
                            commands[sent[i].id].frame = frame
                      /\ OnScreen' \union CommandsOf(quads)' =
                            {c \in OfKind("rectangle") \intersect Handled' :
                                commands[c].frame = frame}
  BY <1>1, <1>2, <1>3 DEF FrameByFrame
<1>5. /\ \A i \in h .. Len(sent) : commands[sent[i].id].frame = frame
      /\ O \union Q = {c \in OfKind("rectangle") \intersect Handled :
                          commands[c].frame = frame}
  BY <1>1, <1>4 DEF FramesInv, FrameByFrame
<1>6. /\ commands[C].frame = frame
      /\ \A i \in h + 1 .. Len(sent) : commands[sent[i].id].frame = frame
  BY <1>1, <1>5
<1>7. OnScreen' \union CommandsOf(quads)' =
         IF C \in OfKind("rectangle") THEN (O \union Q) \union {C}
         ELSE O \union Q
  <2>1. new.command = C
    OBVIOUS
  <2>2. /\ screen' = screen => OnScreen' = O
        /\ screen' = Flushed => OnScreen' = O \union Q
    BY FlushPaints DEF OnScreen, CommandsOf
  <2>3. /\ quads' = quads => CommandsOf(quads)' = Q
        /\ quads' = {} => CommandsOf(quads)' = {}
        /\ quads' = {new} => CommandsOf(quads)' = {C}
        /\ quads' = quads \union {new} => CommandsOf(quads)' = Q \union {C}
    BY <2>1 DEF CommandsOf
  <2>4. \/ /\ C \notin OfKind("rectangle")
           /\ \/ quads' = quads /\ screen' = screen
              \/ quads' = {} /\ screen' = Flushed
        \/ /\ C \in OfKind("rectangle")
           /\ \/ quads' = quads \union {new} /\ screen' = screen
              \/ quads' = {new} /\ screen' = Flushed
    <3>1. \/ C \in OfKind("rectangle") /\ PushQuad(Current)
          \/ C \notin OfKind("rectangle") /\ UNCHANGED <<quads, screen>>
          \/ C \notin OfKind("rectangle") /\ screen' = Flushed /\ quads' = {}
      BY HandleCases DEF OfKind
    <3> QED BY <3>1, PushCases
  <2>5. CASE C \notin OfKind("rectangle")
    BY <2>2, <2>3, <2>4, <2>5
  <2>6. CASE C \in OfKind("rectangle")
    BY <2>2, <2>3, <2>4, <2>6
  <2> QED BY <2>5, <2>6
<1> QED BY <1>1, <1>5, <1>6, <1>7

LEMMA HandleCommandKeeps ==
    ASSUME QueueInv, FramesInv, HandleCommand
    PROVE  FramesInv'
<1>1. /\ handled + 1 = Len(taken) /\ handled' = handled + 1
      /\ Current \in DOMAIN commands /\ Current \in Nat /\ handled \in Nat
      /\ wpc = "idle" /\ rpc = "idle" /\ pc = "reading" /\ pc' = "read"
      /\ UNCHANGED <<sent, taken, attempts, wmsg, wpc, rpc, failures,
                     window, input, commands, frame, arena>>
  BY NextCommand, InvFacts
<1>2. FrameTypes'
  <2>1. commands[Current] \in Command
    BY <1>1, InvFacts
  <2>2. commands[Current].bounds \in Nat
    BY <2>1 DEF Command
  <2>3. /\ resolution \in Nat /\ quads \in SUBSET Quad
        /\ screen \in Seq(SUBSET Quad)
    BY DEF FramesInv, FrameTypes
  <2>4. [command |-> Current, scale |-> resolution] \in Quad
    BY <1>1, <2>3 DEF Quad
  <2>5. /\ resolution' \in Nat /\ quads' \in SUBSET Quad
        /\ screen' \in Seq(SUBSET Quad)
    <3>1. Flushed \in Seq(SUBSET Quad)
      BY <2>3 DEF Flushed
    <3> QED BY <2>2, <2>3, <2>4, <3>1, HandleCases, PushCases
  <2> QED BY <1>1, <2>5 DEF FramesInv, FrameTypes
<1>3. Turns' /\ LeftForLater' /\ HandledEarlier'
  BY <1>1 DEF Turns, LeftForLater, Stopped, HandledEarlier
<1>4. \A k : OfKind(k)' = OfKind(k)
  BY <1>1 DEF OfKind
<1>5. \A c, d : Announces(d, c)' = Announces(d, c)
  BY <1>4 DEF Announces
<1>6. BoundsAnnounced' /\ FlushEndsFrame'
  <2>1. BoundsAnnounced'
    BY <1>1, <1>4, <1>5 DEF FramesInv, BoundsAnnounced
  <2>2. FlushEndsFrame'
    BY <1>1, <1>4 DEF FramesInv, FlushEndsFrame
  <2> QED BY <2>1, <2>2
<1>7. IdsRise' /\ FramesRise'
  BY <1>1, CommandsUnchanged DEF FramesInv, FramesRise
<1> QED BY <1>2, <1>3, <1>6, <1>7, FollowsAfterHandling, ScaledAfterHandling,
           PicturesAfterHandling, ShownAfterHandling DEF FramesInv
-----------------------------------------------------------------------------
(* The theorems                                                            *)

LEMMA InitFramesInv == FramesInit => FramesInv
<1>. SUFFICES ASSUME FramesInit PROVE FramesInv
  OBVIOUS
<1>1. /\ pc = "loop" /\ window \in Nat \ {0} /\ input = 0 /\ frame = 0
      /\ commands = <<>> /\ arena = 0 /\ handled = 0 /\ resolution = 0
      /\ quads = {} /\ screen = <<>> /\ wpc = "idle" /\ rpc = "idle"
      /\ attempts = 0 /\ sent = <<>> /\ taken = <<>> /\ failures = 0
  BY FramesAssumption DEF FramesInit, Init
<1>2. /\ \A k : OfKind(k) = {}
      /\ Len(sent) = 0 /\ Len(taken) = 0 /\ Len(commands) = 0
      /\ DOMAIN commands = {}
  BY <1>1 DEF OfKind
<1>3. FrameTypes
  BY <1>1 DEF FrameTypes
<1>4. Turns /\ IdsRise
  BY <1>1, <1>2 DEF Turns, IdsRise
<1>5. BoundsAnnounced /\ FlushEndsFrame /\ FramesRise /\ HandledEarlier
  BY <1>1, <1>2 DEF BoundsAnnounced, FlushEndsFrame, FramesRise, HandledEarlier
<1>6. RenderFollows /\ QuadsScaled /\ WholePictures
  <2>1. OnScreen = {} /\ CommandsOf(quads) = {} /\ Waiting = {}
    BY <1>1, <1>2 DEF OnScreen, CommandsOf, Waiting
  <2>2. RenderFollows
    BY <1>1, <1>2, <2>1, FS_EmptySet DEF RenderFollows, WaitingQuads
  <2>3. DrawnWhole
    BY <1>1 DEF DrawnWhole
  <2>4. InOrder
    BY <1>1, <1>2, <2>1 DEF InOrder
  <2> QED BY <1>1, <2>2, <2>3, <2>4 DEF QuadsScaled, WholePictures
<1>7. LeftForLater /\ FrameByFrame
  BY <1>1, <1>2 DEF LeftForLater, Stopped, FrameByFrame
<1> QED BY <1>3, <1>4, <1>5, <1>6, <1>7 DEF FramesInv

LEMMA FramesInvInductive ==
    ASSUME QueueInv, FramesInv, [FramesNext]_allVars
    PROVE  FramesInv'
<1>1. CASE MainLoop
  BY <1>1, LoopKeeps
<1>2. CASE LayoutFrame
  BY <1>2, BeginLayoutKeeps, LayoutFrameKeeps, SendStepKeeps DEF LayoutFrame
<1>3. CASE RenderFrame
  BY <1>3, BeginRenderKeeps, CallTryReadKeeps, ReadStepKeeps,
     HandleCommandKeeps, EndRenderKeeps DEF RenderFrame
<1>4. CASE UNCHANGED allVars
  <2>1. UNCHANGED <<sent, taken, attempts, wpc, wmsg, rpc, failures, pc, window,
                    input, commands, frame, arena, handled, resolution, changes,
                    quads, screen, cleared>>
    BY <1>4 DEF allVars, vars, frameVars, windowVars, layoutVars, renderVars
  <2>2. \A k : OfKind(k)' = OfKind(k)
    BY <2>1 DEF OfKind
  <2>3. \A c, d : Announces(d, c)' = Announces(d, c)
    BY <2>2 DEF Announces
  <2>4. FrameTypes' /\ Turns' /\ LeftForLater' /\ HandledEarlier'
    BY <2>1 DEF FramesInv, FrameTypes, Turns, LeftForLater, Stopped, Unread,
                HandledEarlier
  <2>5. BoundsAnnounced'
    BY <2>1, <2>2, <2>3 DEF FramesInv, BoundsAnnounced
  <2>6. FlushEndsFrame'
    BY <2>1, <2>2 DEF FramesInv, FlushEndsFrame
  <2>7. IdsRise' /\ FramesRise'
    BY <2>1, CommandsUnchanged DEF FramesInv, FramesRise
  <2>8. RenderFollows' /\ QuadsScaled' /\ WholePictures'
    BY <2>1, PictureUnchanged
  <2>9. FrameByFrame'
    BY <2>1, SameScreen DEF FramesInv, FrameByFrame, Lost, Shown
  <2> QED BY <2>4, <2>5, <2>6, <2>7, <2>8, <2>9 DEF FramesInv
<1> QED BY <1>1, <1>2, <1>3, <1>4 DEF FramesNext

(* layout_frame, the queue and render_frame keep their invariant.          *)
THEOREM FramesInvariant == FramesSpec => [](QueueInv /\ FramesInv)
<1>1. FramesSpec => []QueueInv
  BY FramesUseQueue, QueueInvariant, PTL
<1>2. QueueInv /\ FramesInv /\ [FramesNext]_allVars => FramesInv'
  BY FramesInvInductive
<1> QED BY <1>1, <1>2, InitFramesInv, PTL DEF FramesSpec

(* A rectangle is scaled by the bounds of its own frame, however late it   *)
(* is drawn, unless the resolution command before it was refused.          *)
THEOREM FramesRightScale == FramesSpec => []RightScale
<1>1. QueueInv /\ FramesInv => RightScale
  <2>1. SUFFICES ASSUME QueueInv, FramesInv, NEW q \in quads
                 PROVE  \/ q.scale = commands[q.command].bounds
                        \/ Latest("resolution", q.command) \in Refused
    BY DEF RightScale
  <2>2. q.command \in OfKind("rectangle")
    BY <2>1, QuadsHandled
  <2>3. PICK d \in DOMAIN commands : Announces(d, q.command)
    BY <2>1, <2>2 DEF FramesInv, BoundsAnnounced
  <2>. DEFINE earlier == {e \in OfKind("resolution") : e < q.command}
              latest  == Latest("resolution", q.command)
  <2>4. d \in earlier /\ \A other \in earlier : other <= d
    BY <2>3 DEF Announces
  <2>5. latest \in earlier /\ \A other \in earlier : other <= latest
    BY <2>4 DEF Latest
  <2>6. Announces(latest, q.command)
    BY <2>5 DEF Announces
  <2>7. latest = d
    BY <2>1, <2>3, <2>6, AnnouncesOnce
  <2> QED BY <2>1, <2>3, <2>7 DEF FramesInv, QuadsScaled, Refused
<1> QED BY <1>1, FramesInvariant, PTL

(* What is drawn at once is what layout_frame sent between two flush       *)
(* commands that the queue accepted, even if it was read in more than one  *)
(* frame; a picture that exceeds the vertex buffer or that the shader      *)
(* changed in is drawn in parts, in order and with nothing left out.       *)
THEOREM FramesWholePictures == FramesSpec => []WholePictures
<1>1. FramesInv => WholePictures
  BY DEF FramesInv
<1> QED BY <1>1, FramesInvariant, PTL

(* render_frame stops before a command only for want of room in the        *)
(* temporary arena.                                                        *)
THEOREM FramesLeaveWhenFull == FramesSpec => []LeftOnlyWhenFull
<1>1. FramesInv => LeftOnlyWhenFull
  BY DEF FramesInv, LeftForLater, Stopped, LeftOnlyWhenFull
<1> QED BY <1>1, FramesInvariant, PTL

(* If nothing was left behind or refused, the swap shows the frame that    *)
(* was just laid out and nothing else, in one part or in several.          *)
THEOREM FramesShowThisFrame == FramesSpec => []ShowsThisFrame
<1>1. QueueInv /\ FramesInv => ShowsThisFrame
  <2>1. SUFFICES ASSUME QueueInv, FramesInv, pc = "swap", failures = 0,
                        Refused = {}
                 PROVE  Shown
    BY DEF ShowsThisFrame, Shown
  <2>2. \A c \in DOMAIN commands : ~Lost(c)
    BY <2>1 DEF Refused, Lost
  <2> QED BY <2>1, <2>2 DEF FramesInv, FrameByFrame
<1> QED BY <1>1, FramesInvariant, PTL
=============================================================================
