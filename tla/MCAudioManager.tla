---------------------------- MODULE MCAudioManager ----------------------------
(***************************************************************************)
(* A small audio manager: two clips, blocks of two frames, and two blocks  *)
(* for the three of each clip that are asked for.                          *)
(***************************************************************************)
EXTENDS AudioManager, TLC

MCBlockSlot(id) == id.num % 2

MCSizeOf(m) == IF m.kind = "open" THEN 2 ELSE 3

MCMail ==
    {Open(c) : c \in Clips} \cup
    [kind : {"prepare"}, id : [clip : Clips, num : 0 .. 3], path : Clips \cup {None}]

MCFrames == {-1, 0, 3}

OneFrame == {0}

Symmetry == Permutations(Clips) \cup Permutations(ClipSlots)
=============================================================================
