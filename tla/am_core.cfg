\* Two clips that may share a slot of the table, and blocks that share slots.
SPECIFICATION Spec
CONSTANTS
    Capacity = 7
    Mail <- MCMail
    SizeOf <- MCSizeOf
    Clips = {kick, snare}
    ClipSlots = {s1, s2}
    BlockSlots = {0, 1}
    BlockSlot <- MCBlockSlot
    FramesPerBlock = 2
    Frames <- MCFrames
    HistorySize = 2
    ArenaFinds = 2
    MaxOffset = 9
INVARIANTS CountsFit SleepsOnOldMail BlocksMatch PrefetchedComes OpenedOnce NotReadyYet
PROPERTIES ImplementsPostBox
SYMMETRY Symmetry
\* The callback stops asking at the bound, and the loader sleeps.
CHECK_DEADLOCK FALSE
