\* One frame of one clip, asked for again and again.
SPECIFICATION FairSpec
CONSTANTS
    Capacity = 20
    Mail <- MCMail
    SizeOf <- MCSizeOf
    Clips = {kick}
    ClipSlots = {s1}
    BlockSlots = {0, 1}
    BlockSlot <- MCBlockSlot
    FramesPerBlock = 2
    Frames <- OneFrame
    HistorySize = 2
    ArenaFinds = 2
    MaxOffset = 40
PROPERTIES EventuallyHeard
