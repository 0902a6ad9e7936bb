\* Frames without end, each of up to four boxes: pools of every kind run full.
SPECIFICATION Spec
CONSTANTS
    RootMax = 3
    ParentMax = 3
    ElementMax = 5
    ChildPoolMax = 2
    Width = 3
    Height = 2
    Lengths = {1}
    Mice <- MCMice
    MaxBegins = 5
    MaxStyles = 1
    MaxRefused = 1
INVARIANTS TypeOK BoxesMatch EndNeverTraps RootsDrawn SiblingsApart PressedOnce
PROPERTIES PressEdge
\* A VERIFY of the child lists ends the process.
CHECK_DEADLOCK FALSE
