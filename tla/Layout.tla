-------------------------------- MODULE Layout --------------------------------
(***************************************************************************)
(* LibLayout2 (Libraries/LibLayout2/Layout.cpp): the user interface is     *)
(* built anew in every frame by nested pairs of box_begin and box_end.     *)
(* Boxes go into fixed pools, the open ones onto a parent stack, and       *)
(* current_element is the box that the setters style.  The box_end of a    *)
(* root box draws its tree: it finds the place of every box, lets the      *)
(* mouse act on it and sends a rectangle to the renderer (module Frames).  *)
(*                                                                         *)
(* The program that builds the interface is any that calls box_end once    *)
(* for every box_begin that returned true, innermost first, as             *)
(* MusicStudio/UI/UI.cpp does with defer.  Lengths are whole numbers.      *)
(***************************************************************************)
EXTENDS Integers, Sequences, FiniteSets, SequencesExt

CONSTANTS
    RootMax,       \* layout_root_nodes_max
    ParentMax,     \* layout_parent_stack_max
    ElementMax,    \* layout_element_pool_max
    ChildPoolMax,  \* layout_child_pool_max: child lists, and boxes in each
    Width, Height, \* the frame bounds
    Lengths,       \* the lengths that setters are given
    Mice,          \* the positions of the mouse
    MaxBegins,     \* bound: calls of box_begin in a frame
    MaxStyles,     \* bound: calls of setters in a frame
    MaxRefused     \* bound: rectangles refused by the renderer's queue

ASSUME LayoutAssumption ==
    /\ {RootMax, ParentMax, ElementMax, ChildPoolMax} \subseteq Nat \ {0}
    /\ {Width, Height} \subseteq Nat \ {0}
    /\ Lengths \subseteq Nat \ {0}
    /\ Mice \subseteq Int \X Int
    /\ {MaxBegins, MaxStyles, MaxRefused} \subseteq Nat

VARIABLES
    pc,         \* "between" frames, "building" one, or why the process died
    input,      \* layout->input_state: the mouse and its left button
    lastDown,   \* layout->last_input_state.mouse_left_down
    begins,     \* layout->current_id
    active,     \* layout->active_id; ids are positive, 0 is layout_id_null
    pressed,    \* layout->pressed_id
    mouseDown,  \* layout->mouse_down_id
    current,    \* layout->current_element: an index, 0 is null
    roots,      \* layout->root_nodes
    stack,      \* layout->parent_stack
    elements,   \* layout->element_pool
    rows,       \* layout->child_pool.count
    styles,     \* number of setter calls in this frame
    opened,     \* history: the boxes the program has still to end
    unstacked,  \* history: boxes refused because the parent stack was full
    drawn,      \* history: the rectangles of this frame, in drawing order
    told        \* history: pressed_id while the frame was built

poolVars    == <<roots, stack, elements, rows>>
mouseVars   == <<active, pressed, mouseDown>>
historyVars == <<opened, unstacked, drawn, told>>
vars == <<pc, input, lastDown, begins, mouseVars, current, poolVars, styles,
          historyVars>>

Inputs == [at : Mice, down : BOOLEAN]

(* layout_element: what a new box is, its children aside.                  *)
NewElement(id, parent) ==
    [id |-> id, parent |-> parent, kids |-> <<>>, x |-> 0, y |-> 0,
     width |-> 0, height |-> 0, maxWidth |-> 0, maxHeight |-> 0,
     direction |-> "main", gap |-> 0]

Init ==
    /\ pc = "between"
    /\ input = [at |-> <<0, 0>>, down |-> FALSE] /\ lastDown = FALSE
    /\ begins = 0
    /\ active = 0 /\ pressed = 0 /\ mouseDown = 0
    /\ current = 0
    /\ roots = <<>> /\ stack = <<>> /\ elements = <<>> /\ rows = 0
    /\ styles = 0
    /\ opened = <<>> /\ unstacked = {} /\ drawn = <<>> /\ told = 0

-----------------------------------------------------------------------------
(* layout_begin: the pools are emptied, the ids start over.                *)
BeginFrame ==
    /\ pc = "between"
    /\ pc' = "building"
    /\ lastDown' = input.down
    /\ input' \in Inputs
    /\ roots' = <<>> /\ stack' = <<>> /\ elements' = <<>> /\ rows' = 0
    /\ current' = 0
    /\ begins' = 0
    /\ styles' = 0
    /\ opened' = <<>> /\ unstacked' = {} /\ drawn' = <<>> /\ told' = pressed
    /\ UNCHANGED mouseVars

(* layout_end.                                                             *)
EndFrame ==
    /\ pc = "building"
    /\ opened = <<>>
    /\ pc' = "between"
    /\ UNCHANGED <<input, lastDown, begins, mouseVars, current, poolVars, styles,
                   historyVars>>

-----------------------------------------------------------------------------
(* box_begin                                                               *)

CallBoxBegin ==
    /\ pc = "building"
    /\ begins < MaxBegins
    /\ begins' = begins + 1
    /\ UNCHANGED <<input, lastDown, mouseVars, styles, drawn, told>>

(* layout_element_push keeps the last element of the pool free.            *)
ElementFits == Len(elements) + 1 < ElementMax

(* Mutant: current_element is assigned before the new element is checked.  *)
BoxRefused_Forgets ==
    /\ CallBoxBegin
    /\ ~ElementFits
    /\ current' = 0
    /\ UNCHANGED <<pc, poolVars, opened, unstacked>>

(* No element: false, and current_element stays.                           *)
BoxRefused ==
    /\ CallBoxBegin
    /\ ~ElementFits
    /\ UNCHANGED <<pc, current, poolVars, opened, unstacked>>

(* layout_parent_push, and what box_begin returns.                         *)
PushParent(element) ==
    IF Len(stack) + 1 < ParentMax
    THEN /\ stack' = Append(stack, element)
         /\ opened' = Append(opened, element)
         /\ UNCHANGED unstacked
    ELSE /\ unstacked' = unstacked \union {element}
         /\ UNCHANGED <<stack, opened>>

(* A box outside of any other.  A root that is refused is in the pool, but *)
(* neither drawn nor a parent.                                             *)
BoxBeginRoot ==
    LET element == Len(elements) + 1
        root    == [NewElement(begins', 0) EXCEPT
                       !.width = Width, !.maxWidth = Width,
                       !.height = Height, !.maxHeight = Height]
    IN
    /\ CallBoxBegin
    /\ ElementFits /\ stack = <<>>
    /\ current' = element
    /\ IF Len(roots) + 1 < RootMax
       THEN /\ roots' = Append(roots, element)
            /\ elements' = Append(elements, root)
            /\ PushParent(element)
       ELSE /\ elements' = Append(elements, NewElement(begins', 0))
            /\ UNCHANGED <<roots, stack, opened, unstacked>>
    /\ UNCHANGED <<pc, rows>>

(* The first child of a box takes a child list from the pool, the next     *)
(* ones a place in it.                                                     *)
ChildFits(parent) ==
    IF elements[parent].kids = <<>>
    THEN rows < ChildPoolMax
    ELSE Len(elements[parent].kids) < ChildPoolMax

(* Mutant: every child takes a list of its own.                            *)
BoxBeginChild_NewList ==
    LET element == Len(elements) + 1
        parent  == Last(stack)
    IN
    /\ CallBoxBegin
    /\ ElementFits /\ stack # <<>>
    /\ current' = element
    /\ rows < ChildPoolMax
    /\ rows' = rows + 1
    /\ elements' = Append([elements EXCEPT ![parent].kids = Append(@, element)],
                          NewElement(begins', parent))
    /\ PushParent(element)
    /\ UNCHANGED <<pc, roots>>

(* A box inside another.                                                   *)
BoxBeginChild ==
    LET element == Len(elements) + 1
        parent  == Last(stack)
    IN
    /\ CallBoxBegin
    /\ ElementFits /\ stack # <<>>
    /\ current' = element
    /\ ChildFits(parent)
    /\ rows' = IF elements[parent].kids = <<>> THEN rows + 1 ELSE rows
    /\ elements' = Append([elements EXCEPT ![parent].kids = Append(@, element)],
                          NewElement(begins', parent))
    /\ PushParent(element)
    /\ UNCHANGED <<pc, roots>>

(* The VERIFYs of layout_child_push and layout_child_id.                   *)
BoxBeginTraps ==
    /\ CallBoxBegin
    /\ ElementFits /\ stack # <<>>
    /\ ~ChildFits(Last(stack))
    /\ pc' = "out of child lists"
    /\ UNCHANGED <<current, poolVars, opened, unstacked>>

BoxBegin == BoxRefused \/ BoxBeginRoot \/ BoxBeginChild \/ BoxBeginTraps

-----------------------------------------------------------------------------
(* The setters box_width, box_height, box_max_width, box_max_height,       *)
(* box_position_x, box_position_y, box_layout_direction and box_child_gap  *)
(* style current_element.  Left out are box_id, which changes the id that  *)
(* the mouse rules compare and which no UI of the studio calls, so that    *)
(* ids are the ones box_begin counts; the colour and the debug id, which   *)
(* draw only passes on; and what the draw pass does not read: least sizes, *)
(* overflow, justification, alignment and padding.                         *)
LengthFields ==
    {"x", "y", "width", "height", "maxWidth", "maxHeight", "gap"}

Style(field, value) ==
    /\ pc = "building"
    /\ opened # <<>>
    /\ styles < MaxStyles
    /\ styles' = styles + 1
    /\ elements' = [elements EXCEPT ![current][field] = value]
    /\ UNCHANGED <<pc, input, lastDown, begins, mouseVars, current, roots, stack,
                   rows, historyVars>>

-----------------------------------------------------------------------------
(* layout_draw_pass                                                        *)

(* The size of a box along one axis.  Only a box with a parent is limited  *)
(* by it; a maximum of 0 is none.                                          *)
Fit(size, max, parentSize) ==
    LET limit  == IF max = 0 \/ parentSize < max THEN parentSize ELSE max
        wanted == IF size = 0 THEN limit ELSE size
    IN  IF limit < wanted THEN limit ELSE wanted

FitRoot(size, max) ==
    LET wanted == IF size = 0 THEN max ELSE size
    IN  IF max < wanted THEN max ELSE wanted

Under(mouse, box) ==
    /\ box.x <= mouse[1] /\ mouse[1] <= box.x + box.width
    /\ box.y <= mouse[2] /\ mouse[2] <= box.y + box.height

(* Mutant: any frame with the button down presses, not only the first.     *)
Touch_Held(pass, id) ==
    [pass EXCEPT
        !.active = id,
        !.mouseDown = IF input.down THEN id ELSE 0,
        !.pressed = IF @ = id THEN 0 ELSE IF input.down THEN id ELSE 0]

(* Mutant: a press is not taken back when its box is drawn again.          *)
Touch_Sticks(pass, id) ==
    [pass EXCEPT
        !.active = id,
        !.mouseDown = IF input.down THEN id ELSE 0,
        !.pressed = CASE ~lastDown /\ input.down  -> id
                      [] ~lastDown /\ ~input.down -> 0
                      [] lastDown                 -> @]

(* The mouse is over a box.                                                *)
Touch(pass, id) ==
    [pass EXCEPT
        !.active = id,
        !.mouseDown = IF input.down THEN id ELSE 0,
        !.pressed = CASE @ = id                            -> 0
                      [] @ # id /\ ~lastDown /\ input.down  -> id
                      [] @ # id /\ ~lastDown /\ ~input.down -> 0
                      [] @ # id /\ lastDown                 -> @]

(* Mutant: the cursor moves on by the size that was asked for.             *)
DrawBox_Asked(pass, element, refused) ==
    LET e      == elements[element]
        inside == e.parent # 0
        parent == pass.box[e.parent]
        corner == IF inside THEN pass.cursor[e.parent] ELSE <<0, 0>>
        box    == [x |-> e.x + corner[1], y |-> e.y + corner[2],
                   width  |-> IF inside
                              THEN Fit(e.width, e.maxWidth, parent.width)
                              ELSE FitRoot(e.width, e.maxWidth),
                   height |-> IF inside
                              THEN Fit(e.height, e.maxHeight, parent.height)
                              ELSE FitRoot(e.height, e.maxHeight)]
        moved  == IF elements[e.parent].direction = "main"
                  THEN <<corner[1], corner[2] + e.height + elements[e.parent].gap>>
                  ELSE <<corner[1] + e.width + elements[e.parent].gap, corner[2]>>
        placed == [pass EXCEPT
                      !.box[element] = box,
                      !.cursor = [c \in DOMAIN @ |->
                                    CASE c = element             -> corner
                                      [] inside /\ c = e.parent  -> moved
                                      [] OTHER                   -> @[c]],
                      !.order = Append(@, element),
                      !.sent = @ \union ({element} \ refused)]
    IN  IF Under(input.at, box) THEN Touch(placed, e.id) ELSE placed

(* Draw a box with its upper left corner, box_position aside, at the       *)
(* cursor of its parent, which then moves on by the size of the box.       *)
DrawBox(pass, element, refused) ==
    LET e      == elements[element]
        inside == e.parent # 0
        parent == pass.box[e.parent]
        corner == IF inside THEN pass.cursor[e.parent] ELSE <<0, 0>>
        box    == [x |-> e.x + corner[1], y |-> e.y + corner[2],
                   width  |-> IF inside
                              THEN Fit(e.width, e.maxWidth, parent.width)
                              ELSE FitRoot(e.width, e.maxWidth),
                   height |-> IF inside
                              THEN Fit(e.height, e.maxHeight, parent.height)
                              ELSE FitRoot(e.height, e.maxHeight)]
        moved  == IF elements[e.parent].direction = "main"
                  THEN <<corner[1], corner[2] + box.height + elements[e.parent].gap>>
                  ELSE <<corner[1] + box.width + elements[e.parent].gap, corner[2]>>
        placed == [pass EXCEPT
                      !.box[element] = box,
                      !.cursor = [c \in DOMAIN @ |->
                                    CASE c = element             -> corner
                                      [] inside /\ c = e.parent  -> moved
                                      [] OTHER                   -> @[c]],
                      !.order = Append(@, element),
                      !.sent = @ \union ({element} \ refused)]
    IN  IF Under(input.at, box) THEN Touch(placed, e.id) ELSE placed

(* The traversal visits the boxes in the order in which they were begun;   *)
(* a box whose rectangle was refused is not entered.                       *)
DrawTree(root, refused) ==
    LET nowhere == [x |-> 0, y |-> 0, width |-> 0, height |-> 0]
        start   == [box    |-> [e \in DOMAIN elements |-> nowhere],
                    cursor |-> [e \in DOMAIN elements |-> <<0, 0>>],
                    order  |-> <<>>, sent |-> {},
                    active |-> active, pressed |-> pressed,
                    mouseDown |-> mouseDown]
        pass[n \in 0 .. Len(elements)] ==
            IF n = 0 THEN start
            ELSE IF n = root \/ elements[n].parent \in pass[n - 1].sent
            THEN DrawBox(pass[n - 1], n, refused)
            ELSE pass[n - 1]
    IN  pass[Len(elements)]

Draw(root) ==
    \E refused \in {r \in SUBSET DOMAIN elements : Cardinality(r) <= MaxRefused} :
        LET pass == DrawTree(root, refused)
            Rectangle(e) ==
                LET box == pass.box[e]
                IN  [x |-> box.x, y |-> box.y,
                     width |-> box.width, height |-> box.height, element |-> e]
        IN  /\ drawn' = drawn \o [i \in DOMAIN pass.order |->
                                     Rectangle(pass.order[i])]
            /\ active' = pass.active
            /\ pressed' = pass.pressed
            /\ mouseDown' = pass.mouseDown

-----------------------------------------------------------------------------
(* box_end.  The sizes it sums up for sizing by content and by growth are  *)
(* left out: no setter asks for them and draw does not use them.           *)

EndsBox ==
    /\ pc = "building"
    /\ opened # <<>>
    /\ opened' = Front(opened)
    /\ UNCHANGED <<input, lastDown, begins, roots, elements, rows, styles,
                   unstacked, told>>

(* Its VERIFYs: there is no current element, or the stack is empty.        *)
NoBoxToEnd == current = 0 \/ stack = <<>>

Trap ==
    /\ pc' = "no box to end"
    /\ UNCHANGED <<mouseVars, current, stack, drawn>>

(* The stack is popped, and a root box is drawn.                           *)
PopBox ==
    /\ stack' = Front(stack)
    /\ IF elements[current].parent = 0
       THEN Draw(current)
       ELSE UNCHANGED <<mouseVars, drawn>>
    /\ UNCHANGED pc

(* Mutant: the current element is left alone.                              *)
BoxEnd_Stays ==
    /\ EndsBox
    /\ IF NoBoxToEnd THEN Trap ELSE PopBox /\ UNCHANGED current

BoxEnd ==
    /\ EndsBox
    /\ IF NoBoxToEnd
       THEN Trap
       ELSE PopBox /\ current' = elements[current].parent

-----------------------------------------------------------------------------
Next ==
    \/ BeginFrame \/ EndFrame
    \/ BoxBegin \/ BoxEnd
    \/ \E field \in LengthFields, length \in Lengths : Style(field, length)
    \/ \E direction \in {"main", "cross"} : Style("direction", direction)

Spec == Init /\ [][Next]_vars
-----------------------------------------------------------------------------
(* Properties                                                              *)

Kids(e) == Range(elements[e].kids)

(* Every box below a root is in the child list of its parent, once, and    *)
(* every parent has a list of its own.                                     *)
TreeOK ==
    /\ \A e \in DOMAIN elements :
          /\ elements[e].parent < e
          /\ elements[e].parent # 0 => e \in Kids(elements[e].parent)
          /\ IsInjective(elements[e].kids)
          /\ \A kid \in Kids(e) : elements[kid].parent = e
    /\ rows = Cardinality({e \in DOMAIN elements : Kids(e) # {}})

TypeOK ==
    /\ pc \in {"between", "building", "out of child lists", "no box to end"}
    /\ input \in Inputs \union {[at |-> <<0, 0>>, down |-> FALSE]}
    /\ lastDown \in BOOLEAN
    /\ {begins, active, pressed, mouseDown, told} \subseteq 0 .. MaxBegins
    /\ current \in 0 .. Len(elements)
    /\ Len(elements) < ElementMax
    /\ Len(roots) < RootMax /\ Range(roots) \subseteq DOMAIN elements
    /\ Len(stack) < ParentMax /\ Range(stack) \subseteq DOMAIN elements
    /\ rows <= ChildPoolMax
    /\ TreeOK

(* What the layout takes for the open boxes are the boxes the program has  *)
(* open, and what it styles and ends next is the innermost of them: the    *)
(* parent stack and the parent links from current_element agree.  A box    *)
(* that the parent stack refused breaks the second (box_begin leaves it    *)
(* current); one that the element pool refused does not.                   *)
BoxesMatch ==
    pc = "building" =>
        /\ stack = opened
        /\ opened # <<>> /\ unstacked = {} => current = Last(opened)

(* No box_end and no setter of an open box trips over a refused box.       *)
EndNeverTraps ==
    /\ pc # "no box to end"
    /\ pc = "building" /\ opened # <<>> => current # 0

RootOf(e) ==
    CHOOSE r \in 1 .. e : /\ elements[r].parent = 0
                         /\ \A f \in r + 1 .. e : elements[f].parent # 0

(* A frame draws each of its root boxes once, except for a tree in which   *)
(* the parent stack refused a box: the box_ends then run one box behind.   *)
RootsDrawn ==
    pc = "between" =>
        \A root \in Range(roots) :
            \/ \E u \in unstacked : RootOf(u) = root
            \/ Cardinality({i \in DOMAIN drawn : drawn[i].element = root}) = 1

(* Children are drawn next to each other: no two of a parent overlap       *)
(* unless one of them was given a position.                                *)
SiblingsApart ==
    \A i, j \in DOMAIN drawn :
        LET a == drawn[i]
            b == drawn[j]
            Placed(e) == elements[e].x # 0 \/ elements[e].y # 0
        IN  \/ i >= j
            \/ elements[a.element].parent # elements[b.element].parent
            \/ elements[a.element].parent = 0
            \/ Placed(a.element) \/ Placed(b.element)
            \/ a.x + a.width <= b.x
            \/ a.y + a.height <= b.y

(* A box becomes pressed only in the frame in which the button goes down,  *)
(* and it is then the topmost box under the mouse.                         *)
PressEdge ==
    [][pressed' \notin {0, pressed} =>
          input.down /\ ~lastDown /\ pressed' = active']_vars

(* A press lasts for one frame: a box that was told it is pressed is not   *)
(* told so again after a frame in which the mouse was over it, unless the  *)
(* button went down anew.                                                  *)
PressedOnce ==
    pc = "between" /\ told # 0 /\ pressed = told =>
        \/ input.down /\ ~lastDown
        \/ \A i \in DOMAIN drawn :
              elements[drawn[i].element].id = told => ~Under(input.at, drawn[i])
=============================================================================
