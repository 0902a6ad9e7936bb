---------------------------- MODULE LayoutProofs ----------------------------
(***************************************************************************)
(* The layout engine, for every size of its pools, number of boxes,        *)
(* nesting, size and refusal: the parent stack holds the boxes that are    *)
(* open, and no box_end fails (BoxInv); and the boxes are trees that are   *)
(* drawn once each, siblings apart, with one press for one press of the    *)
(* button (TreeInv, from "The trees" on).                                  *)
(***************************************************************************)
EXTENDS Layout, SequenceTheorems, FiniteSetTheorems, WellFoundedInduction,
        TLAPS

Element ==
    [id : Nat, parent : Nat, kids : Seq(Nat), x : Nat, y : Nat,
     width : Nat, height : Nat, maxWidth : Nat, maxHeight : Nat,
     direction : {"main", "cross"}, gap : Nat]

PoolOK ==
    /\ begins \in Nat
    /\ elements \in Seq(Element)
    /\ stack \in Seq(Nat)
    /\ \A k \in 1 .. Len(stack) : stack[k] \in 1 .. Len(elements)
    /\ current \in 0 .. Len(elements)

(* The boxes on the stack are each the parent of the next; the lowest is a *)
(* root.                                                                   *)
ChainOK ==
    \A k \in 1 .. Len(stack) :
        elements[stack[k]].parent = IF k = 1 THEN 0 ELSE stack[k - 1]

(* The current element is the innermost open box or, after a box that the  *)
(* stack refused, one box below it.                                        *)
CurrentOK ==
    stack # <<>> =>
        /\ current # 0
        /\ \/ current = Last(stack)
           \/ unstacked # {} /\ elements[current].parent = Last(stack)

BoxInv ==
    /\ PoolOK /\ ChainOK /\ CurrentOK
    /\ stack = opened
    /\ pc # "no box to end"

LEMMA InitBoxInv == Init => BoxInv
  BY DEF Init, BoxInv, PoolOK, ChainOK, CurrentOK

LEMMA NewElementType ==
    ASSUME NEW id \in Nat, NEW parent \in Nat
    PROVE  NewElement(id, parent) \in Element
           /\ NewElement(id, parent).parent = parent
  BY DEF NewElement, Element

LEMMA PoolFacts ==
    ASSUME BoxInv
    PROVE  /\ elements \in Seq(Element) /\ Len(elements) \in Nat
           /\ stack \in Seq(Nat) /\ Len(stack) \in Nat
           /\ \A k \in 1 .. Len(stack) : stack[k] \in 1 .. Len(elements)
           /\ current \in 0 .. Len(elements)
           /\ begins \in Nat
           /\ stack = opened
<1>1. elements \in Seq(Element) /\ stack \in Seq(Nat)
  BY DEF BoxInv, PoolOK
<1>2. Len(elements) \in Nat /\ Len(stack) \in Nat
  BY <1>1
<1> QED BY <1>1, <1>2 DEF BoxInv, PoolOK

(* Steps that leave the boxes alone.                                       *)
LEMMA BoxesUnchanged ==
    ASSUME BoxInv,
           UNCHANGED <<elements, stack, opened, current, unstacked>>,
           begins' \in Nat, pc' # "no box to end"
    PROVE  BoxInv'
  BY DEF BoxInv, PoolOK, ChainOK, CurrentOK, Last

LEMMA FrameKeeps ==
    ASSUME BoxInv, BeginFrame \/ EndFrame
    PROVE  BoxInv'
<1>1. CASE BeginFrame
  BY <1>1 DEF BeginFrame, BoxInv, PoolOK, ChainOK, CurrentOK
<1>2. CASE EndFrame
  BY <1>2, BoxesUnchanged DEF EndFrame, poolVars, historyVars, BoxInv, PoolOK
<1> QED BY <1>1, <1>2

(* An element joins the pool; the links of the others stay.                *)
LEMMA ElementJoins ==
    ASSUME elements \in Seq(Element), NEW pool \in Seq(Element),
           Len(pool) = Len(elements),
           \A e \in 1 .. Len(elements) : pool[e].parent = elements[e].parent,
           NEW new \in Element, elements' = Append(pool, new)
    PROVE  /\ elements' \in Seq(Element)
           /\ Len(elements') = Len(elements) + 1 /\ Len(elements) \in Nat
           /\ \A e \in 1 .. Len(elements) :
                 elements'[e].parent = elements[e].parent
           /\ elements'[Len(elements) + 1].parent = new.parent
  OBVIOUS

(* box_begin puts the new element on the stack, or leaves it current only. *)
LEMMA PushKeeps ==
    ASSUME BoxInv, elements' \in Seq(Element), begins' \in Nat,
           Len(elements') = Len(elements) + 1,
           \A e \in 1 .. Len(elements) :
               elements'[e].parent = elements[e].parent,
           current' = Len(elements) + 1,
           elements'[Len(elements) + 1].parent =
               (IF stack = <<>> THEN 0 ELSE Last(stack)),
           UNCHANGED pc,
           \/ PushParent(Len(elements) + 1)
           \/ stack = <<>> /\ UNCHANGED <<stack, opened, unstacked>>
    PROVE  BoxInv'
<1>. DEFINE new == Len(elements) + 1
<1>1. /\ stack \in Seq(Nat) /\ Len(stack) \in Nat /\ Len(elements) \in Nat
      /\ \A k \in 1 .. Len(stack) : stack[k] \in 1 .. Len(elements)
      /\ stack = opened
  BY PoolFacts
<1>2. CASE UNCHANGED <<stack, opened>> /\ (stack # <<>> => unstacked' # {})
  <2>1. PoolOK'
    <3>1. \A k \in 1 .. Len(stack) : stack[k] \in 1 .. Len(elements')
      BY <1>1
    <3>2. current' \in 0 .. Len(elements')
      BY <1>1
    <3> QED BY <1>1, <1>2, <3>1, <3>2 DEF PoolOK
  <2>2. ChainOK'
    BY <1>1, <1>2 DEF BoxInv, ChainOK
  <2>3. CurrentOK'
    BY <1>1, <1>2 DEF CurrentOK, Last
  <2> QED BY <1>2, <2>1, <2>2, <2>3 DEF BoxInv
<1>3. CASE stack' = Append(stack, new) /\ opened' = Append(opened, new)
  <2>1. /\ stack' \in Seq(Nat) /\ Len(stack') = Len(stack) + 1
        /\ \A k \in 1 .. Len(stack) : stack'[k] = stack[k]
        /\ stack'[Len(stack) + 1] = new
        /\ \A k \in 1 .. Len(stack') :
              k \in 1 .. Len(stack) \/ k = Len(stack) + 1
    BY <1>1, <1>3
  <2>2. PoolOK'
    <3>1. \A k \in 1 .. Len(stack') : stack'[k] \in 1 .. Len(elements')
      <4>1. ASSUME NEW k \in 1 .. Len(stack')
            PROVE  stack'[k] \in 1 .. Len(elements')
        <5>1. CASE k \in 1 .. Len(stack)
          <6>1. stack[k] \in 1 .. Len(elements)
            BY <1>1, <5>1
          <6> QED BY <1>1, <2>1, <5>1, <6>1
        <5>2. CASE k = Len(stack) + 1
          BY <1>1, <2>1, <5>2
        <5> QED BY <2>1, <5>1, <5>2
      <4> QED BY <4>1
    <3>2. current' \in 0 .. Len(elements')
      BY <1>1
    <3> QED BY <2>1, <3>1, <3>2 DEF PoolOK
  <2>3. ChainOK'
    <3>1. SUFFICES ASSUME NEW k \in 1 .. Len(stack')
                   PROVE  elements'[stack'[k]].parent =
                             IF k = 1 THEN 0 ELSE stack'[k - 1]
      BY DEF ChainOK
    <3>2. CASE k \in 1 .. Len(stack)
      <4>1. stack'[k] = stack[k] /\ stack[k] \in 1 .. Len(elements)
        BY <1>1, <2>1, <3>2
      <4>2. elements[stack[k]].parent = IF k = 1 THEN 0 ELSE stack[k - 1]
        BY <3>2 DEF BoxInv, ChainOK
      <4>3. ASSUME k # 1 PROVE stack'[k - 1] = stack[k - 1]
        <5>1. k - 1 \in 1 .. Len(stack)
          BY <1>1, <3>2, <4>3
        <5> QED BY <2>1, <5>1
      <4> QED BY <4>1, <4>2, <4>3
    <3>3. CASE k = Len(stack) + 1
      <4>1. k = 1 <=> stack = <<>>
        BY <1>1, <3>3
      <4>2. k # 1 => stack'[k - 1] = Last(stack)
        BY <1>1, <2>1, <3>3 DEF Last
      <4> QED BY <2>1, <3>3, <4>1, <4>2
    <3> QED BY <2>1, <3>2, <3>3
  <2>4. CurrentOK'
    BY <1>1, <2>1 DEF CurrentOK, Last
  <2> QED BY <1>1, <1>3, <2>2, <2>3, <2>4 DEF BoxInv
<1> QED BY <1>2, <1>3 DEF PushParent

LEMMA BoxBeginKeeps ==
    ASSUME BoxInv, BoxBegin
    PROVE  BoxInv'
<1>1. begins' \in Nat
  <2>1. CallBoxBegin
    BY DEF BoxBegin, BoxRefused, BoxBeginRoot, BoxBeginChild, BoxBeginTraps
  <2>2. begins \in Nat
    BY PoolFacts
  <2> QED BY <2>1, <2>2 DEF CallBoxBegin
<1>2. /\ elements \in Seq(Element) /\ Len(elements) \in Nat
      /\ stack \in Seq(Nat) /\ Len(stack) \in Nat
      /\ \A k \in 1 .. Len(stack) : stack[k] \in 1 .. Len(elements)
  <2>1. elements \in Seq(Element) /\ stack \in Seq(Nat)
    BY PoolFacts
  <2>2. Len(elements) \in Nat /\ Len(stack) \in Nat
    BY PoolFacts
  <2>3. \A k \in 1 .. Len(stack) : stack[k] \in 1 .. Len(elements)
    BY PoolFacts
  <2> QED BY <2>1, <2>2, <2>3
<1>3. CASE BoxRefused
  BY <1>1, <1>3, BoxesUnchanged DEF BoxRefused, poolVars, BoxInv
<1>4. CASE BoxBeginTraps
  BY <1>1, <1>4, BoxesUnchanged DEF BoxBeginTraps, poolVars
<1>5. CASE BoxBeginRoot
  <2>1. PICK new \in Element : elements' = Append(elements, new)
                               /\ new.parent = 0
    <3>1. NewElement(begins', 0) \in Element
          /\ NewElement(begins', 0).parent = 0
      BY <1>1, NewElementType
    <3>2. [NewElement(begins', 0) EXCEPT
              !.width = Width, !.maxWidth = Width,
              !.height = Height, !.maxHeight = Height] \in Element
      BY <3>1, LayoutAssumption DEF Element
    <3>3. [NewElement(begins', 0) EXCEPT
              !.width = Width, !.maxWidth = Width,
              !.height = Height, !.maxHeight = Height].parent = 0
      BY <3>1 DEF Element
    <3> QED BY <1>5, <3>1, <3>2, <3>3 DEF BoxBeginRoot
  <2>2. /\ elements' \in Seq(Element)
        /\ Len(elements') = Len(elements) + 1
        /\ \A e \in 1 .. Len(elements) :
              elements'[e].parent = elements[e].parent
        /\ elements'[Len(elements) + 1].parent = 0
    BY <1>2, <2>1, ElementJoins
  <2> QED BY <1>1, <1>5, <2>2, PushKeeps DEF BoxBeginRoot
<1>6. CASE BoxBeginChild
  <2>. DEFINE parent == Last(stack)
              pool == [elements EXCEPT
                         ![parent].kids = Append(@, Len(elements) + 1)]
  <2>1. stack # <<>> /\ parent \in 1 .. Len(elements) /\ parent \in Nat
    <3>1. stack # <<>>
      BY <1>6 DEF BoxBeginChild
    <3>2. Len(stack) \in 1 .. Len(stack)
      BY <1>2, <3>1
    <3> QED BY <1>2, <3>1, <3>2 DEF Last
  <2>2. elements[parent] \in Element
    BY <1>2, <2>1
  <2>3. pool \in Seq(Element) /\ Len(pool) = Len(elements)
    <3>1. [elements[parent] EXCEPT !.kids = Append(@, Len(elements) + 1)]
             \in Element
      <4>1. elements[parent].kids \in Seq(Nat)
        <5>. HIDE DEF parent
        <5> QED BY <2>2 DEF Element
      <4>2. Len(elements) + 1 \in Nat
        BY <1>2
      <4>3. Append(elements[parent].kids, Len(elements) + 1) \in Seq(Nat)
        <5>. HIDE DEF parent
        <5> QED BY <4>1, <4>2, AppendProperties
      <4>. HIDE DEF parent
      <4> QED BY <2>2, <4>3 DEF Element
    <3> QED BY <1>2, <2>1, <3>1
  <2>4. \A e \in 1 .. Len(elements) : pool[e].parent = elements[e].parent
    BY <1>2, <2>1, <2>2 DEF Element
  <2>5. NewElement(begins', parent) \in Element
        /\ NewElement(begins', parent).parent = parent
    BY <1>1, <2>1, NewElementType
  <2>6. elements' = Append(pool, NewElement(begins', parent))
    BY <1>6 DEF BoxBeginChild
  <2>7. /\ elements' \in Seq(Element)
        /\ Len(elements') = Len(elements) + 1
        /\ \A e \in 1 .. Len(elements) :
              elements'[e].parent = elements[e].parent
        /\ elements'[Len(elements) + 1].parent = parent
    <3>. HIDE DEF pool
    <3> QED BY <1>2, <2>3, <2>4, <2>5, <2>6, ElementJoins
  <2> QED BY <1>1, <1>6, <2>1, <2>7, PushKeeps DEF BoxBeginChild
<1> QED BY <1>3, <1>4, <1>5, <1>6 DEF BoxBegin

LEMMA StyleKeeps ==
    ASSUME BoxInv,
           NEW field \in LengthFields \union {"direction"}, NEW value,
           \/ field \in LengthFields /\ value \in Nat
           \/ field = "direction" /\ value \in {"main", "cross"},
           Style(field, value)
    PROVE  BoxInv'
<1>1. /\ elements \in Seq(Element) /\ current \in 1 .. Len(elements)
      /\ elements' = [elements EXCEPT ![current][field] = value]
      /\ UNCHANGED <<stack, opened, unstacked, current, begins, pc>>
  BY DEF BoxInv, PoolOK, CurrentOK, Style, historyVars
<1>2. elements[current] \in Element
  BY <1>1
<1>3. [elements[current] EXCEPT ![field] = value] \in Element
  BY <1>2 DEF Element, LengthFields
<1>4. [elements[current] EXCEPT ![field] = value].parent
         = elements[current].parent
  BY <1>2 DEF Element, LengthFields
<1>5. /\ elements' \in Seq(Element) /\ Len(elements') = Len(elements)
      /\ \A e \in 1 .. Len(elements) :
            elements'[e].parent = elements[e].parent
  BY <1>1, <1>2, <1>3, <1>4
<1>6. PoolOK'
  BY <1>1, <1>5 DEF BoxInv, PoolOK
<1>7. ChainOK'
  BY <1>1, <1>5 DEF BoxInv, PoolOK, ChainOK
<1>8. CurrentOK'
  BY <1>1, <1>5 DEF BoxInv, CurrentOK, Last
<1> QED BY <1>1, <1>6, <1>7, <1>8 DEF BoxInv

(* The innermost box is closed; a current element below it moves up, too.  *)
LEMMA BoxEndKeeps ==
    ASSUME BoxInv, BoxEnd
    PROVE  BoxInv'
<1>. DEFINE n == Len(stack)
<1>1. /\ stack \in Seq(Nat) /\ n \in Nat /\ Len(elements) \in Nat
      /\ \A k \in 1 .. n : stack[k] \in 1 .. Len(elements)
      /\ elements \in Seq(Element) /\ begins \in Nat
  BY PoolFacts
<1>2. /\ stack # <<>> /\ current # 0
      /\ opened' = Front(stack)
      /\ UNCHANGED <<elements, begins, unstacked>>
  BY DEF BoxInv, CurrentOK, BoxEnd, EndsBox
<1>3. /\ stack' = Front(stack) /\ current' = elements[current].parent
      /\ UNCHANGED pc
  BY <1>2 DEF BoxEnd, NoBoxToEnd, PopBox
<1>a. n # 0 /\ n \in 1 .. n
  BY <1>1, <1>2
<1>b. /\ stack' \in Seq(Nat) /\ Len(stack') = n - 1
      /\ \A k \in 1 .. n - 1 : stack'[k] = stack[k]
  <2>1. stack' = SubSeq(stack, 1, n - 1)
    BY <1>3 DEF Front
  <2>2. \A k \in 1 .. n - 1 : stack[k] \in Nat
    BY <1>1
  <2>3. Len(stack') = n - 1 /\ \A k \in 1 .. n - 1 : stack'[k] = stack[k]
    <3>1. n \in Nat /\ 1 \in Int /\ n - 1 \in Int /\ n >= 1
      BY <1>1, <1>a
    <3>2. /\ Len(SubSeq(stack, 1, n - 1)) =
                IF 1 <= n - 1 THEN (n - 1) - 1 + 1 ELSE 0
          /\ \A k \in 1 .. (n - 1) - 1 + 1 :
                SubSeq(stack, 1, n - 1)[k] = stack[1 + k - 1]
      <4>. HIDE DEF n
      <4> QED BY <2>2, <3>1, SubSeqProperties
    <3>3. Len(stack') = n - 1
      <4>. HIDE DEF n
      <4>1. n - 1 = IF 1 <= n - 1 THEN (n - 1) - 1 + 1 ELSE 0
        BY <3>1
      <4> QED BY <2>1, <3>2, <4>1, Zenon
    <3>4. ASSUME NEW k \in 1 .. n - 1 PROVE stack'[k] = stack[k]
      <4>1. (n - 1) - 1 + 1 = n - 1 /\ 1 + k - 1 = k
        BY <3>1
      <4> QED BY <2>1, <3>2, <4>1
    <3> QED BY <3>3, <3>4
  <2>4. stack' \in Seq(Nat)
    BY <1>1, <1>a, <2>1, <2>2, SubSeqProperties
  <2> QED BY <2>3, <2>4
<1>4. elements[stack[n]].parent = IF n = 1 THEN 0 ELSE stack[n - 1]
  BY <1>a DEF BoxInv, ChainOK
<1>5. \/ current = stack[n]
      \/ unstacked # {} /\ elements[current].parent = stack[n]
  BY <1>2 DEF BoxInv, CurrentOK, Last
<1>c. ASSUME n # 1 PROVE stack[n - 1] \in 1 .. Len(elements)
  <2>. HIDE DEF n
  <2>1. n - 1 \in 1 .. n
    BY <1>a, <1>c
  <2> QED BY <1>1, <2>1
<1>6. current' \in 0 .. Len(elements)
  <2>1. CASE current = stack[n]
    <3>1. current' = IF n = 1 THEN 0 ELSE stack[n - 1]
      BY <1>3, <1>4, <2>1
    <3>2. CASE n = 1
      BY <1>1, <3>1, <3>2
    <3>3. CASE n # 1
      BY <1>1, <1>c, <3>1, <3>3
    <3> QED BY <3>2, <3>3
  <2>2. CASE elements[current].parent = stack[n]
    <3>1. stack[n] \in 0 .. Len(elements)
      BY <1>1, <1>a
    <3> QED BY <1>3, <2>2, <3>1
  <2> QED BY <1>5, <2>1, <2>2
<1>7. PoolOK'
  <2>1. ASSUME NEW k \in 1 .. n - 1 PROVE stack'[k] \in 1 .. Len(elements)
    <3>1. k \in 1 .. n
      <4>. HIDE DEF n
      <4> QED BY <1>1
    <3>2. stack[k] \in 1 .. Len(elements)
      BY <1>1, <3>1
    <3> QED BY <1>b, <3>2
  <2> QED BY <1>1, <1>2, <1>6, <1>b, <2>1 DEF PoolOK
<1>8. ChainOK'
  <2>1. ASSUME NEW k \in 1 .. n - 1
        PROVE  elements[stack'[k]].parent =
                  IF k = 1 THEN 0 ELSE stack'[k - 1]
    <3>1. k \in 1 .. n /\ (k # 1 => k - 1 \in 1 .. n - 1)
      BY <1>1
    <3>2. elements[stack[k]].parent = IF k = 1 THEN 0 ELSE stack[k - 1]
      BY <3>1 DEF BoxInv, ChainOK
    <3> QED BY <1>b, <3>1, <3>2
  <2> QED BY <1>2, <1>b, <2>1 DEF ChainOK
<1>9. CurrentOK'
  <2>1. ASSUME n # 1
        PROVE  /\ current' # 0
               /\ \/ current' = stack[n - 1]
                  \/ /\ unstacked # {}
                     /\ elements[current'].parent = stack[n - 1]
    BY <1>1, <1>3, <1>4, <1>5, <1>a, <1>c, <2>1
  <2>2. ASSUME stack' # <<>> PROVE n # 1 /\ Last(stack') = stack[n - 1]
    <3>1. Len(stack') # 0
      BY <1>b, <2>2
    <3>2. n # 1 /\ n - 1 \in 1 .. n - 1
      BY <1>1, <1>b, <3>1
    <3> QED BY <1>b, <3>2 DEF Last
  <2> QED BY <1>2, <2>1, <2>2 DEF CurrentOK
<1> QED BY <1>2, <1>3, <1>7, <1>8, <1>9 DEF BoxInv

LEMMA NextBoxInv == BoxInv /\ [Next]_vars => BoxInv'
<1>. SUFFICES ASSUME BoxInv, [Next]_vars PROVE BoxInv'
  OBVIOUS
<1>1. CASE BeginFrame \/ EndFrame
  BY <1>1, FrameKeeps
<1>2. CASE BoxBegin
  BY <1>2, BoxBeginKeeps
<1>3. CASE BoxEnd
  BY <1>3, BoxEndKeeps
<1>4. ASSUME NEW field \in LengthFields, NEW length \in Lengths,
             Style(field, length)
      PROVE  BoxInv'
  BY <1>4, StyleKeeps, LayoutAssumption
<1>5. ASSUME NEW direction \in {"main", "cross"},
             Style("direction", direction)
      PROVE  BoxInv'
  BY <1>5, StyleKeeps
<1>6. CASE UNCHANGED vars
  BY <1>6, BoxesUnchanged DEF vars, poolVars, historyVars, BoxInv, PoolOK
<1> QED BY <1>1, <1>2, <1>3, <1>4, <1>5, <1>6 DEF Next

(* The parent stack is a chain of open boxes, with the current element at  *)
(* its end or, after a refused box, one below: BoxInv.                     *)
THEOREM BoxInvariant == Spec => []BoxInv
  BY InitBoxInv, NextBoxInv, PTL DEF Spec

(* What the layout takes for the open boxes are those the program has      *)
(* open, and the current element is the innermost of them unless the       *)
(* parent stack has refused a box in this frame (box_begin, box_end).      *)
THEOREM StackHoldsOpenBoxes == Spec => []BoxesMatch
<1>1. BoxInv => BoxesMatch
  BY DEF BoxInv, CurrentOK, BoxesMatch
<1> QED BY <1>1, BoxInvariant, PTL

(* Neither the VERIFYs of box_end nor a setter of an open box fail, however *)
(* many boxes were refused before, and by which pool.                      *)
THEOREM BoxEndNeverTraps == Spec => []EndNeverTraps
<1>1. BoxInv => EndNeverTraps
  BY DEF BoxInv, CurrentOK, EndNeverTraps
<1> QED BY <1>1, BoxInvariant, PTL

-----------------------------------------------------------------------------
(* The trees.  TreeInv is what box_begin, the setters and box_end keep of  *)
(* the pools, of what was drawn and of the mouse; that the drawing of a    *)
(* tree keeps its part is an induction along layout_draw_pass.             *)

(* What the pools hold at most, and of what.                               *)
PoolsFit ==
    /\ Len(elements) < ElementMax /\ Len(stack) < ParentMax
    /\ roots \in Seq(Nat) /\ Len(roots) < RootMax
    /\ \A k \in 1 .. Len(roots) : roots[k] \in 1 .. Len(elements)
    /\ rows \in Nat /\ rows <= ChildPoolMax
    /\ unstacked \subseteq 1 .. Len(elements)

(* Ids are handed out from 1, and what the mouse rules keep are ids.       *)
IdsOK ==
    /\ begins <= MaxBegins
    /\ \A e \in 1 .. Len(elements) : elements[e].id \in 1 .. begins
    /\ {active, pressed, mouseDown, told} \subseteq 0 .. MaxBegins

(* A box is in the child list of its parent, once, and in no other.        *)
ParentsOK ==
    \A e \in 1 .. Len(elements) :
        LET parent == elements[e].parent
        IN  /\ parent < e
            /\ parent # 0 => \E i \in 1 .. Len(elements[parent].kids) :
                                elements[parent].kids[i] = e

KidsOK ==
    \A e \in 1 .. Len(elements) :
        LET kids == elements[e].kids
        IN  /\ \A i \in 1 .. Len(kids) :
                  kids[i] \in 1 .. Len(elements) /\ elements[kids[i]].parent = e
            /\ \A i, j \in 1 .. Len(kids) : kids[i] = kids[j] => i = j

RowsOK ==
    rows = Cardinality({e \in 1 .. Len(elements) : elements[e].kids # <<>>})

(* All boxes begun after the root that is open are below it, the current   *)
(* element, too; and that one is the last open box, or one the stack       *)
(* refused in this tree.                                                   *)
OpenTree ==
    stack # <<>> =>
        /\ \A k \in 1 .. Len(stack) : stack[1] <= stack[k]
        /\ \A e \in stack[1] + 1 .. Len(elements) : elements[e].parent # 0
        /\ stack[1] <= current
        /\ \/ current = Last(stack)
           \/ \E u \in unstacked : stack[1] <= u

Drawing == [x : Nat, y : Nat, width : Nat, height : Nat, element : Nat]

(* Only older boxes are drawn, each once.                                  *)
DrawnOK ==
    /\ drawn \in Seq(Drawing)
    /\ \A i \in 1 .. Len(drawn) :
          /\ drawn[i].element \in 1 .. Len(elements)
          /\ stack # <<>> => drawn[i].element < stack[1]
    /\ \A i, j \in 1 .. Len(drawn) :
          drawn[i].element = drawn[j].element => i = j

(* The box u is in the tree of r.                                          *)
InTree(u, r) ==
    /\ r \in 1 .. u /\ elements[r].parent = 0
    /\ \A f \in r + 1 .. u : elements[f].parent # 0

(* A root is open, or drawn, or of a tree with a refused box.              *)
Accounted(root) ==
    /\ elements[root].parent = 0
    /\ \/ stack # <<>> /\ stack[1] = root
       \/ \E i \in 1 .. Len(drawn) : drawn[i].element = root
       \/ \E u \in unstacked : InTree(u, root)

RootsOK == \A k \in 1 .. Len(roots) : Accounted(roots[k])

(* The button went down in this frame.                                     *)
GoesDown == input.down /\ ~lastDown

(* If not, what is pressed is what was, and was not under the mouse again. *)
PressOK ==
    ~GoesDown =>
        /\ pressed \in {0, told}
        /\ pressed = told /\ told # 0 =>
              \A i \in 1 .. Len(drawn) :
                  elements[drawn[i].element].id = told
                      => ~Under(input.at, drawn[i])

TreeInv ==
    /\ pc \in {"between", "building", "out of child lists"}
    /\ pc = "between" => stack = <<>>
    /\ input \in Inputs \union {[at |-> <<0, 0>>, down |-> FALSE]}
    /\ lastDown \in BOOLEAN
    /\ PoolsFit /\ IdsOK /\ ParentsOK /\ KidsOK /\ RowsOK /\ OpenTree
    /\ DrawnOK /\ SiblingsApart /\ RootsOK /\ PressOK

LEMMA TreeFacts ==
    ASSUME TreeInv
    PROVE  /\ PoolsFit /\ IdsOK /\ ParentsOK /\ KidsOK /\ RowsOK /\ OpenTree
           /\ DrawnOK /\ SiblingsApart /\ RootsOK /\ PressOK
           /\ drawn \in Seq(Drawing) /\ DOMAIN drawn = 1 .. Len(drawn)
           /\ Len(drawn) \in Nat
<1>1. drawn \in Seq(Drawing)
  BY DEF TreeInv, DrawnOK
<1>2. DOMAIN drawn = 1 .. Len(drawn) /\ Len(drawn) \in Nat
  BY <1>1
<1> QED BY <1>1, <1>2 DEF TreeInv

LEMMA ElementFacts ==
    ASSUME NEW pool \in Seq(Element), NEW e \in 1 .. Len(pool)
    PROVE  /\ pool[e] \in Element
           /\ pool[e].id \in Nat /\ pool[e].parent \in Nat
           /\ pool[e].x \in Nat /\ pool[e].y \in Nat
           /\ pool[e].width \in Nat /\ pool[e].height \in Nat
           /\ pool[e].maxWidth \in Nat /\ pool[e].maxHeight \in Nat
           /\ pool[e].gap \in Nat /\ pool[e].direction \in {"main", "cross"}
           /\ pool[e].kids \in Seq(Nat) /\ Len(pool[e].kids) \in Nat
<1>1. pool[e] \in Element
  OBVIOUS
<1>2. pool[e].kids \in Seq(Nat)
  BY <1>1 DEF Element
<1>3. Len(pool[e].kids) \in Nat
  BY <1>2
<1> QED BY <1>1, <1>2, <1>3 DEF Element

LEMMA InitTreeInv == Init => TreeInv
<1>. SUFFICES ASSUME Init PROVE TreeInv
  OBVIOUS
<1>1. /\ Len(elements) = 0 /\ Len(stack) = 0 /\ Len(roots) = 0
      /\ Len(drawn) = 0 /\ stack = <<>> /\ drawn = <<>>
  BY DEF Init
<1>2. PoolsFit
  BY <1>1, LayoutAssumption DEF Init, PoolsFit
<1>3. IdsOK
  BY <1>1, LayoutAssumption DEF Init, IdsOK
<1>4. ParentsOK /\ KidsOK /\ OpenTree /\ DrawnOK /\ RootsOK
  BY <1>1 DEF Init, ParentsOK, KidsOK, OpenTree, DrawnOK, RootsOK
<1>5. RowsOK
  <2>1. {e \in 1 .. Len(elements) : elements[e].kids # <<>>} = {}
    BY <1>1
  <2> QED BY <2>1, FS_EmptySet DEF Init, RowsOK
<1>6. SiblingsApart
  BY <1>1 DEF SiblingsApart
<1>7. PressOK
  BY <1>1 DEF Init, PressOK
<1> QED BY <1>1, <1>2, <1>3, <1>4, <1>5, <1>6, <1>7 DEF Init, TreeInv

(* What was drawn stays as it is.                                          *)
LEMMA DrawnStays ==
    ASSUME TreeInv, UNCHANGED <<drawn, told, pressed, input, lastDown>>,
           \A i \in 1 .. Len(drawn) :
               LET e == drawn[i].element
               IN  /\ elements'[e].id = elements[e].id
                   /\ elements'[e].parent = elements[e].parent
                   /\ elements'[e].x = elements[e].x
                   /\ elements'[e].y = elements[e].y
    PROVE  SiblingsApart' /\ PressOK'
<1>1. DOMAIN drawn = 1 .. Len(drawn) /\ DOMAIN drawn' = 1 .. Len(drawn)
  BY TreeFacts
<1>2. SiblingsApart'
  <2>1. SiblingsApart
    BY TreeFacts
  <2>2. SUFFICES ASSUME NEW i \in 1 .. Len(drawn), NEW j \in 1 .. Len(drawn)
                 PROVE  LET a == drawn[i]
                            b == drawn[j]
                            Placed(e) == elements'[e].x # 0
                                         \/ elements'[e].y # 0
                        IN  \/ i >= j
                            \/ elements'[a.element].parent
                                   # elements'[b.element].parent
                            \/ elements'[a.element].parent = 0
                            \/ Placed(a.element) \/ Placed(b.element)
                            \/ a.x + a.width <= b.x
                            \/ a.y + a.height <= b.y
    BY <1>1 DEF SiblingsApart
  <2>3. LET a == drawn[i]
            b == drawn[j]
            Placed(e) == elements[e].x # 0 \/ elements[e].y # 0
        IN  \/ i >= j
            \/ elements[a.element].parent # elements[b.element].parent
            \/ elements[a.element].parent = 0
            \/ Placed(a.element) \/ Placed(b.element)
            \/ a.x + a.width <= b.x
            \/ a.y + a.height <= b.y
    BY <1>1, <2>1 DEF SiblingsApart
  <2> QED BY <2>3
<1>3. PressOK'
  BY DEF TreeInv, PressOK, GoesDown, Under
<1> QED BY <1>2, <1>3

LEMMA BeginFrameTree ==
    ASSUME BoxInv, TreeInv, BeginFrame
    PROVE  TreeInv'
<1>1. /\ Len(elements') = 0 /\ Len(stack') = 0 /\ Len(roots') = 0
      /\ Len(drawn') = 0 /\ stack' = <<>> /\ drawn' = <<>>
      /\ elements' = <<>> /\ roots' = <<>> /\ rows' = 0 /\ begins' = 0
      /\ unstacked' = {} /\ told' = pressed /\ lastDown' = input.down
      /\ input' \in Inputs /\ pc' = "building"
      /\ UNCHANGED <<active, pressed, mouseDown>>
  BY DEF BeginFrame, mouseVars
<1>2. PoolsFit'
  BY <1>1, LayoutAssumption DEF PoolsFit
<1>3. IdsOK'
  <2>1. {active, pressed, mouseDown, told} \subseteq 0 .. MaxBegins
    BY DEF TreeInv, IdsOK
  <2> QED BY <1>1, <2>1, LayoutAssumption DEF IdsOK
<1>4. ParentsOK' /\ KidsOK' /\ OpenTree' /\ DrawnOK' /\ RootsOK'
  BY <1>1 DEF ParentsOK, KidsOK, OpenTree, DrawnOK, RootsOK
<1>5. RowsOK'
  <2>1. {e \in 1 .. Len(elements') : elements'[e].kids # <<>>} = {}
    BY <1>1
  <2> QED BY <1>1, <2>1, FS_EmptySet DEF RowsOK
<1>6. SiblingsApart'
  BY <1>1 DEF SiblingsApart
<1>7. PressOK'
  BY <1>1 DEF PressOK
<1>8. lastDown' \in BOOLEAN
  <2>1. input \in Inputs \union {[at |-> <<0, 0>>, down |-> FALSE]}
    BY DEF TreeInv
  <2>2. input.down \in BOOLEAN
    <3>1. CASE input = [at |-> <<0, 0>>, down |-> FALSE]
      BY <3>1
    <3>2. CASE input \in Inputs
      BY <3>2 DEF Inputs
    <3> QED BY <2>1, <3>1, <3>2
  <2> QED BY <1>1, <2>2
<1> QED BY <1>1, <1>2, <1>3, <1>4, <1>5, <1>6, <1>7, <1>8 DEF TreeInv

LEMMA IdsKept ==
    ASSUME IdsOK, begins \in Nat, begins' \in Nat,
           begins <= begins', begins' <= MaxBegins,
           UNCHANGED <<elements, active, pressed, mouseDown, told>>
    PROVE  IdsOK'
<1>1. ASSUME NEW e \in 1 .. Len(elements)
      PROVE  elements[e].id \in 1 .. begins'
  <2>1. elements[e].id \in 1 .. begins
    BY DEF IdsOK
  <2> QED BY <2>1
<1> QED BY <1>1 DEF IdsOK

(* Steps that change none of this.                                         *)
LEMMA TreeUnchanged ==
    ASSUME BoxInv, TreeInv,
           UNCHANGED <<input, lastDown, active, pressed, mouseDown, current,
                       roots, stack, elements, rows, unstacked, drawn, told>>,
           begins' \in Nat, begins <= begins', begins' <= MaxBegins,
           \/ pc' \in {"building", "out of child lists"}
           \/ pc' = "between" /\ stack = <<>>
    PROVE  TreeInv'
<1>1. UNCHANGED <<input, lastDown, active, pressed, mouseDown, current, roots,
                  stack, elements, rows, unstacked, drawn, told>>
  OBVIOUS
<1>2. SiblingsApart' /\ PressOK'
  BY <1>1, DrawnStays
<1>3. IdsOK'
  <2>1. IdsOK /\ begins \in Nat
    BY TreeFacts, PoolFacts
  <2> QED BY <2>1, IdsKept
<1>4. PoolsFit' /\ OpenTree' /\ DrawnOK'
  BY <1>1, TreeFacts DEF PoolsFit, OpenTree, DrawnOK, Last
<1>a. ParentsOK'
  BY <1>1, TreeFacts DEF ParentsOK
<1>b. KidsOK'
  BY <1>1, TreeFacts DEF KidsOK
<1>c. RowsOK'
  BY <1>1, TreeFacts DEF RowsOK
<1>5. RootsOK'
  BY <1>1, TreeFacts DEF RootsOK, Accounted, InTree
<1> QED BY <1>1, <1>2, <1>3, <1>4, <1>5, <1>a, <1>b, <1>c DEF TreeInv

-----------------------------------------------------------------------------
(* box_begin                                                               *)

(* A new element is the last of the pool, and a child of parent.           *)
Grown(parent) ==
    /\ elements' \in Seq(Element)
    /\ Len(elements') = Len(elements) + 1
    /\ \A e \in 1 .. Len(elements) :
          /\ elements'[e].id = elements[e].id
          /\ elements'[e].parent = elements[e].parent
          /\ elements'[e].x = elements[e].x
          /\ elements'[e].y = elements[e].y
          /\ elements'[e].kids = IF e = parent
                                 THEN Append(elements[e].kids,
                                             Len(elements) + 1)
                                 ELSE elements[e].kids
    /\ elements'[Len(elements) + 1].id = begins'
    /\ elements'[Len(elements) + 1].parent = parent
    /\ elements'[Len(elements) + 1].kids = <<>>

LEMMA AppendGrows ==
    ASSUME NEW pool \in Seq(Element), elements \in Seq(Element),
           Len(pool) = Len(elements), NEW new \in Element,
           NEW parent,
           \A e \in 1 .. Len(elements) :
              /\ pool[e].id = elements[e].id
              /\ pool[e].parent = elements[e].parent
              /\ pool[e].x = elements[e].x
              /\ pool[e].y = elements[e].y
              /\ pool[e].kids = IF e = parent
                                THEN Append(elements[e].kids,
                                            Len(elements) + 1)
                                ELSE elements[e].kids,
           new.id = begins', new.parent = parent, new.kids = <<>>,
           elements' = Append(pool, new)
    PROVE  Grown(parent)
<1>1. /\ elements' \in Seq(Element) /\ Len(elements') = Len(elements) + 1
      /\ \A e \in 1 .. Len(elements) : elements'[e] = pool[e]
      /\ elements'[Len(elements) + 1] = new
  OBVIOUS
<1> QED BY <1>1 DEF Grown

LEMMA RootGrows ==
    ASSUME BoxInv, TreeInv, BoxBeginRoot
    PROVE  Grown(0)
<1>1. elements \in Seq(Element) /\ begins' \in Nat
  BY PoolFacts DEF BoxBeginRoot, CallBoxBegin
<1>2. PICK new \in Element :
         /\ elements' = Append(elements, new)
         /\ new.parent = 0 /\ new.id = begins' /\ new.kids = <<>>
  <2>1. /\ NewElement(begins', 0) \in Element
        /\ NewElement(begins', 0).parent = 0
        /\ NewElement(begins', 0).id = begins'
        /\ NewElement(begins', 0).kids = <<>>
    BY <1>1, NewElementType DEF NewElement
  <2>2. PICK n \in Element : n = NewElement(begins', 0)
    BY <2>1
  <2>3. LET root == [n EXCEPT !.width = Width, !.maxWidth = Width,
                              !.height = Height, !.maxHeight = Height]
        IN  /\ root \in Element
            /\ root.parent = n.parent /\ root.id = n.id /\ root.kids = n.kids
    BY LayoutAssumption DEF Element
  <2>4. \/ elements' = Append(elements, n)
        \/ elements' = Append(elements,
             [n EXCEPT !.width = Width, !.maxWidth = Width,
                       !.height = Height, !.maxHeight = Height])
    BY <2>2 DEF BoxBeginRoot
  <2> QED BY <2>1, <2>2, <2>3, <2>4
<1>3. \A e \in 1 .. Len(elements) : e # 0
  BY <1>1
<1> QED BY <1>1, <1>2, <1>3, AppendGrows

LEMMA ChildGrows ==
    ASSUME BoxInv, TreeInv, BoxBeginChild
    PROVE  /\ stack # <<>> /\ Last(stack) \in 1 .. Len(elements)
           /\ Grown(Last(stack))
<1>1. /\ elements \in Seq(Element) /\ begins' \in Nat /\ stack \in Seq(Nat)
      /\ \A k \in 1 .. Len(stack) : stack[k] \in 1 .. Len(elements)
      /\ Len(elements) \in Nat
  <2>1. begins \in Nat
    BY PoolFacts
  <2>2. begins' \in Nat
    BY <2>1 DEF BoxBeginChild, CallBoxBegin
  <2> QED BY <2>2, PoolFacts
<1>2. stack # <<>>
  BY DEF BoxBeginChild
<1>3. PICK p \in 1 .. Len(elements) : p = Last(stack)
  <2>1. Len(stack) \in 1 .. Len(stack)
    BY <1>1, <1>2
  <2> QED BY <1>1, <2>1 DEF Last
<1>4. PICK pool : pool = [elements EXCEPT ![p].kids =
                             Append(@, Len(elements) + 1)]
  OBVIOUS
<1>5. elements' = Append(pool, NewElement(begins', p))
  BY <1>3, <1>4 DEF BoxBeginChild
<1>6. PICK list : list = Append(elements[p].kids, Len(elements) + 1)
  OBVIOUS
<1>7. list \in Seq(Nat)
  BY <1>1, <1>6, ElementFacts
<1>8. PICK old \in Element : old = elements[p]
  BY <1>1, ElementFacts
<1>9. LET b == [old EXCEPT !.kids = list]
      IN  /\ b \in Element /\ b.id = old.id /\ b.parent = old.parent
          /\ b.x = old.x /\ b.y = old.y /\ b.kids = list
  BY <1>7 DEF Element
<1>10. pool = [elements EXCEPT ![p] = [old EXCEPT !.kids = list]]
  BY <1>4, <1>6, <1>8
<1>11. /\ pool \in Seq(Element) /\ Len(pool) = Len(elements)
       /\ pool[p] = [old EXCEPT !.kids = list]
       /\ \A e \in 1 .. Len(elements) : e # p => pool[e] = elements[e]
  BY <1>1, <1>9, <1>10
<1>12. NewElement(begins', p) \in Element /\ NewElement(begins', p).parent = p
       /\ NewElement(begins', p).id = begins'
       /\ NewElement(begins', p).kids = <<>>
  BY <1>1, NewElementType DEF NewElement
<1>13. \A e \in 1 .. Len(elements) :
          /\ pool[e].id = elements[e].id
          /\ pool[e].parent = elements[e].parent
          /\ pool[e].x = elements[e].x
          /\ pool[e].y = elements[e].y
          /\ pool[e].kids = IF e = p
                            THEN Append(elements[e].kids, Len(elements) + 1)
                            ELSE elements[e].kids
  BY <1>6, <1>8, <1>9, <1>11
<1>14. Grown(p)
  BY <1>1, <1>5, <1>11, <1>12, <1>13, AppendGrows
<1> QED BY <1>2, <1>3, <1>14

LEMMA IdsGrow ==
    ASSUME BoxInv, TreeInv, CallBoxBegin, NEW parent, Grown(parent)
    PROVE  IdsOK'
<1>1. PICK n \in Nat : n = Len(elements)
  BY PoolFacts
<1>2. /\ begins \in Nat /\ begins' = begins + 1 /\ begins < MaxBegins
      /\ UNCHANGED <<active, pressed, mouseDown, told>>
  BY PoolFacts DEF CallBoxBegin, mouseVars
<1>3. MaxBegins \in Nat
  BY LayoutAssumption
<1>4. IdsOK
  BY TreeFacts
<1>5. ASSUME NEW e \in 1 .. n + 1 PROVE elements'[e].id \in 1 .. begins'
  <2>1. CASE e = n + 1
    <3>1. elements'[e].id = begins'
      BY <1>1, <2>1 DEF Grown
    <3> QED BY <1>2, <3>1
  <2>2. CASE e \in 1 .. n
    <3>1. elements'[e].id = elements[e].id /\ elements[e].id \in 1 .. begins
      BY <1>1, <1>4, <2>2 DEF Grown, IdsOK
    <3> QED BY <1>2, <3>1
  <2> QED BY <2>1, <2>2
<1>6. Len(elements') = n + 1 /\ begins' <= MaxBegins
  BY <1>1, <1>2, <1>3 DEF Grown
<1> QED BY <1>2, <1>4, <1>5, <1>6 DEF IdsOK

LEMMA KidsOfGrown ==
    ASSUME BoxInv, TreeInv, NEW parent \in 0 .. Len(elements), Grown(parent)
    PROVE  \A e \in 1 .. Len(elements) :
              /\ \A i \in 1 .. Len(elements[e].kids) :
                    elements'[e].kids[i] = elements[e].kids[i]
              /\ e # parent => Len(elements'[e].kids) = Len(elements[e].kids)
              /\ e = parent =>
                    LET n == Len(elements[e].kids) + 1
                    IN  /\ Len(elements'[e].kids) = n
                        /\ elements'[e].kids[n] = Len(elements) + 1
<1>1. elements \in Seq(Element) /\ Len(elements) \in Nat
  BY PoolFacts
<1>2. ASSUME NEW e \in 1 .. Len(elements)
      PROVE  /\ \A i \in 1 .. Len(elements[e].kids) :
                   elements'[e].kids[i] = elements[e].kids[i]
             /\ e # parent => Len(elements'[e].kids) = Len(elements[e].kids)
             /\ e = parent =>
                   LET n == Len(elements[e].kids) + 1
                   IN  /\ Len(elements'[e].kids) = n
                       /\ elements'[e].kids[n] = Len(elements) + 1
  <2>1. elements[e].kids \in Seq(Nat)
    BY <1>1, ElementFacts
  <2>2. PICK k \in Seq(Nat) : k = elements[e].kids
    BY <2>1
  <2>3. elements'[e].kids = IF e = parent THEN Append(k, Len(elements) + 1)
                                          ELSE k
    BY <2>2 DEF Grown
  <2>4. PICK n \in Nat : n = Len(elements) + 1
    BY <1>1
  <2>5. PICK l : l = Append(k, n)
    OBVIOUS
  <2>6. /\ \A i \in 1 .. Len(k) : l[i] = k[i]
        /\ Len(l) = Len(k) + 1 /\ l[Len(k) + 1] = n
    BY <2>5
  <2> QED BY <2>2, <2>3, <2>4, <2>5, <2>6
<1> QED BY <1>2

LEMMA ParentsGrow ==
    ASSUME BoxInv, TreeInv, NEW parent \in 0 .. Len(elements), Grown(parent)
    PROVE  ParentsOK'
<1>1. PICK n \in Nat : n = Len(elements)
  BY PoolFacts
<1>2. SUFFICES ASSUME NEW e \in 1 .. n + 1
               PROVE  LET p == elements'[e].parent
                      IN  /\ p < e
                          /\ p # 0 => \E i \in 1 .. Len(elements'[p].kids) :
                                         elements'[p].kids[i] = e
  BY <1>1 DEF Grown, ParentsOK
<1>3. CASE e = n + 1
  <2>1. elements'[e].parent = parent
    BY <1>1, <1>3 DEF Grown
  <2>2. parent < e
    BY <1>1, <1>3
  <2>3. ASSUME parent # 0
        PROVE  \E i \in 1 .. Len(elements'[parent].kids) :
                  elements'[parent].kids[i] = e
    <3>1. parent \in 1 .. Len(elements)
      BY <1>1, <2>3
    <3>2. PICK k \in Nat : k = Len(elements[parent].kids)
      BY <3>1, ElementFacts, PoolFacts
    <3>3. /\ Len(elements'[parent].kids) = k + 1
          /\ elements'[parent].kids[k + 1] = e
      BY <1>1, <1>3, <3>1, <3>2, KidsOfGrown
    <3> QED BY <3>3
  <2> QED BY <2>1, <2>2, <2>3
<1>4. CASE e \in 1 .. n
  <2>1. PICK p \in Nat : p = elements[e].parent /\ p < e
    BY <1>1, <1>4, TreeFacts, PoolFacts, ElementFacts DEF ParentsOK
  <2>2. elements'[e].parent = p
    BY <1>1, <1>4, <2>1 DEF Grown
  <2>3. ASSUME p # 0
        PROVE  \E i \in 1 .. Len(elements'[p].kids) : elements'[p].kids[i] = e
    <3>1. p \in 1 .. Len(elements)
      BY <1>1, <1>4, <2>1, <2>3
    <3>2. PICK i \in 1 .. Len(elements[p].kids) : elements[p].kids[i] = e
      BY <1>1, <1>4, <2>1, <2>3, TreeFacts DEF ParentsOK
    <3>3. PICK k \in Nat : k = Len(elements[p].kids)
      BY <3>1, ElementFacts, PoolFacts
    <3>4. elements'[p].kids[i] = e
      BY <3>1, <3>2, KidsOfGrown
    <3>5. Len(elements'[p].kids) = k \/ Len(elements'[p].kids) = k + 1
      BY <3>1, <3>3, KidsOfGrown
    <3>6. i \in 1 .. Len(elements'[p].kids)
      BY <3>2, <3>3, <3>5
    <3> QED BY <3>4, <3>6
  <2> QED BY <2>1, <2>2, <2>3
<1> QED BY <1>3, <1>4

LEMMA KidsGrow ==
    ASSUME BoxInv, TreeInv, NEW parent \in 0 .. Len(elements), Grown(parent)
    PROVE  KidsOK'
<1>1. PICK n \in Nat : n = Len(elements)
  BY PoolFacts
<1>2. SUFFICES ASSUME NEW e \in 1 .. n + 1
               PROVE  LET kids == elements'[e].kids
                      IN  /\ \A i \in 1 .. Len(kids) :
                                /\ kids[i] \in 1 .. n + 1
                                /\ elements'[kids[i]].parent = e
                          /\ \A i, j \in 1 .. Len(kids) :
                                kids[i] = kids[j] => i = j
  BY <1>1 DEF Grown, KidsOK
<1>3. CASE e = n + 1
  <2>1. elements'[e].kids = <<>> /\ Len(<<>>) = 0
    BY <1>1, <1>3 DEF Grown
  <2> QED BY <2>1
<1>4. CASE e \in 1 .. n
  <2>1. PICK k \in Nat : k = Len(elements[e].kids)
    BY <1>1, <1>4, ElementFacts, PoolFacts
  <2>2. /\ \A i \in 1 .. k : elements[e].kids[i] \in 1 .. n
                             /\ elements[elements[e].kids[i]].parent = e
        /\ \A i, j \in 1 .. k : elements[e].kids[i] = elements[e].kids[j]
                                  => i = j
    BY <1>1, <1>4, <2>1, TreeFacts DEF KidsOK
  <2>3. PICK kids : kids = elements'[e].kids
    OBVIOUS
  <2>4. /\ \A i \in 1 .. k : kids[i] = elements[e].kids[i]
        /\ e # parent => Len(kids) = k
        /\ e = parent => Len(kids) = k + 1 /\ kids[k + 1] = n + 1
    BY <1>1, <1>4, <2>1, <2>3, KidsOfGrown
  <2>5. ASSUME NEW i \in 1 .. k
        PROVE  kids[i] \in 1 .. n /\ elements'[kids[i]].parent = e
    <3>1. PICK kid \in 1 .. n : kid = kids[i] /\ elements[kid].parent = e
      BY <2>2, <2>4
    <3>2. elements'[kid].parent = elements[kid].parent
      BY <1>1 DEF Grown
    <3> QED BY <3>1, <3>2
  <2>6. elements'[n + 1].parent = parent
    BY <1>1 DEF Grown
  <2>7. \A i, j \in 1 .. k : kids[i] = kids[j] => i = j
    BY <2>2, <2>4
  <2>8. CASE e # parent
    <3>1. Len(kids) = k
      BY <2>4, <2>8
    <3>2. \A i \in 1 .. k : kids[i] \in 1 .. n + 1
      BY <2>5
    <3> QED BY <2>3, <2>5, <2>7, <3>1, <3>2
  <2>9. CASE e = parent
    <3>1. \A i \in 1 .. k + 1 : i \in 1 .. k \/ i = k + 1
      OBVIOUS
    <3>2. ASSUME NEW i \in 1 .. k + 1
          PROVE  kids[i] \in 1 .. n + 1 /\ elements'[kids[i]].parent = e
      <4>1. CASE i = k + 1
        BY <2>4, <2>6, <2>9, <4>1
      <4>2. CASE i \in 1 .. k
        BY <2>5, <4>2
      <4> QED BY <3>1, <4>1, <4>2
    <3>3. ASSUME NEW i \in 1 .. k PROVE kids[i] # kids[k + 1]
      BY <2>4, <2>5, <2>9
    <3>4. ASSUME NEW i \in 1 .. k + 1, NEW j \in 1 .. k + 1, kids[i] = kids[j]
          PROVE  i = j
      BY <2>7, <3>1, <3>3, <3>4
    <3> QED BY <2>3, <2>4, <2>9, <3>2, <3>4
  <2> QED BY <2>8, <2>9
<1> QED BY <1>3, <1>4

(* A box that gets its first child takes a child list, no other does.      *)
LEMMA RowsGrow ==
    ASSUME BoxInv, TreeInv, NEW parent \in 0 .. Len(elements), Grown(parent),
           rows' = IF parent # 0 /\ elements[parent].kids = <<>>
                   THEN rows + 1 ELSE rows
    PROVE  RowsOK'
<1>1. PICK n \in Nat : n = Len(elements)
  BY PoolFacts
<1>. DEFINE S == {e \in 1 .. n : elements[e].kids # <<>>}
            T == {e \in 1 .. n + 1 : elements'[e].kids # <<>>}
<1>2. rows = Cardinality(S) /\ IsFiniteSet(S)
  <2>1. rows = Cardinality(S)
    BY <1>1, TreeFacts DEF RowsOK
  <2>2. IsFiniteSet(1 .. n) /\ S \subseteq 1 .. n
    BY <1>1, FS_Interval
  <2> QED BY <2>1, <2>2, FS_Subset
<1>3. ASSUME NEW e \in 1 .. n, e # parent PROVE e \in T <=> e \in S
  BY <1>1, <1>3 DEF Grown
<1>4. n + 1 \notin T /\ n + 1 \notin S
  BY <1>1 DEF Grown
<1>5. ASSUME parent # 0 PROVE parent \in T
  <2>1. parent \in 1 .. n
    BY <1>1, <1>5
  <2>2. PICK k \in Nat : k = Len(elements[parent].kids)
    BY <1>1, <2>1, ElementFacts, PoolFacts
  <2>3. Len(elements'[parent].kids) = k + 1
    BY <1>1, <2>1, <2>2, KidsOfGrown
  <2>4. Len(elements'[parent].kids) # 0 /\ Len(<<>>) = 0
    BY <2>3
  <2>5. elements'[parent].kids # <<>>
    BY <2>4
  <2> QED BY <1>1, <2>1, <2>5
<1>6. CASE parent = 0 \/ parent \in S
  <2>1. T = S
    BY <1>3, <1>4, <1>5, <1>6
  <2>2. rows' = rows
    BY <1>1, <1>6
  <2> QED BY <1>1, <1>2, <2>1, <2>2 DEF RowsOK, Grown
<1>7. CASE parent # 0 /\ parent \notin S
  <2>1. T = S \union {parent}
    BY <1>1, <1>3, <1>4, <1>5, <1>7
  <2>2. parent \in 1 .. n /\ elements[parent].kids = <<>>
    BY <1>1, <1>7
  <2>3. Cardinality(T) = Cardinality(S) + 1
    <3>. HIDE DEF S, T
    <3> QED BY <1>2, <1>7, <2>1, FS_AddElement
  <2>4. rows' = rows + 1
    BY <1>7, <2>2
  <2>5. rows' = Cardinality(T)
    BY <1>2, <2>3, <2>4
  <2>6. T = {e \in 1 .. Len(elements') : elements'[e].kids # <<>>}
    BY <1>1 DEF Grown
  <2> QED BY <2>5, <2>6 DEF RowsOK
<1> QED BY <1>6, <1>7

(* What layout_parent_push does to the stack.                              *)
LEMMA PushOutcome ==
    ASSUME BoxInv, NEW new, PushParent(new)
    PROVE  \/ /\ Len(stack') = Len(stack) + 1 /\ Len(stack') < ParentMax
              /\ stack' # <<>>
              /\ \A k \in 1 .. Len(stack) : stack'[k] = stack[k]
              /\ stack'[Len(stack) + 1] = new
              /\ unstacked' = unstacked
           \/ stack' = stack /\ unstacked' = unstacked \union {new}
<1>1. stack \in Seq(Nat) /\ Len(stack) \in Nat
  BY PoolFacts
<1>2. CASE stack' = Append(stack, new) /\ Len(stack) + 1 < ParentMax
           /\ unstacked' = unstacked
  <2>1. PICK s \in Seq(Nat) : s = stack
    BY <1>1
  <2>2. PICK t : t = Append(s, new)
    OBVIOUS
  <2>3. /\ Len(t) = Len(s) + 1 /\ t # <<>>
        /\ \A k \in 1 .. Len(s) : t[k] = s[k]
        /\ t[Len(s) + 1] = new
    BY <2>2
  <2> QED BY <1>2, <2>1, <2>2, <2>3
<1> QED BY <1>2 DEF PushParent

LEMMA InTreeKept ==
    ASSUME NEW u \in Nat, NEW r \in Nat, InTree(u, r),
           \A e \in 1 .. u : elements'[e].parent = elements[e].parent
    PROVE  InTree(u, r)'
  BY DEF InTree

LEMMA OpenTreeGrows ==
    ASSUME BoxInv, TreeInv,
           Grown(IF stack = <<>> THEN 0 ELSE Last(stack)),
           current' = Len(elements) + 1,
           \/ PushParent(Len(elements) + 1)
           \/ stack' = <<>>
    PROVE  OpenTree'
<1>1. PICK n \in Nat : n = Len(elements)
  BY PoolFacts
<1>2. PICK m \in Nat : m = Len(stack)
  BY PoolFacts
<1>3. /\ stack \in Seq(Nat)
      /\ \A k \in 1 .. m : stack[k] \in 1 .. n
  BY <1>1, <1>2, PoolFacts
<1>4. stack # <<>> =>
         /\ 1 \in 1 .. m /\ Last(stack) = stack[m] /\ m \in 1 .. m
         /\ \A k \in 1 .. m : stack[1] <= stack[k]
         /\ \A e \in stack[1] + 1 .. n : elements[e].parent # 0
         /\ stack[1] \in 1 .. n
  BY <1>1, <1>2, <1>3, TreeFacts DEF OpenTree, Last
<1>5. stack = <<>> => m = 0
  BY <1>2
<1>6. Len(elements') = n + 1
      /\ \A e \in 1 .. n : elements'[e].parent = elements[e].parent
  BY <1>1 DEF Grown
<1>7. stack # <<>> => elements'[n + 1].parent # 0
  <2>1. SUFFICES ASSUME stack # <<>> PROVE elements'[n + 1].parent # 0
    OBVIOUS
  <2>2. elements'[n + 1].parent = Last(stack)
    BY <1>1, <2>1 DEF Grown
  <2>3. stack[m] \in 1 .. n
    BY <1>3, <1>4, <2>1
  <2> QED BY <1>4, <2>1, <2>2, <2>3
<1>8. ASSUME stack # <<>>
      PROVE  \A e \in stack[1] + 1 .. n + 1 : elements'[e].parent # 0
  <2>1. ASSUME NEW e \in stack[1] + 1 .. n + 1 PROVE elements'[e].parent # 0
    <3>1. CASE e = n + 1
      BY <1>7, <1>8, <3>1
    <3>2. CASE e # n + 1
      <4>1. e \in stack[1] + 1 .. n /\ e \in 1 .. n
        BY <1>4, <1>8, <3>2
      <4> QED BY <1>4, <1>6, <1>8, <4>1
    <3> QED BY <3>1, <3>2
  <2> QED BY <2>1
<1>9. CASE stack' = <<>>
  BY <1>9 DEF OpenTree
<1>10. CASE /\ Len(stack') = m + 1 /\ stack' # <<>>
            /\ \A k \in 1 .. m : stack'[k] = stack[k]
            /\ stack'[m + 1] = n + 1
  <2>1. Last(stack') = n + 1
    BY <1>10 DEF Last
  <2>2. CASE stack = <<>>
    <3>1. m = 0 /\ stack'[1] = n + 1
      BY <1>5, <1>10, <2>2
    <3>2. \A k \in 1 .. Len(stack') : k = 1
      BY <1>10, <3>1
    <3>3. \A k \in 1 .. Len(stack') : stack'[1] <= stack'[k]
      BY <3>1, <3>2
    <3>4. \A e \in stack'[1] + 1 .. Len(elements') : elements'[e].parent # 0
      BY <1>6, <3>1
    <3> QED BY <1>1, <2>1, <3>1, <3>3, <3>4 DEF OpenTree
  <2>3. CASE stack # <<>>
    <3>1. stack'[1] = stack[1] /\ stack[1] <= n + 1 /\ stack[1] \in Nat
      BY <1>3, <1>4, <1>10, <2>3
    <3>2. ASSUME NEW k \in 1 .. m + 1 PROVE stack'[1] <= stack'[k]
      <4>1. CASE k = m + 1
        BY <1>10, <3>1, <4>1
      <4>2. CASE k \in 1 .. m
        BY <1>4, <1>10, <2>3, <3>1, <4>2
      <4> QED BY <4>1, <4>2
    <3>3. \A e \in stack'[1] + 1 .. Len(elements') : elements'[e].parent # 0
      BY <1>6, <1>8, <2>3, <3>1
    <3> QED BY <1>1, <1>10, <2>1, <3>1, <3>2, <3>3 DEF OpenTree
  <2> QED BY <2>2, <2>3
<1>11. CASE /\ stack' = stack /\ stack # <<>>
            /\ unstacked' = unstacked \union {n + 1}
  <2>1. stack[1] <= n + 1
    BY <1>4, <1>11
  <2>2. \A k \in 1 .. Len(stack') : stack'[1] <= stack'[k]
    BY <1>2, <1>4, <1>11
  <2>3. \A e \in stack'[1] + 1 .. Len(elements') : elements'[e].parent # 0
    BY <1>6, <1>8, <1>11
  <2>4. \E u \in unstacked' : stack'[1] <= u
    BY <1>11, <2>1
  <2> QED BY <1>1, <1>11, <2>1, <2>2, <2>3, <2>4 DEF OpenTree
<1>12. CASE PushParent(Len(elements) + 1)
  <2>1. \/ /\ Len(stack') = m + 1 /\ stack' # <<>>
           /\ \A k \in 1 .. m : stack'[k] = stack[k]
           /\ stack'[m + 1] = n + 1
        \/ stack' = stack /\ unstacked' = unstacked \union {n + 1}
    BY <1>1, <1>2, <1>12, PushOutcome
  <2> QED BY <1>9, <1>10, <1>11, <2>1
<1> QED BY <1>9, <1>12

LEMMA DrawnGrows ==
    ASSUME BoxInv, TreeInv, NEW parent, Grown(parent), drawn' = drawn,
           \/ PushParent(Len(elements) + 1)
           \/ stack' = <<>>
    PROVE  DrawnOK'
<1>1. PICK n \in Nat : n = Len(elements)
  BY PoolFacts
<1>2. PICK m \in Nat : m = Len(stack)
  BY PoolFacts
<1>3. \A i \in 1 .. Len(drawn) :
         /\ drawn[i].element \in 1 .. n
         /\ stack # <<>> => drawn[i].element < stack[1]
  BY <1>1, TreeFacts DEF DrawnOK
<1>4. Len(elements') = n + 1
  BY <1>1 DEF Grown
<1>5. \A i \in 1 .. Len(drawn) : drawn[i].element \in 1 .. n + 1
  BY <1>3
<1>6. ASSUME stack' # <<>>, NEW i \in 1 .. Len(drawn)
      PROVE  drawn[i].element < stack'[1]
  <2>1. \/ /\ \A k \in 1 .. m : stack'[k] = stack[k]
           /\ stack'[m + 1] = n + 1
        \/ stack' = stack
    BY <1>1, <1>2, <1>6, PushOutcome
  <2>2. CASE stack = <<>>
    <3>1. m = 0
      BY <1>2, <2>2
    <3>2. stack'[1] = n + 1
      BY <1>6, <2>1, <2>2, <3>1
    <3> QED BY <1>3, <3>2
  <2>3. CASE stack # <<>>
    <3>1. 1 \in 1 .. m
      <4>1. stack \in Seq(Nat)
        BY PoolFacts
      <4> QED BY <1>2, <2>3, <4>1
    <3>2. stack'[1] = stack[1]
      BY <2>1, <3>1
    <3> QED BY <1>3, <2>3, <3>2
  <2> QED BY <2>2, <2>3
<1> QED BY <1>4, <1>5, <1>6, TreeFacts DEF DrawnOK

LEMMA RootsGrow ==
    ASSUME BoxInv, TreeInv,
           Grown(IF stack = <<>> THEN 0 ELSE Last(stack)), drawn' = drawn,
           \/ /\ roots' = roots
              /\ \/ PushParent(Len(elements) + 1)
                 \/ stack = <<>> /\ stack' = <<>> /\ unstacked' = unstacked
           \/ /\ roots' = Append(roots, Len(elements) + 1)
              /\ stack = <<>> /\ PushParent(Len(elements) + 1)
    PROVE  RootsOK'
<1>1. PICK n \in Nat : n = Len(elements)
  BY PoolFacts
<1>2. PICK m \in Nat : m = Len(stack)
  BY PoolFacts
<1>3. /\ roots \in Seq(Nat) /\ unstacked \subseteq 1 .. n
      /\ \A k \in 1 .. Len(roots) : roots[k] \in 1 .. n
  BY <1>1, TreeFacts DEF PoolsFit
<1>4. Len(elements') = n + 1
      /\ \A e \in 1 .. n : elements'[e].parent = elements[e].parent
  BY <1>1 DEF Grown
<1>5. \/ /\ stack' # <<>>
         /\ \A k \in 1 .. m : stack'[k] = stack[k]
         /\ stack'[m + 1] = n + 1
         /\ unstacked' = unstacked
      \/ stack' = stack /\ unstacked' = unstacked \union {n + 1}
      \/ stack' = stack /\ unstacked' = unstacked /\ roots' = roots
  BY <1>1, <1>2, PushOutcome
<1>6. ASSUME NEW r \in 1 .. n, Accounted(r)
      PROVE  Accounted(r)'
  <2>1. CASE stack # <<>> /\ stack[1] = r
    <3>1. 1 \in 1 .. m
      <4>1. stack \in Seq(Nat)
        BY PoolFacts
      <4> QED BY <1>2, <2>1, <4>1
    <3> QED BY <1>4, <1>5, <1>6, <2>1, <3>1 DEF Accounted
  <2>2. CASE \E i \in 1 .. Len(drawn) : drawn[i].element = r
    BY <1>4, <1>6, <2>2 DEF Accounted
  <2>3. CASE \E u \in unstacked : InTree(u, r)
    <3>1. PICK u \in unstacked : InTree(u, r)
      BY <2>3
    <3>2. u \in Nat /\ u \in unstacked' /\ u <= n
      BY <1>3, <1>5
    <3>3. \A e \in 1 .. u : elements'[e].parent = elements[e].parent
      BY <1>4, <3>2
    <3>4. InTree(u, r)'
      BY <3>1, <3>2, <3>3, InTreeKept
    <3> QED BY <1>4, <1>6, <3>2, <3>4 DEF Accounted
  <2> QED BY <1>6, <2>1, <2>2, <2>3 DEF Accounted
<1>7. ASSUME NEW k \in 1 .. Len(roots), NEW r, r = roots[k]
      PROVE  Accounted(r)'
  <2>1. r \in 1 .. n /\ Accounted(r)
    BY <1>3, <1>7, TreeFacts DEF RootsOK
  <2> QED BY <1>6, <2>1
<1>8. CASE roots' = roots
  <2>1. ASSUME NEW k \in 1 .. Len(roots') PROVE Accounted(roots[k])'
    <3>1. PICK r : r = roots[k]
      OBVIOUS
    <3>2. Accounted(r)'
      BY <1>7, <1>8, <2>1, <3>1
    <3> QED BY <1>8, <3>1, <3>2 DEF Accounted, InTree
  <2> QED BY <2>1 DEF RootsOK
<1>9. CASE roots' = Append(roots, n + 1) /\ stack = <<>>
           /\ PushParent(Len(elements) + 1)
  <2>1. elements'[n + 1].parent = 0
    BY <1>1, <1>9 DEF Grown
  <2>2. \/ stack' # <<>> /\ stack'[1] = n + 1
        \/ n + 1 \in unstacked'
    <3>1. m = 0
      BY <1>2, <1>9
    <3>2. \/ stack' # <<>> /\ stack'[m + 1] = n + 1
          \/ n + 1 \in unstacked'
      BY <1>1, <1>2, <1>9, PushOutcome
    <3> QED BY <3>1, <3>2
  <2>3. InTree(n + 1, n + 1)'
    BY <2>1 DEF InTree
  <2>4. /\ Len(roots') = Len(roots) + 1 /\ roots'[Len(roots) + 1] = n + 1
        /\ \A k \in 1 .. Len(roots) : roots'[k] = roots[k]
        /\ \A k \in 1 .. Len(roots) + 1 :
              k \in 1 .. Len(roots) \/ k = Len(roots) + 1
    BY <1>3, <1>9
  <2>5. ASSUME NEW k \in 1 .. Len(roots') PROVE Accounted(roots[k])'
    <3>1. PICK r : r = roots'[k]
      OBVIOUS
    <3>2. CASE k \in 1 .. Len(roots)
      <4>1. r = roots[k]
        BY <2>4, <3>1, <3>2
      <4>2. Accounted(r)'
        BY <1>7, <3>2, <4>1
      <4> QED BY <3>1, <4>2 DEF Accounted, InTree
    <3>3. CASE k = Len(roots) + 1
      <4>1. r = n + 1
        BY <2>4, <3>1, <3>3
      <4>2. Accounted(r)'
        BY <2>1, <2>2, <2>3, <4>1 DEF Accounted, InTree
      <4> QED BY <3>1, <4>2 DEF Accounted, InTree
    <3> QED BY <2>4, <2>5, <3>2, <3>3
  <2> QED BY <2>5 DEF RootsOK
<1> QED BY <1>1, <1>8, <1>9

LEMMA PoolsFitGrown ==
    ASSUME BoxInv, TreeInv, NEW parent, Grown(parent), ElementFits,
           \/ PushParent(Len(elements) + 1)
           \/ UNCHANGED <<stack, unstacked>>,
           \/ roots' = roots
           \/ Len(roots) + 1 < RootMax
              /\ roots' = Append(roots, Len(elements) + 1),
           rows' = rows \/ (rows' = rows + 1 /\ rows < ChildPoolMax)
    PROVE  PoolsFit'
<1>1. PICK n \in Nat : n = Len(elements)
  BY PoolFacts
<1>2. /\ Len(stack) < ParentMax /\ rows \in Nat /\ rows <= ChildPoolMax
      /\ roots \in Seq(Nat) /\ Len(roots) < RootMax
      /\ \A k \in 1 .. Len(roots) : roots[k] \in 1 .. n
      /\ unstacked \subseteq 1 .. n
  BY <1>1, TreeFacts DEF PoolsFit
<1>3. Len(elements') = n + 1 /\ Len(elements') < ElementMax
  BY <1>1 DEF Grown, ElementFits
<1>4. Len(stack') < ParentMax /\ unstacked' \subseteq 1 .. n + 1
  <2>1. \/ Len(stack') < ParentMax /\ unstacked' = unstacked
        \/ stack' = stack /\ unstacked' = unstacked \union {n + 1}
        \/ stack' = stack /\ unstacked' = unstacked
    BY <1>1, PushOutcome
  <2>2. unstacked \subseteq 1 .. n + 1 /\ n + 1 \in 1 .. n + 1
    BY <1>2
  <2> QED BY <1>2, <2>1, <2>2
<1>5. /\ roots' \in Seq(Nat) /\ Len(roots') < RootMax
      /\ \A k \in 1 .. Len(roots') : roots'[k] \in 1 .. n + 1
  <2>1. \A k \in 1 .. Len(roots) : roots[k] \in 1 .. n + 1
    BY <1>2
  <2>2. CASE roots' = roots
    BY <1>2, <2>1, <2>2
  <2>3. CASE Len(roots) + 1 < RootMax /\ roots' = Append(roots, n + 1)
    BY <1>2, <2>1, <2>3
  <2> QED BY <1>1, <2>2, <2>3
<1>6. rows' \in Nat /\ rows' <= ChildPoolMax
  <2>1. ChildPoolMax \in Nat
    BY LayoutAssumption
  <2>2. CASE rows' = rows
    BY <1>2, <2>2
  <2>3. CASE rows' = rows + 1 /\ rows < ChildPoolMax
    BY <1>2, <2>1, <2>3
  <2> QED BY <2>2, <2>3
<1> QED BY <1>3, <1>4, <1>5, <1>6 DEF PoolsFit

LEMMA DrawnStaysGrown ==
    ASSUME BoxInv, TreeInv, CallBoxBegin, NEW parent, Grown(parent)
    PROVE  SiblingsApart' /\ PressOK'
<1>1. UNCHANGED <<drawn, told, pressed, input, lastDown>>
  BY DEF CallBoxBegin, mouseVars
<1>2. \A i \in 1 .. Len(drawn) : drawn[i].element \in 1 .. Len(elements)
  BY TreeFacts DEF DrawnOK
<1>3. \A i \in 1 .. Len(drawn) :
         LET e == drawn[i].element
         IN  /\ elements'[e].id = elements[e].id
             /\ elements'[e].parent = elements[e].parent
             /\ elements'[e].x = elements[e].x
             /\ elements'[e].y = elements[e].y
  BY <1>2 DEF Grown
<1> QED BY <1>1, <1>3, DrawnStays

LEMMA BoxBeginTree ==
    ASSUME BoxInv, TreeInv, BoxBegin
    PROVE  TreeInv'
<1>1. /\ CallBoxBegin /\ pc = "building"
      /\ begins' \in Nat /\ begins <= begins' /\ begins' <= MaxBegins
  <2>1. CallBoxBegin
    BY DEF BoxBegin, BoxRefused, BoxBeginRoot, BoxBeginChild, BoxBeginTraps
  <2>2. begins \in Nat /\ MaxBegins \in Nat
    BY PoolFacts, LayoutAssumption
  <2> QED BY <2>1, <2>2 DEF CallBoxBegin
<1>2. UNCHANGED <<input, lastDown, active, pressed, mouseDown, drawn, told>>
  BY <1>1 DEF CallBoxBegin, mouseVars
<1>3. CASE BoxRefused \/ BoxBeginTraps
  <2>1. UNCHANGED <<current, roots, stack, elements, rows, unstacked>>
    BY <1>3 DEF BoxRefused, BoxBeginTraps, poolVars
  <2>2. pc' \in {"building", "out of child lists"}
    BY <1>1, <1>3 DEF BoxRefused, BoxBeginTraps
  <2> QED BY <1>1, <1>2, <2>1, <2>2, TreeUnchanged
<1>4. CASE BoxBeginRoot
  <2>1. /\ Grown(0) /\ stack = <<>> /\ ElementFits /\ pc' = pc /\ rows' = rows
        /\ current' = Len(elements) + 1
    BY <1>4, RootGrows DEF BoxBeginRoot
  <2>2. \/ /\ Len(roots) + 1 < RootMax
           /\ roots' = Append(roots, Len(elements) + 1)
           /\ PushParent(Len(elements) + 1)
        \/ UNCHANGED <<roots, stack, unstacked>>
    BY <1>4 DEF BoxBeginRoot
  <2>3. Grown(IF stack = <<>> THEN 0 ELSE Last(stack))
    BY <2>1
  <2>4. PoolsFit' /\ SiblingsApart' /\ PressOK' /\ IdsOK'
    BY <1>1, <2>1, <2>2, PoolsFitGrown, DrawnStaysGrown, IdsGrow
  <2>5. 0 \in 0 .. Len(elements)
    BY PoolFacts
  <2>6. ParentsOK' /\ KidsOK' /\ RowsOK'
    BY <2>1, <2>5, ParentsGrow, KidsGrow, RowsGrow
  <2>7. OpenTree'
    BY <2>1, <2>2, <2>3, OpenTreeGrows
  <2>8. DrawnOK'
    BY <1>2, <2>1, <2>2, DrawnGrows
  <2>9. RootsOK'
    BY <1>2, <2>1, <2>2, <2>3, RootsGrow
  <2>10. pc' = "building"
    BY <1>1, <2>1
  <2> QED BY <1>2, <2>4, <2>6, <2>7, <2>8, <2>9, <2>10 DEF TreeInv
<1>5. CASE BoxBeginChild
  <2>1. PICK p \in 1 .. Len(elements) : p = Last(stack)
    BY <1>5, ChildGrows
  <2>2. /\ Grown(p) /\ stack # <<>> /\ ElementFits /\ pc' = pc
        /\ roots' = roots /\ current' = Len(elements) + 1
        /\ PushParent(Len(elements) + 1) /\ ChildFits(p)
        /\ rows' = IF elements[p].kids = <<>> THEN rows + 1 ELSE rows
    BY <1>5, <2>1, ChildGrows DEF BoxBeginChild
  <2>3. Grown(IF stack = <<>> THEN 0 ELSE Last(stack))
    BY <2>1, <2>2
  <2>4. rows' = rows \/ (rows' = rows + 1 /\ rows < ChildPoolMax)
    BY <2>2 DEF ChildFits
  <2>5. PoolsFit' /\ SiblingsApart' /\ PressOK' /\ IdsOK'
    BY <1>1, <2>2, <2>4, PoolsFitGrown, DrawnStaysGrown, IdsGrow
  <2>6. p \in 0 .. Len(elements) /\ p # 0
    BY <2>1
  <2>7. ParentsOK' /\ KidsOK' /\ RowsOK'
    BY <2>2, <2>6, ParentsGrow, KidsGrow, RowsGrow
  <2>8. OpenTree'
    BY <2>2, <2>3, OpenTreeGrows
  <2>9. DrawnOK'
    BY <1>2, <2>2, DrawnGrows
  <2>10. RootsOK'
    BY <1>2, <2>2, <2>3, RootsGrow
  <2>11. pc' = "building"
    BY <1>1, <2>2
  <2> QED BY <1>2, <2>5, <2>7, <2>8, <2>9, <2>10, <2>11 DEF TreeInv
<1> QED BY <1>3, <1>4, <1>5 DEF BoxBegin

-----------------------------------------------------------------------------
(* The setters                                                             *)

LEMMA StyleTree ==
    ASSUME BoxInv, TreeInv,
           NEW field \in LengthFields \union {"direction"}, NEW value,
           Style(field, value)
    PROVE  TreeInv'
<1>1. /\ elements \in Seq(Element) /\ current \in 1 .. Len(elements)
      /\ elements' = [elements EXCEPT ![current][field] = value]
      /\ stack # <<>> /\ pc = "building" /\ pc' = "building"
      /\ UNCHANGED <<input, lastDown, begins, active, pressed, mouseDown,
                     current, roots, stack, rows, unstacked, drawn, told>>
  BY DEF BoxInv, PoolOK, CurrentOK, Style, mouseVars, historyVars
<1>2. PICK c \in Element : c = elements[current]
  BY <1>1, ElementFacts
<1>3. LET b == [c EXCEPT ![field] = value]
      IN  b.id = c.id /\ b.parent = c.parent /\ b.kids = c.kids
  BY DEF Element, LengthFields
<1>4. /\ Len(elements') = Len(elements)
      /\ \A e \in 1 .. Len(elements) :
            elements'[e] = IF e = current THEN [c EXCEPT ![field] = value]
                                          ELSE elements[e]
  BY <1>1, <1>2
<1>5. \A e \in 1 .. Len(elements) :
         /\ elements'[e].id = elements[e].id
         /\ elements'[e].parent = elements[e].parent
         /\ elements'[e].kids = elements[e].kids
         /\ e # current => elements'[e] = elements[e]
  BY <1>2, <1>3, <1>4
<1>6. /\ \A i \in 1 .. Len(drawn) :
            drawn[i].element \in 1 .. Len(elements)
            /\ drawn[i].element # current
      /\ stack[1] \in 1 .. Len(elements)
  <2>1. stack[1] <= current /\ stack[1] \in 1 .. Len(elements)
    <3>1. 1 \in 1 .. Len(stack)
      <4>1. stack \in Seq(Nat)
        BY PoolFacts
      <4> QED BY <1>1, <4>1
    <3> QED BY <1>1, <3>1, TreeFacts, PoolFacts DEF OpenTree
  <2> QED BY <1>1, <2>1, TreeFacts DEF DrawnOK
<1>7. SiblingsApart' /\ PressOK'
  BY <1>1, <1>5, <1>6, DrawnStays
<1>8. PoolsFit' /\ IdsOK' /\ DrawnOK'
  BY <1>1, <1>4, <1>5, TreeFacts DEF PoolsFit, IdsOK, DrawnOK
<1>9. OpenTree'
  <2>1. \A e \in stack[1] + 1 .. Len(elements) : e \in 1 .. Len(elements)
    BY <1>6
  <2> QED BY <1>1, <1>4, <1>5, <2>1, TreeFacts DEF OpenTree, Last
<1>10. ParentsOK'
  <2>1. SUFFICES ASSUME NEW e \in 1 .. Len(elements)
                 PROVE  LET p == elements[e].parent
                        IN  /\ p < e
                            /\ p # 0 => \E i \in 1 .. Len(elements'[p].kids) :
                                           elements'[p].kids[i] = e
    BY <1>4, <1>5 DEF ParentsOK
  <2>2. PICK p \in Nat : p = elements[e].parent /\ p < e
    BY <1>1, TreeFacts, ElementFacts DEF ParentsOK
  <2>3. ASSUME p # 0
        PROVE  \E i \in 1 .. Len(elements'[p].kids) : elements'[p].kids[i] = e
    <3>1. p \in 1 .. Len(elements)
      BY <1>1, <2>2, <2>3
    <3>2. \E i \in 1 .. Len(elements[p].kids) : elements[p].kids[i] = e
      BY <2>2, <2>3, TreeFacts DEF ParentsOK
    <3> QED BY <1>5, <3>1, <3>2
  <2> QED BY <2>2, <2>3
<1>11. KidsOK'
  <2>1. ASSUME NEW e \in 1 .. Len(elements), NEW kids,
               kids = elements[e].kids
        PROVE  /\ \A i \in 1 .. Len(kids) :
                     /\ kids[i] \in 1 .. Len(elements)
                     /\ elements'[kids[i]].parent = e
               /\ \A i, j \in 1 .. Len(kids) : kids[i] = kids[j] => i = j
    <3>1. /\ \A i \in 1 .. Len(kids) :
                kids[i] \in 1 .. Len(elements) /\ elements[kids[i]].parent = e
          /\ \A i, j \in 1 .. Len(kids) : kids[i] = kids[j] => i = j
      BY <2>1, TreeFacts DEF KidsOK
    <3> QED BY <1>5, <3>1
  <2>2. ASSUME NEW e \in 1 .. Len(elements)
        PROVE  elements'[e].kids = elements[e].kids
    BY <1>5
  <2>3. ASSUME NEW e \in 1 .. Len(elements'), NEW kids,
               kids = elements'[e].kids
        PROVE  /\ \A i \in 1 .. Len(kids) :
                     /\ kids[i] \in 1 .. Len(elements')
                     /\ elements'[kids[i]].parent = e
               /\ \A i, j \in 1 .. Len(kids) : kids[i] = kids[j] => i = j
    <3>1. Len(elements') = Len(elements) /\ e \in 1 .. Len(elements)
      BY <1>4
    <3>2. kids = elements[e].kids
      BY <2>2, <2>3, <3>1
    <3>3. \A i \in 1 .. Len(kids) : kids[i] \in 1 .. Len(elements)
      BY <2>1, <3>1, <3>2
    <3>4. \A i \in 1 .. Len(kids) : elements'[kids[i]].parent = e
      BY <2>1, <3>1, <3>2
    <3>5. \A i, j \in 1 .. Len(kids) : kids[i] = kids[j] => i = j
      BY <2>1, <3>1, <3>2
    <3> QED BY <3>1, <3>3, <3>4, <3>5
  <2> QED BY <2>3 DEF KidsOK
<1>12. RowsOK'
  <2>1. {e \in 1 .. Len(elements') : elements'[e].kids # <<>>}
           = {e \in 1 .. Len(elements) : elements[e].kids # <<>>}
    BY <1>4, <1>5
  <2> QED BY <1>1, <2>1, TreeFacts DEF RowsOK
<1>13. RootsOK'
  <2>1. ASSUME NEW k \in 1 .. Len(roots') PROVE Accounted(roots[k])'
    <3>1. PICK r : r = roots[k]
      OBVIOUS
    <3>2. r \in 1 .. Len(elements) /\ Accounted(r)
      BY <1>1, <2>1, <3>1, TreeFacts DEF RootsOK, PoolsFit
    <3>3. ASSUME NEW u \in unstacked, InTree(u, r) PROVE InTree(u, r)'
      <4>1. u \in 1 .. Len(elements)
        BY TreeFacts DEF PoolsFit
      <4>2. u \in Nat /\ r \in Nat /\ \A e \in 1 .. u : e \in 1 .. Len(elements)
        BY <3>2, <4>1
      <4>3. \A e \in 1 .. u : elements'[e].parent = elements[e].parent
        BY <1>5, <4>2
      <4> QED BY <3>3, <4>2, <4>3, InTreeKept
    <3>4. Accounted(r)'
      BY <1>1, <1>5, <3>2, <3>3 DEF Accounted
    <3> QED BY <1>1, <3>1, <3>4 DEF Accounted, InTree
  <2> QED BY <2>1 DEF RootsOK
<1> QED BY <1>1, <1>7, <1>8, <1>9, <1>10, <1>11, <1>12, <1>13 DEF TreeInv

-----------------------------------------------------------------------------
(* Drawing a tree                                                          *)

Place == [x : Nat, y : Nat, width : Nat, height : Nat]

Passes ==
    [box : [1 .. Len(elements) -> Place],
     cursor : [1 .. Len(elements) -> Nat \X Nat],
     order : Seq(Nat), sent : SUBSET Nat,
     active : Nat, pressed : Nat, mouseDown : Nat]

(* The parts of DrawBox: the corner that a box is placed at, its place,    *)
(* and where the next one of its parent goes.                              *)
CornerOf(pass, element) ==
    LET e == elements[element]
    IN  IF e.parent # 0 THEN pass.cursor[e.parent] ELSE <<0, 0>>

PlaceOf(pass, element) ==
    LET e      == elements[element]
        inside == e.parent # 0
        parent == pass.box[e.parent]
        corner == CornerOf(pass, element)
    IN  [x |-> e.x + corner[1], y |-> e.y + corner[2],
         width  |-> IF inside THEN Fit(e.width, e.maxWidth, parent.width)
                              ELSE FitRoot(e.width, e.maxWidth),
         height |-> IF inside THEN Fit(e.height, e.maxHeight, parent.height)
                              ELSE FitRoot(e.height, e.maxHeight)]

NextCorner(pass, element) ==
    LET e      == elements[element]
        corner == CornerOf(pass, element)
        box    == PlaceOf(pass, element)
    IN  IF elements[e.parent].direction = "main"
        THEN <<corner[1], corner[2] + box.height + elements[e.parent].gap>>
        ELSE <<corner[1] + box.width + elements[e.parent].gap, corner[2]>>

NextCursor(pass, element) ==
    LET parent == elements[element].parent
    IN  [c \in DOMAIN pass.cursor |->
           CASE c = element                 -> CornerOf(pass, element)
             [] parent # 0 /\ c = parent    -> NextCorner(pass, element)
             [] OTHER                       -> pass.cursor[c]]

Placed(pass, element, refused) ==
    [pass EXCEPT
        !.box[element] = PlaceOf(pass, element),
        !.cursor = NextCursor(pass, element),
        !.order = Append(@, element),
        !.sent = @ \union ({element} \ refused)]

LEMMA DrawBoxIs ==
    ASSUME NEW pass, NEW element, NEW refused
    PROVE  DrawBox(pass, element, refused) =
              IF Under(input.at, PlaceOf(pass, element))
              THEN Touch(Placed(pass, element, refused), elements[element].id)
              ELSE Placed(pass, element, refused)
  BY DEF DrawBox, Placed, NextCursor, NextCorner, PlaceOf, CornerOf

LEMMA FitType ==
    ASSUME NEW size \in Nat, NEW max \in Nat, NEW parentSize \in Nat
    PROVE  Fit(size, max, parentSize) \in Nat /\ FitRoot(size, max) \in Nat
  BY DEF Fit, FitRoot

LEMMA PlaceType ==
    ASSUME elements \in Seq(Element), NEW pass \in Passes,
           NEW element \in 1 .. Len(elements),
           elements[element].parent \in 0 .. Len(elements)
    PROVE  /\ CornerOf(pass, element) \in Nat \X Nat
           /\ PlaceOf(pass, element) \in Place
<1>1. PICK e \in Element : e = elements[element]
  BY ElementFacts
<1>2. /\ e.x \in Nat /\ e.y \in Nat /\ e.width \in Nat /\ e.height \in Nat
      /\ e.maxWidth \in Nat /\ e.maxHeight \in Nat
      /\ e.parent \in 0 .. Len(elements)
  BY <1>1 DEF Element
<1>3. PICK corner \in Nat \X Nat : corner = CornerOf(pass, element)
  <2>1. pass.cursor \in [1 .. Len(elements) -> Nat \X Nat]
    BY DEF Passes
  <2>2. CASE e.parent = 0
    <3>1. CornerOf(pass, element) = <<0, 0>>
      BY <1>1, <2>2 DEF CornerOf
    <3> QED BY <3>1
  <2>3. CASE e.parent # 0
    <3>1. CornerOf(pass, element) = pass.cursor[e.parent]
      BY <1>1, <2>3 DEF CornerOf
    <3>2. e.parent \in 1 .. Len(elements)
      BY <1>2, <2>3
    <3>3. pass.cursor[e.parent] \in Nat \X Nat
      BY <2>1, <3>2
    <3> QED BY <3>1, <3>3
  <2> QED BY <2>2, <2>3
<1>4. PICK a \in Nat, b \in Nat : corner[1] = a /\ corner[2] = b
  BY <1>3
<1>a. PICK x \in Nat, y \in Nat : e.x = x /\ e.y = y
  BY <1>2
<1>b. x + a \in Nat /\ y + b \in Nat
  OBVIOUS
<1>5. e.x + corner[1] \in Nat /\ e.y + corner[2] \in Nat
  BY <1>4, <1>a, <1>b
<1>6. ASSUME e.parent # 0
      PROVE  /\ Fit(e.width, e.maxWidth, pass.box[e.parent].width) \in Nat
             /\ Fit(e.height, e.maxHeight, pass.box[e.parent].height) \in Nat
  <2>1. e.parent \in 1 .. Len(elements)
    BY <1>2, <1>6
  <2>2. pass.box[e.parent] \in Place
    BY <2>1 DEF Passes
  <2>3. PICK p \in Place : p = pass.box[e.parent]
    BY <2>2
  <2>4. p.width \in Nat /\ p.height \in Nat
    BY DEF Place
  <2> QED BY <1>2, <2>3, <2>4, FitType
<1>7. /\ FitRoot(e.width, e.maxWidth) \in Nat
      /\ FitRoot(e.height, e.maxHeight) \in Nat
  BY <1>2, FitType
<1>8. PlaceOf(pass, element) \in Place
  BY <1>1, <1>3, <1>5, <1>6, <1>7 DEF PlaceOf, Place
<1> QED BY <1>3, <1>8

LEMMA NextCursorType ==
    ASSUME elements \in Seq(Element), NEW pass \in Passes,
           NEW element \in 1 .. Len(elements),
           elements[element].parent \in 0 .. Len(elements)
    PROVE  NextCursor(pass, element) \in [1 .. Len(elements) -> Nat \X Nat]
<1>1. PICK corner \in Nat \X Nat : corner = CornerOf(pass, element)
  BY PlaceType
<1>2. PICK box \in Place : box = PlaceOf(pass, element)
  BY PlaceType
<1>3. /\ corner[1] \in Nat /\ corner[2] \in Nat
      /\ box.width \in Nat /\ box.height \in Nat
  BY <1>1, <1>2 DEF Place
<1>4. PICK p \in 0 .. Len(elements) : p = elements[element].parent
  OBVIOUS
<1>5. ASSUME p # 0 PROVE NextCorner(pass, element) \in Nat \X Nat
  <2>1. p \in 1 .. Len(elements)
    BY <1>4, <1>5
  <2>2. PICK g \in Nat : g = elements[p].gap
    BY <2>1, ElementFacts
  <2>3. PICK a \in Nat, b \in Nat, w \in Nat, h \in Nat :
           /\ a = corner[1] /\ b = corner[2]
           /\ w = box.width /\ h = box.height
    BY <1>3
  <2>4. b + h + g \in Nat /\ a + w + g \in Nat
    OBVIOUS
  <2>5. NextCorner(pass, element) = <<a, b + h + g>>
        \/ NextCorner(pass, element) = <<a + w + g, b>>
    BY <1>1, <1>2, <1>4, <2>2, <2>3 DEF NextCorner
  <2> QED BY <2>4, <2>5
<1>6. pass.cursor \in [1 .. Len(elements) -> Nat \X Nat]
  BY DEF Passes
<1>7. ASSUME NEW c \in 1 .. Len(elements)
      PROVE  NextCursor(pass, element)[c] \in Nat \X Nat
  BY <1>1, <1>4, <1>5, <1>6 DEF NextCursor
<1> QED BY <1>6, <1>7 DEF NextCursor

(* What drawing a box changes in a pass.                                   *)
Drew(pass, q, element, refused) ==
    /\ q \in Passes
    /\ q.box = [pass.box EXCEPT ![element] = PlaceOf(pass, element)]
    /\ q.cursor = NextCursor(pass, element)
    /\ q.order = Append(pass.order, element)
    /\ q.sent = pass.sent \union ({element} \ refused)
    /\ LET id == elements[element].id
           under == Under(input.at, PlaceOf(pass, element))
       IN  /\ ~under => /\ q.active = pass.active
                        /\ q.pressed = pass.pressed
                        /\ q.mouseDown = pass.mouseDown
           /\ under =>
                /\ q.active = id
                /\ q.mouseDown \in {0, id}
                /\ pass.pressed = id => q.pressed = 0
                /\ pass.pressed # id =>
                     q.pressed = IF lastDown THEN pass.pressed
                                 ELSE IF input.down THEN id ELSE 0

LEMMA DrawBoxFacts ==
    ASSUME elements \in Seq(Element), NEW pass \in Passes,
           NEW element \in 1 .. Len(elements),
           elements[element].parent \in 0 .. Len(elements), NEW refused,
           NEW q, q = DrawBox(pass, element, refused)
    PROVE  Drew(pass, q, element, refused)
<1>1. PICK place \in Place : place = PlaceOf(pass, element)
  BY PlaceType
<1>2. PICK cursor \in [1 .. Len(elements) -> Nat \X Nat] :
         cursor = NextCursor(pass, element)
  BY NextCursorType
<1>3. PICK p : p = Placed(pass, element, refused)
  OBVIOUS
<1>4. p = [pass EXCEPT !.box[element] = place, !.cursor = cursor,
                       !.order = Append(@, element),
                       !.sent = @ \union ({element} \ refused)]
  BY <1>1, <1>2, <1>3 DEF Placed
<1>5. /\ pass.box \in [1 .. Len(elements) -> Place]
      /\ pass.order \in Seq(Nat) /\ pass.sent \in SUBSET Nat
      /\ pass.active \in Nat /\ pass.pressed \in Nat /\ pass.mouseDown \in Nat
  BY DEF Passes
<1>6. /\ p.box = [pass.box EXCEPT ![element] = place]
      /\ p.cursor = cursor
      /\ p.order = Append(pass.order, element)
      /\ p.sent = pass.sent \union ({element} \ refused)
      /\ p.active = pass.active /\ p.pressed = pass.pressed
      /\ p.mouseDown = pass.mouseDown
  BY <1>4 DEF Passes
<1>7. p \in Passes
  <2>1. [pass.box EXCEPT ![element] = place] \in [1 .. Len(elements) -> Place]
    BY <1>5
  <2>2. Append(pass.order, element) \in Seq(Nat)
    BY <1>5
  <2>3. pass.sent \union ({element} \ refused) \in SUBSET Nat
    BY <1>5
  <2> QED BY <1>2, <1>4, <1>5, <2>1, <2>2, <2>3 DEF Passes
<1>8. PICK id \in Nat : id = elements[element].id
  BY ElementFacts
<1>9. q = IF Under(input.at, PlaceOf(pass, element)) THEN Touch(p, id) ELSE p
  BY <1>3, <1>8, DrawBoxIs
<1>10. CASE ~Under(input.at, PlaceOf(pass, element))
  <2>1. q = p
    BY <1>9, <1>10
  <2> QED BY <1>1, <1>2, <1>6, <1>7, <1>10, <2>1 DEF Drew
<1>11. CASE Under(input.at, PlaceOf(pass, element))
  <2>1. q = Touch(p, id)
    BY <1>9, <1>11
  <2>2. PICK pr : pr =
                CASE p.pressed = id                            -> 0
                  [] p.pressed # id /\ ~lastDown /\ input.down  -> id
                  [] p.pressed # id /\ ~lastDown /\ ~input.down -> 0
                  [] p.pressed # id /\ lastDown                 -> p.pressed
    OBVIOUS
  <2>3. PICK md : md = IF input.down THEN id ELSE 0
    OBVIOUS
  <2>4. q = [p EXCEPT !.active = id, !.mouseDown = md, !.pressed = pr]
    BY <2>1, <2>2, <2>3 DEF Touch
  <2>5. /\ p.pressed = id => pr = 0
        /\ p.pressed # id => pr = IF lastDown THEN p.pressed
                                  ELSE IF input.down THEN id ELSE 0
    BY <2>2
  <2>6. pr \in Nat /\ md \in Nat /\ md \in {0, id}
    BY <1>5, <1>6, <1>8, <2>3, <2>5
  <2>7. q \in Passes
    BY <1>7, <1>8, <2>4, <2>6 DEF Passes
  <2>8. /\ q.box = p.box /\ q.cursor = p.cursor /\ q.order = p.order
        /\ q.sent = p.sent /\ q.active = id /\ q.mouseDown = md
        /\ q.pressed = pr
    BY <1>7, <2>4 DEF Passes
  <2> QED BY <1>1, <1>2, <1>6, <1>8, <1>11, <2>5, <2>6, <2>7, <2>8
         DEF Drew
<1> QED BY <1>10, <1>11

(* DrawTree is defined by recursion on the boxes: what it is follows by    *)
(* induction, an argument about the least number that is not in a set.     *)

LEMMA InductionUpTo ==
    ASSUME NEW m \in Nat, NEW T, 0 \in T,
           \A n \in Nat : n < m /\ n \in T => n + 1 \in T
    PROVE  m \in T
<1>1. SUFFICES ASSUME m \notin T PROVE FALSE
  OBVIOUS
<1>2. IsWellFoundedOn(OpToRel(<, Nat), Nat)
  BY NatLessThanWellFounded
<1>. DEFINE U == {n \in Nat : n <= m /\ n \notin T}
<1>3. U \subseteq Nat /\ U # {}
  BY <1>1
<1>4. PICK n \in U : \A k \in U : ~ (<<k, n>> \in OpToRel(<, Nat))
  BY <1>2, <1>3, WFMin
<1>5. n \in Nat /\ n # 0 /\ n <= m /\ n \notin T
  BY <1>4
<1>6. n - 1 \in Nat /\ n - 1 < n /\ n - 1 < m
  BY <1>5
<1>7. n - 1 \notin U
  BY <1>4, <1>5, <1>6 DEF OpToRel
<1>8. n - 1 \in T
  BY <1>5, <1>6, <1>7
<1> QED BY <1>5, <1>6, <1>8

StartPass ==
    [box    |-> [e \in DOMAIN elements |->
                    [x |-> 0, y |-> 0, width |-> 0, height |-> 0]],
     cursor |-> [e \in DOMAIN elements |-> <<0, 0>>],
     order  |-> <<>>, sent |-> {},
     active |-> active, pressed |-> pressed, mouseDown |-> mouseDown]

PassStep(f, n, root, refused) ==
    IF n = 0 THEN StartPass
    ELSE IF n = root \/ elements[n].parent \in f[n - 1].sent
         THEN DrawBox(f[n - 1], n, refused)
         ELSE f[n - 1]

IsPass(f, root, refused) ==
    f = [n \in 0 .. Len(elements) |-> PassStep(f, n, root, refused)]

LEMMA PassExists ==
    ASSUME Len(elements) \in Nat, NEW root, NEW refused
    PROVE  \E f : IsPass(f, root, refused)
<1>. DEFINE Known == {k \in Nat : \E f :
                        f = [n \in 0 .. k |-> PassStep(f, n, root, refused)]}
<1>1. 0 \in Known
  <2>. DEFINE f == [n \in 0 .. 0 |-> StartPass]
  <2>1. \A n \in 0 .. 0 : PassStep(f, n, root, refused) = StartPass
    BY DEF PassStep
  <2>2. f = [n \in 0 .. 0 |-> PassStep(f, n, root, refused)]
    BY <2>1
  <2> QED BY <2>2
<1>2. ASSUME NEW k \in Nat, k \in Known PROVE k + 1 \in Known
  <2>1. PICK f : f = [n \in 0 .. k |-> PassStep(f, n, root, refused)]
    BY <1>2
  <2>. DEFINE g == [n \in 0 .. k + 1 |-> PassStep(f, n, root, refused)]
  <2>2. \A n \in 0 .. k : g[n] = f[n]
    <3>1. \A n \in 0 .. k : n \in 0 .. k + 1
      OBVIOUS
    <3>2. \A n \in 0 .. k : f[n] = PassStep(f, n, root, refused)
      BY <2>1
    <3> QED BY <3>1, <3>2
  <2>3. ASSUME NEW n \in 0 .. k + 1
        PROVE  PassStep(g, n, root, refused) = PassStep(f, n, root, refused)
    <3>1. CASE n = 0
      BY <3>1 DEF PassStep
    <3>2. CASE n # 0
      <4>1. n - 1 \in 0 .. k
        BY <3>2
      <4>2. g[n - 1] = f[n - 1]
        BY <2>2, <4>1
      <4>. HIDE DEF g
      <4> QED BY <3>2, <4>2 DEF PassStep
    <3> QED BY <3>1, <3>2
  <2>4. g = [n \in 0 .. k + 1 |-> PassStep(g, n, root, refused)]
    BY <2>3
  <2>. HIDE DEF g
  <2>5. \E h : h = [n \in 0 .. k + 1 |-> PassStep(h, n, root, refused)]
    BY <2>4
  <2>6. k + 1 \in Nat
    OBVIOUS
  <2> QED BY <2>5, <2>6
<1>3. Len(elements) \in Known
  <2>. HIDE DEF Known
  <2> QED BY <1>1, <1>2, InductionUpTo
<1> QED BY <1>3 DEF IsPass

LEMMA DrawTreeIsPass ==
    ASSUME Len(elements) \in Nat, NEW root, NEW refused
    PROVE  \E f : IsPass(f, root, refused)
                  /\ DrawTree(root, refused) = f[Len(elements)]
<1>. DEFINE f == CHOOSE f : IsPass(f, root, refused)
<1>1. IsPass(f, root, refused)
  BY PassExists
<1>2. DrawTree(root, refused) = f[Len(elements)]
  BY DEF DrawTree, IsPass, PassStep, StartPass
<1>. HIDE DEF f
<1> QED BY <1>1, <1>2

(* One step at a time.                                                     *)
LEMMA PassSteps ==
    ASSUME Len(elements) \in Nat, NEW root, NEW refused,
           NEW f, IsPass(f, root, refused)
    PROVE  /\ f[0] = StartPass
           /\ \A n \in 1 .. Len(elements) :
                 f[n] = IF n = root \/ elements[n].parent \in f[n - 1].sent
                        THEN DrawBox(f[n - 1], n, refused)
                        ELSE f[n - 1]
<1>1. \A n \in 0 .. Len(elements) : f[n] = PassStep(f, n, root, refused)
  BY DEF IsPass
<1>2. 0 \in 0 .. Len(elements)
      /\ \A n \in 1 .. Len(elements) : n \in 0 .. Len(elements) /\ n # 0
  OBVIOUS
<1> QED BY <1>1, <1>2 DEF PassStep

(* A box is before the cursor of its parent, in the direction of that.     *)
Behind(box, cursor, direction) ==
    IF direction = "main" THEN box.y + box.height <= cursor[2]
                          ELSE box.x + box.width <= cursor[1]

Apart(a, b) == a.x + a.width <= b.x \/ a.y + a.height <= b.y

Unplaced(e) == elements[e].x = 0 /\ elements[e].y = 0

(* The boxes of the tree that were met up to n are drawn in the order in   *)
(* which they were begun ...                                               *)
OrderOK(p, n, root) ==
    /\ p.sent \subseteq root .. n
    /\ \A i \in 1 .. Len(p.order) :
          /\ p.order[i] \in root .. n
          /\ p.order[i] = root \/ elements[p.order[i]].parent \in p.sent
    /\ \A i, j \in 1 .. Len(p.order) : i < j => p.order[i] < p.order[j]
    /\ root <= n => \E i \in 1 .. Len(p.order) : p.order[i] = root

(* ... each where its parent's cursor was, apart from those before it ...  *)
PlacesOK(p) ==
    /\ \A i \in 1 .. Len(p.order) :
          LET a == p.order[i]
              parent == elements[a].parent
          IN  parent # 0 /\ Unplaced(a) =>
                 Behind(p.box[a], p.cursor[parent], elements[parent].direction)
    /\ \A i, j \in 1 .. Len(p.order) :
          LET a == p.order[i]
              b == p.order[j]
          IN  /\ i < j
              /\ elements[a].parent = elements[b].parent
              /\ elements[a].parent # 0
              /\ Unplaced(a) /\ Unplaced(b)
              => Apart(p.box[a], p.box[b])

(* ... and a press is the edge of the button, or is kept until the mouse   *)
(* is over the pressed box.                                                *)
MouseOK(p) ==
    /\ {p.active, p.pressed, p.mouseDown} \subseteq 0 .. MaxBegins
    /\ \/ p.pressed \in {0, pressed}
       \/ GoesDown /\ p.pressed = p.active
    /\ ~GoesDown /\ p.pressed = pressed /\ pressed # 0 =>
          \A i \in 1 .. Len(p.order) :
              elements[p.order[i]].id = pressed
                  => ~Under(input.at, p.box[p.order[i]])

LEMMA CornerMoves ==
    ASSUME elements \in Seq(Element), NEW pass \in Passes,
           NEW n \in 1 .. Len(elements), NEW parent \in 1 .. Len(elements),
           elements[n].parent = parent,
           NEW c, c = CornerOf(pass, n), NEW d, d = NextCorner(pass, n),
           NEW place, place = PlaceOf(pass, n)
    PROVE  /\ c = pass.cursor[parent]
           /\ c[1] \in Nat /\ c[2] \in Nat /\ d[1] \in Nat /\ d[2] \in Nat
           /\ c[1] <= d[1] /\ c[2] <= d[2]
           /\ Unplaced(n) =>
                 /\ place.x = c[1] /\ place.y = c[2]
                 /\ Behind(place, d, elements[parent].direction)
<1>1. parent # 0 /\ elements[n].parent \in 0 .. Len(elements)
  OBVIOUS
<1>2. c \in Nat \X Nat /\ place \in Place
  BY <1>1, PlaceType
<1>3. PICK c1 \in Nat, c2 \in Nat, w \in Nat, h \in Nat :
         c1 = c[1] /\ c2 = c[2] /\ w = place.width /\ h = place.height
  BY <1>2 DEF Place
<1>4. PICK g \in Nat : g = elements[parent].gap
  BY ElementFacts
<1>5. d = IF elements[parent].direction = "main" THEN <<c1, c2 + h + g>>
                                                 ELSE <<c1 + w + g, c2>>
  BY <1>3, <1>4 DEF NextCorner
<1>6. c = pass.cursor[parent]
  BY <1>1 DEF CornerOf
<1>7. /\ c1 + w + g \in Nat /\ c2 + h + g \in Nat
      /\ c1 <= c1 + w + g /\ c2 <= c2 + h + g
      /\ c1 + w <= c1 + w + g /\ c2 + h <= c2 + h + g
  OBVIOUS
<1>8. /\ d[1] = c1 \/ d[1] = c1 + w + g
      /\ d[2] = c2 \/ d[2] = c2 + h + g
  BY <1>5
<1>9. /\ d[1] \in Nat /\ d[2] \in Nat /\ c[1] <= d[1] /\ c[2] <= d[2]
      /\ c[1] \in Nat /\ c[2] \in Nat
  <2>1. c1 <= c1 /\ c2 <= c2
    OBVIOUS
  <2> QED BY <1>3, <1>7, <1>8, <2>1
<1>10. ASSUME Unplaced(n)
       PROVE  /\ place.x = c[1] /\ place.y = c[2]
              /\ Behind(place, d, elements[parent].direction)
  <2>1. elements[n].x = 0 /\ elements[n].y = 0
    BY <1>10 DEF Unplaced
  <2>2. place.x = 0 + c[1] /\ place.y = 0 + c[2]
    BY <2>1 DEF PlaceOf
  <2>3. place.x = c1 /\ place.y = c2
    BY <1>3, <2>2
  <2>4. CASE elements[parent].direction = "main"
    <3>1. d[2] = c2 + h + g
      BY <1>5, <2>4
    <3> QED BY <1>3, <1>7, <2>3, <2>4, <3>1 DEF Behind
  <2>5. CASE elements[parent].direction # "main"
    <3>1. d[1] = c1 + w + g
      BY <1>5, <2>5
    <3> QED BY <1>3, <1>7, <2>3, <2>5, <3>1 DEF Behind
  <2> QED BY <1>3, <2>3, <2>4, <2>5
<1> QED BY <1>6, <1>9, <1>10

(* What a drawn box adds to a pass.                                        *)
Added(p, q, n, root, l) ==
    /\ l \in Nat /\ Len(q.order) = l + 1 /\ q.order[l + 1] = n
    /\ \A i \in 1 .. l :
          /\ q.order[i] = p.order[i] /\ p.order[i] \in root .. n - 1
          /\ p.order[i] # n /\ q.box[p.order[i]] = p.box[p.order[i]]
    /\ q.box[n] = PlaceOf(p, n)
    /\ \A i \in 1 .. l + 1 : i \in 1 .. l \/ i = l + 1
    /\ 1 .. l \subseteq 1 .. l + 1

LEMMA DrawBoxAdds ==
    ASSUME elements \in Seq(Element), NEW n \in 1 .. Len(elements),
           elements[n].parent \in 0 .. Len(elements),
           NEW root \in 1 .. Len(elements),
           NEW p \in Passes, OrderOK(p, n - 1, root),
           NEW refused, NEW q, q = DrawBox(p, n, refused)
    PROVE  Added(p, q, n, root, Len(p.order))
<1>. DEFINE l == Len(p.order)
<1>1. /\ q.box = [p.box EXCEPT ![n] = PlaceOf(p, n)]
      /\ q.order = Append(p.order, n)
  <2>1. Drew(p, q, n, refused)
    BY DrawBoxFacts
  <2> QED BY <2>1 DEF Drew
<1>2. p.box \in [1 .. Len(elements) -> Place] /\ p.order \in Seq(Nat)
  BY DEF Passes
<1>3. PICK o \in Seq(Nat) : o = p.order
  BY <1>2
<1>4. l \in Nat /\ l = Len(o)
  BY <1>3
<1>5. PICK r : r = Append(o, n)
  OBVIOUS
<1>6. Len(r) = l + 1 /\ r[l + 1] = n /\ \A i \in 1 .. l : r[i] = o[i]
  BY <1>4, <1>5
<1>7. q.order = r
  BY <1>1, <1>3, <1>5
<1>8. ASSUME NEW i \in 1 .. l
      PROVE  /\ p.order[i] \in root .. n - 1 /\ p.order[i] # n
             /\ q.box[p.order[i]] = p.box[p.order[i]]
  <2>1. p.order[i] \in root .. n - 1
    BY DEF OrderOK
  <2>2. p.order[i] # n
    BY <2>1
  <2>3. PICK a : a = p.order[i]
    OBVIOUS
  <2>4. q.box[a] = p.box[a]
    <3>1. a # n
      BY <2>2, <2>3
    <3>2. PICK old, place : old = p.box /\ place = PlaceOf(p, n)
      OBVIOUS
    <3>3. a \in 1 .. Len(elements)
      BY <2>1, <2>3
    <3>4. q.box = [old EXCEPT ![n] = place]
      BY <1>1, <3>2
    <3> QED BY <1>2, <3>1, <3>2, <3>3, <3>4
  <2> QED BY <2>1, <2>2, <2>3, <2>4
<1>9. q.box[n] = PlaceOf(p, n)
  BY <1>1, <1>2
<1>10. /\ \A i \in 1 .. l + 1 : i \in 1 .. l \/ i = l + 1
       /\ 1 .. l \subseteq 1 .. l + 1
  BY <1>4
<1>11. l \in Nat /\ Len(q.order) = l + 1 /\ q.order[l + 1] = n
  BY <1>4, <1>6, <1>7
<1>12. \A i \in 1 .. l : q.order[i] = p.order[i]
  BY <1>3, <1>6, <1>7
<1>. HIDE DEF l
<1>13. Added(p, q, n, root, l)
  BY <1>8, <1>9, <1>10, <1>11, <1>12 DEF Added
<1> QED BY <1>13 DEF l

LEMMA OrderKept ==
    ASSUME elements \in Seq(Element), NEW n \in 1 .. Len(elements),
           elements[n].parent \in 0 .. n - 1,
           NEW root \in 1 .. Len(elements),
           NEW p \in Passes, OrderOK(p, n - 1, root),
           n = root \/ elements[n].parent \in p.sent,
           NEW refused, NEW q, q = DrawBox(p, n, refused)
    PROVE  OrderOK(q, n, root)
<1>0. elements[n].parent \in 0 .. Len(elements)
  OBVIOUS
<1>1. PICK l : l = Len(p.order)
  OBVIOUS
<1>2. /\ l \in Nat /\ Len(q.order) = l + 1 /\ q.order[l + 1] = n
      /\ \A i \in 1 .. l :
            q.order[i] = p.order[i] /\ p.order[i] \in root .. n - 1
      /\ \A i \in 1 .. l + 1 : i \in 1 .. l \/ i = l + 1
      /\ 1 .. l \subseteq 1 .. l + 1
  <2>1. Added(p, q, n, root, l)
    BY <1>0, <1>1, DrawBoxAdds
  <2> QED BY <2>1 DEF Added
<1>3. q.sent = p.sent \union ({n} \ refused)
  <2>1. Drew(p, q, n, refused)
    BY <1>0, DrawBoxFacts
  <2> QED BY <2>1 DEF Drew
<1>4. root <= n
  <2>1. p.sent \subseteq root .. n - 1
    BY DEF OrderOK
  <2> QED BY <2>1
<1>5. q.sent \subseteq root .. n
  <2>1. p.sent \subseteq root .. n - 1
    BY DEF OrderOK
  <2> QED BY <1>3, <1>4, <2>1
<1>6. ASSUME NEW i \in 1 .. l + 1
      PROVE  /\ q.order[i] \in root .. n
             /\ q.order[i] = root \/ elements[q.order[i]].parent \in q.sent
  <2>1. CASE i = l + 1
    BY <1>2, <1>3, <1>4, <2>1
  <2>2. CASE i \in 1 .. l
    <3>1. p.order[i] = root \/ elements[p.order[i]].parent \in p.sent
      BY <1>1, <2>2 DEF OrderOK
    <3>2. q.order[i] \in root .. n - 1
      BY <1>2, <2>2
    <3> QED BY <1>2, <1>3, <2>2, <3>1, <3>2
  <2> QED BY <1>2, <2>1, <2>2
<1>7. ASSUME NEW i \in 1 .. l + 1, NEW j \in 1 .. l + 1, i < j
      PROVE  q.order[i] < q.order[j]
  <2>1. i \in 1 .. l
    BY <1>2, <1>7
  <2>2. CASE j = l + 1
    <3>1. PICK a \in root .. n - 1 : a = q.order[i]
      BY <1>2, <2>1
    <3>2. a < n /\ q.order[j] = n
      BY <1>2, <2>2
    <3> QED BY <3>1, <3>2
  <2>3. CASE j \in 1 .. l
    <3>1. p.order[i] < p.order[j]
      BY <1>1, <1>7, <2>1, <2>3 DEF OrderOK
    <3> QED BY <1>2, <2>1, <2>3, <3>1
  <2> QED BY <1>2, <2>2, <2>3
<1>8. \E i \in 1 .. l + 1 : q.order[i] = root
  <2>1. CASE n = root
    <3>1. l + 1 \in 1 .. l + 1
      BY <1>2
    <3> QED BY <1>2, <2>1, <3>1
  <2>2. CASE n # root
    <3>1. root <= n - 1
      BY <1>4, <2>2
    <3>2. PICK i \in 1 .. l : p.order[i] = root
      BY <1>1, <3>1 DEF OrderOK
    <3> QED BY <1>2, <3>2
  <2> QED BY <2>1, <2>2
<1> QED BY <1>2, <1>5, <1>6, <1>7, <1>8 DEF OrderOK

LEMMA BehindMoves ==
    ASSUME NEW box \in Place, NEW c, NEW d,
           c[1] \in Nat, c[2] \in Nat, d[1] \in Nat, d[2] \in Nat,
           c[1] <= d[1], c[2] <= d[2],
           NEW direction, Behind(box, c, direction)
    PROVE  Behind(box, d, direction)
<1>1. PICK x \in Nat, y \in Nat, w \in Nat, h \in Nat :
         box.x = x /\ box.y = y /\ box.width = w /\ box.height = h
  BY DEF Place
<1>2. PICK c1 \in Nat, c2 \in Nat, d1 \in Nat, d2 \in Nat :
         /\ c1 = c[1] /\ c2 = c[2] /\ d1 = d[1] /\ d2 = d[2]
         /\ c1 <= d1 /\ c2 <= d2
  OBVIOUS
<1>3. (x + w <= c1 => x + w <= d1) /\ (y + h <= c2 => y + h <= d2)
  BY <1>2
<1>4. CASE direction = "main"
  <2>1. y + h <= c2
    BY <1>1, <1>2, <1>4 DEF Behind
  <2> QED BY <1>1, <1>2, <1>3, <1>4, <2>1 DEF Behind
<1>5. CASE direction # "main"
  <2>1. x + w <= c1
    BY <1>1, <1>2, <1>5 DEF Behind
  <2> QED BY <1>1, <1>2, <1>3, <1>5, <2>1 DEF Behind
<1> QED BY <1>4, <1>5

(* The cursors of boxes other than the drawn one only move on.             *)
LEMMA CursorMoves ==
    ASSUME elements \in Seq(Element), NEW pass \in Passes,
           NEW n \in 1 .. Len(elements),
           elements[n].parent \in 0 .. Len(elements),
           NEW cursor, cursor = NextCursor(pass, n),
           NEW c \in 1 .. Len(elements), c # n,
           NEW box \in Place, NEW direction,
           Behind(box, pass.cursor[c], direction)
    PROVE  Behind(box, cursor[c], direction)
<1>1. PICK old : old = pass.cursor[c]
  OBVIOUS
<1>2. pass.cursor \in [1 .. Len(elements) -> Nat \X Nat]
  BY DEF Passes
<1>3. CASE elements[n].parent = c
  <2>1. PICK new : new = NextCorner(pass, n)
    OBVIOUS
  <2>2. cursor[c] = new
    BY <1>2, <1>3, <2>1 DEF NextCursor
  <2>3. PICK corner, place : corner = CornerOf(pass, n)
                             /\ place = PlaceOf(pass, n)
    OBVIOUS
  <2>4. corner = pass.cursor[c]
        /\ corner[1] \in Nat /\ corner[2] \in Nat
        /\ new[1] \in Nat /\ new[2] \in Nat
        /\ corner[1] <= new[1] /\ corner[2] <= new[2]
    BY <1>3, <2>1, <2>3, CornerMoves
  <2>5. Behind(box, corner, direction)
    BY <2>4
  <2>6. Behind(box, new, direction)
    BY <2>4, <2>5, BehindMoves
  <2> QED BY <2>2, <2>6
<1>4. CASE elements[n].parent # c
  <2>1. cursor[c] = pass.cursor[c]
    BY <1>2, <1>4 DEF NextCursor
  <2> QED BY <2>1
<1> QED BY <1>3, <1>4

LEMMA PlacesKept ==
    ASSUME elements \in Seq(Element), ParentsOK,
           NEW n \in 1 .. Len(elements),
           elements[n].parent \in 0 .. n - 1,
           NEW root \in 1 .. Len(elements),
           NEW p \in Passes, OrderOK(p, n - 1, root), PlacesOK(p),
           NEW refused, NEW q, q = DrawBox(p, n, refused)
    PROVE  PlacesOK(q)
<1>0. elements[n].parent \in 0 .. Len(elements)
  OBVIOUS
<1>1. PICK l : l = Len(p.order)
  OBVIOUS
<1>2. Added(p, q, n, root, l)
  BY <1>0, <1>1, DrawBoxAdds
<1>3. /\ l \in Nat /\ Len(q.order) = l + 1 /\ q.order[l + 1] = n
      /\ \A i \in 1 .. l :
            /\ q.order[i] = p.order[i] /\ p.order[i] \in root .. n - 1
            /\ q.box[p.order[i]] = p.box[p.order[i]]
      /\ q.box[n] = PlaceOf(p, n)
      /\ \A i \in 1 .. l + 1 : i \in 1 .. l \/ i = l + 1
  BY <1>2 DEF Added
<1>4. q.cursor = NextCursor(p, n)
  <2>1. Drew(p, q, n, refused)
    BY <1>0, DrawBoxFacts
  <2> QED BY <2>1 DEF Drew
<1>5. p.box \in [1 .. Len(elements) -> Place]
  BY DEF Passes
<1>6. PICK par \in 0 .. Len(elements) : par = elements[n].parent
  BY <1>0
<1>7. PICK corner, new, place : /\ corner = CornerOf(p, n)
                                /\ new = NextCorner(p, n)
                                /\ place = PlaceOf(p, n)
  OBVIOUS
<1>8. ASSUME par # 0, Unplaced(n)
      PROVE  /\ corner = p.cursor[par]
             /\ place.x = corner[1] /\ place.y = corner[2]
             /\ Behind(place, new, elements[par].direction)
  <2>1. par \in 1 .. Len(elements)
    BY <1>8
  <2> QED BY <1>6, <1>7, <1>8, <2>1, CornerMoves
<1>9. ASSUME NEW i \in 1 .. l + 1, NEW a, a = q.order[i],
             NEW parent, parent = elements[a].parent,
             parent # 0, Unplaced(a)
      PROVE  Behind(q.box[a], q.cursor[parent], elements[parent].direction)
  <2>1. CASE i = l + 1
    <3>1. a = n /\ parent = par /\ par # 0
      BY <1>3, <1>6, <1>9, <2>1
    <3>2. q.cursor[par] = new
      <4>1. par \in 1 .. Len(elements) /\ par # n
        BY <1>6, <3>1
      <4>2. DOMAIN p.cursor = 1 .. Len(elements)
        BY DEF Passes
      <4> QED BY <1>4, <1>6, <1>7, <4>1, <4>2 DEF NextCursor
    <3> QED BY <1>3, <1>7, <1>8, <1>9, <3>1, <3>2
  <2>2. CASE i \in 1 .. l
    <3>1. a = p.order[i] /\ a \in root .. n - 1 /\ q.box[a] = p.box[a]
      BY <1>3, <1>9, <2>2
    <3>2. a \in 1 .. Len(elements) /\ a < n
      BY <3>1
    <3>3. parent \in 1 .. Len(elements) /\ parent # n
      <4>1. elements[a].parent \in Nat /\ elements[a].parent < a
        BY <3>2, ElementFacts DEF ParentsOK
      <4> QED BY <1>9, <3>2, <4>1
    <3>4. Behind(p.box[a], p.cursor[parent], elements[parent].direction)
      BY <1>1, <1>9, <2>2, <3>1 DEF PlacesOK
    <3>5. PICK box \in Place : box = p.box[a]
      BY <1>5, <3>2
    <3>6. Behind(box, q.cursor[parent], elements[parent].direction)
      BY <1>0, <1>4, <3>3, <3>4, <3>5, CursorMoves
    <3> QED BY <3>1, <3>5, <3>6
  <2> QED BY <1>3, <2>1, <2>2
<1>10. ASSUME NEW i \in 1 .. l + 1, NEW j \in 1 .. l + 1, i < j,
              NEW a, a = q.order[i], NEW b, b = q.order[j],
              elements[a].parent = elements[b].parent,
              elements[a].parent # 0, Unplaced(a), Unplaced(b)
       PROVE  Apart(q.box[a], q.box[b])
  <2>1. i \in 1 .. l
    BY <1>3, <1>10
  <2>2. a = p.order[i] /\ q.box[a] = p.box[a]
    BY <1>3, <1>10, <2>1
  <2>3. CASE j \in 1 .. l
    <3>1. b = p.order[j] /\ q.box[b] = p.box[b]
      BY <1>3, <1>10, <2>3
    <3>2. Apart(p.box[a], p.box[b])
      BY <1>1, <1>10, <2>1, <2>2, <2>3, <3>1 DEF PlacesOK
    <3> QED BY <2>2, <3>1, <3>2
  <2>4. CASE j = l + 1
    <3>1. b = n /\ q.box[b] = place /\ elements[a].parent = par /\ par # 0
      BY <1>3, <1>6, <1>7, <1>10, <2>4
    <3>2. Behind(p.box[a], p.cursor[par], elements[par].direction)
      BY <1>1, <1>10, <2>1, <2>2, <3>1 DEF PlacesOK
    <3>3. corner = p.cursor[par] /\ place.x = corner[1] /\ place.y = corner[2]
      BY <1>8, <1>10, <3>1
    <3> QED BY <2>2, <3>1, <3>2, <3>3 DEF Behind, Apart
  <2> QED BY <1>3, <2>3, <2>4
<1> QED BY <1>3, <1>9, <1>10 DEF PlacesOK

LEMMA MouseKept ==
    ASSUME elements \in Seq(Element),
           NEW n \in 1 .. Len(elements),
           elements[n].parent \in 0 .. n - 1,
           elements[n].id \in 1 .. MaxBegins, lastDown \in BOOLEAN,
           NEW root \in 1 .. Len(elements), NEW p \in Passes,
           OrderOK(p, n - 1, root), MouseOK(p),
           NEW refused, NEW q, q = DrawBox(p, n, refused)
    PROVE  MouseOK(q)
<1>0. elements[n].parent \in 0 .. Len(elements)
  OBVIOUS
<1>1. PICK l : l = Len(p.order)
  OBVIOUS
<1>2. Added(p, q, n, root, l)
  BY <1>0, <1>1, DrawBoxAdds
<1>3. PICK place : place = PlaceOf(p, n)
  OBVIOUS
<1>4. /\ l \in Nat /\ Len(q.order) = l + 1 /\ q.order[l + 1] = n
      /\ \A i \in 1 .. l :
            /\ q.order[i] = p.order[i]
            /\ q.box[p.order[i]] = p.box[p.order[i]]
      /\ q.box[n] = place
      /\ \A i \in 1 .. l + 1 : i \in 1 .. l \/ i = l + 1
  BY <1>2, <1>3 DEF Added
<1>5. Drew(p, q, n, refused)
  BY <1>0, DrawBoxFacts
<1>6. PICK id \in 1 .. MaxBegins : id = elements[n].id
  OBVIOUS
<1>7. /\ ~Under(input.at, place) => /\ q.active = p.active
                                    /\ q.pressed = p.pressed
                                    /\ q.mouseDown = p.mouseDown
      /\ Under(input.at, place) =>
            /\ q.active = id
            /\ q.mouseDown \in {0, id}
            /\ p.pressed = id => q.pressed = 0
            /\ p.pressed # id =>
                 q.pressed = IF lastDown THEN p.pressed
                             ELSE IF input.down THEN id ELSE 0
  BY <1>3, <1>5, <1>6 DEF Drew
<1>8. /\ p.active \in 0 .. MaxBegins /\ p.pressed \in 0 .. MaxBegins
      /\ p.mouseDown \in 0 .. MaxBegins
      /\ p.pressed \in {0, pressed} \/ (GoesDown /\ p.pressed = p.active)
  BY DEF MouseOK
<1>9. 0 \in 0 .. MaxBegins /\ id \in 0 .. MaxBegins
  BY LayoutAssumption
<1>10. {q.active, q.pressed, q.mouseDown} \subseteq 0 .. MaxBegins
  BY <1>7, <1>8, <1>9
<1>11. q.pressed \in {0, pressed} \/ (GoesDown /\ q.pressed = q.active)
  BY <1>7, <1>8 DEF GoesDown
<1>12. ASSUME ~GoesDown, q.pressed = pressed, pressed # 0,
              NEW i \in 1 .. l + 1, NEW a, a = q.order[i],
              elements[a].id = pressed
       PROVE  ~Under(input.at, q.box[a])
  <2>1. p.pressed = pressed
    BY <1>7, <1>12 DEF GoesDown
  <2>2. CASE i = l + 1
    <3>1. a = n /\ id = p.pressed
      BY <1>4, <1>6, <1>12, <2>1, <2>2
    <3> QED BY <1>4, <1>7, <1>12, <3>1
  <2>3. CASE i \in 1 .. l
    <3>1. a = p.order[i] /\ q.box[a] = p.box[a]
      BY <1>4, <1>12, <2>3
    <3>2. ~Under(input.at, p.box[a])
      BY <1>1, <1>12, <2>1, <2>3, <3>1 DEF MouseOK
    <3> QED BY <3>1, <3>2
  <2> QED BY <1>4, <2>2, <2>3
<1> QED BY <1>4, <1>10, <1>11, <1>12 DEF MouseOK

(* All that the traversal has done to the pass p before it meets the box   *)
(* after n.                                                                *)
PassOK(p, n, root) ==
    /\ p \in Passes
    /\ OrderOK(p, n, root) /\ PlacesOK(p) /\ MouseOK(p)

LEMMA StartPassOK ==
    ASSUME BoxInv, TreeInv, NEW root \in 1 .. Len(elements)
    PROVE  PassOK(StartPass, 0, root)
<1>1. elements \in Seq(Element) /\ Len(elements) \in Nat
  BY PoolFacts
<1>2. DOMAIN elements = 1 .. Len(elements)
  BY <1>1
<1>3. {active, pressed, mouseDown} \subseteq 0 .. MaxBegins /\ MaxBegins \in Nat
  BY TreeFacts, LayoutAssumption DEF IdsOK
<1>4. PICK p : p = StartPass
  OBVIOUS
<1>5. /\ p.order = <<>> /\ p.sent = {} /\ Len(p.order) = 0
      /\ p.active = active /\ p.pressed = pressed /\ p.mouseDown = mouseDown
  BY <1>4 DEF StartPass
<1>6. p \in Passes
  <2>1. [x |-> 0, y |-> 0, width |-> 0, height |-> 0] \in Place
    BY DEF Place
  <2>2. active \in Nat /\ pressed \in Nat /\ mouseDown \in Nat
    BY <1>3
  <2>3. <<>> \in Seq(Nat)
    OBVIOUS
  <2> QED BY <1>2, <1>4, <2>1, <2>2, <2>3 DEF StartPass, Passes
<1>7. OrderOK(p, 0, root)
  <2>1. ~(root <= 0)
    BY <1>1
  <2> QED BY <1>5, <2>1 DEF OrderOK
<1>8. PlacesOK(p) /\ MouseOK(p)
  BY <1>3, <1>5 DEF PlacesOK, MouseOK
<1> QED BY <1>4, <1>6, <1>7, <1>8 DEF PassOK

LEMMA StepPassOK ==
    ASSUME BoxInv, TreeInv, NEW root \in 1 .. Len(elements),
           elements[root].parent = 0,
           NEW n \in 1 .. Len(elements), NEW refused,
           NEW p, PassOK(p, n - 1, root),
           NEW q, q = IF n = root \/ elements[n].parent \in p.sent
                      THEN DrawBox(p, n, refused) ELSE p
    PROVE  PassOK(q, n, root)
<1>1. elements \in Seq(Element) /\ Len(elements) \in Nat
  BY PoolFacts
<1>2. /\ elements[n].parent \in 0 .. n - 1
      /\ elements[n].parent \in 0 .. Len(elements)
  <2>1. elements[n].parent \in Nat /\ elements[n].parent < n
    BY <1>1, ElementFacts, TreeFacts DEF ParentsOK
  <2> QED BY <1>1, <2>1
<1>3. elements[n].id \in 1 .. MaxBegins
  <2>1. elements[n].id \in 1 .. begins /\ begins <= MaxBegins
    BY TreeFacts DEF IdsOK
  <2>2. begins \in Nat /\ MaxBegins \in Nat
    BY PoolFacts, LayoutAssumption
  <2> QED BY <2>1, <2>2
<1>4. lastDown \in BOOLEAN /\ ParentsOK
  BY DEF TreeInv
<1>5. p \in Passes /\ OrderOK(p, n - 1, root) /\ PlacesOK(p) /\ MouseOK(p)
  BY DEF PassOK
<1>6. CASE n = root \/ elements[n].parent \in p.sent
  <2>1. q = DrawBox(p, n, refused)
    BY <1>6
  <2>2. q \in Passes
    <3>1. Drew(p, q, n, refused)
      BY <1>1, <1>2, <1>5, <2>1, DrawBoxFacts
    <3> QED BY <3>1 DEF Drew
  <2>3. OrderOK(q, n, root)
    BY <1>1, <1>2, <1>5, <1>6, <2>1, OrderKept
  <2>4. PlacesOK(q)
    BY <1>1, <1>2, <1>4, <1>5, <2>1, PlacesKept
  <2>5. MouseOK(q)
    BY <1>1, <1>2, <1>3, <1>4, <1>5, <2>1, MouseKept
  <2> QED BY <2>2, <2>3, <2>4, <2>5 DEF PassOK
<1>7. CASE ~(n = root \/ elements[n].parent \in p.sent)
  <2>1. q = p
    BY <1>7
  <2>2. n # root
    BY <1>7
  <2>3. OrderOK(p, n, root)
    <3>1. /\ \A k \in root .. n - 1 : k \in root .. n
          /\ root <= n => root <= n - 1
      BY <1>1, <2>2
    <3>2. p.sent \subseteq root .. n
      BY <1>5, <3>1 DEF OrderOK
    <3>3. \A i \in 1 .. Len(p.order) :
             /\ p.order[i] \in root .. n
             /\ p.order[i] = root \/ elements[p.order[i]].parent \in p.sent
      BY <1>5, <3>1 DEF OrderOK
    <3> QED BY <1>5, <3>1, <3>2, <3>3 DEF OrderOK
  <2> QED BY <1>5, <2>1, <2>3 DEF PassOK
<1> QED BY <1>6, <1>7

LEMMA DrawTreeOK ==
    ASSUME BoxInv, TreeInv, NEW root \in 1 .. Len(elements),
           elements[root].parent = 0, NEW refused
    PROVE  PassOK(DrawTree(root, refused), Len(elements), root)
<1>1. PICK m \in Nat : m = Len(elements)
  BY PoolFacts
<1>2. PICK f : IsPass(f, root, refused) /\ DrawTree(root, refused) = f[m]
  BY <1>1, DrawTreeIsPass
<1>3. /\ f[0] = StartPass
      /\ \A n \in 1 .. m :
            f[n] = IF n = root \/ elements[n].parent \in f[n - 1].sent
                   THEN DrawBox(f[n - 1], n, refused)
                   ELSE f[n - 1]
  BY <1>1, <1>2, PassSteps
<1>. DEFINE T == {n \in Nat : PassOK(f[n], n, root)}
<1>4. 0 \in T
  BY <1>3, StartPassOK
<1>5. ASSUME NEW n \in Nat, n < m, n \in T PROVE n + 1 \in T
  <2>1. n + 1 \in 1 .. m /\ (n + 1) - 1 = n
    BY <1>5
  <2>2. PICK k \in 1 .. Len(elements) : k = n + 1 /\ k - 1 = n
    BY <1>1, <2>1
  <2>3. PassOK(f[k - 1], k - 1, root)
    BY <1>5, <2>2
  <2>4. f[k] = IF k = root \/ elements[k].parent \in f[k - 1].sent
               THEN DrawBox(f[k - 1], k, refused)
               ELSE f[k - 1]
    BY <1>1, <1>3
  <2>5. PassOK(f[k], k, root)
    BY <2>3, <2>4, StepPassOK
  <2> QED BY <2>2, <2>5
<1>6. m \in T
  <2>. HIDE DEF T
  <2> QED BY <1>4, <1>5, InductionUpTo
<1> QED BY <1>1, <1>2, <1>6

-----------------------------------------------------------------------------
(* box_end                                                                 *)

(* The pass p has drawn the tree of root, after what was drawn before.     *)
DrewTree(p, root) ==
    /\ PassOK(p, Len(elements), root)
    /\ drawn' \in Seq(Drawing)
    /\ Len(drawn') = Len(drawn) + Len(p.order)
    /\ \A i \in 1 .. Len(drawn) : drawn'[i] = drawn[i]
    /\ \A i \in 1 .. Len(p.order) :
          LET a == p.order[i]
              r == drawn'[Len(drawn) + i]
          IN  /\ r.element = a
              /\ r.x = p.box[a].x /\ r.width = p.box[a].width
              /\ r.y = p.box[a].y /\ r.height = p.box[a].height
    /\ active' = p.active /\ pressed' = p.pressed /\ mouseDown' = p.mouseDown

LEMMA DrawOutcome ==
    ASSUME BoxInv, TreeInv, NEW root \in 1 .. Len(elements),
           elements[root].parent = 0, Draw(root)
    PROVE  \E p : DrewTree(p, root)
<1>1. PICK p, new :
         /\ PassOK(p, Len(elements), root)
         /\ new = [i \in DOMAIN p.order |->
                     [x |-> p.box[p.order[i]].x, y |-> p.box[p.order[i]].y,
                      width |-> p.box[p.order[i]].width,
                      height |-> p.box[p.order[i]].height,
                      element |-> p.order[i]]]
         /\ drawn' = drawn \o new
         /\ active' = p.active /\ pressed' = p.pressed
         /\ mouseDown' = p.mouseDown
  <2>1. \A refused : PassOK(DrawTree(root, refused), Len(elements), root)
    BY DrawTreeOK
  <2> QED BY <2>1 DEF Draw
<1>2. /\ p.order \in Seq(Nat)
      /\ p.box \in [1 .. Len(elements) -> Place]
  BY <1>1 DEF PassOK, Passes
<1>3. PICK l \in Nat : l = Len(p.order) /\ DOMAIN p.order = 1 .. l
  BY <1>2
<1>4. ASSUME NEW i \in 1 .. l
      PROVE  /\ p.order[i] \in 1 .. Len(elements)
             /\ new[i] \in Drawing
             /\ new[i].element = p.order[i]
             /\ new[i].x = p.box[p.order[i]].x
             /\ new[i].y = p.box[p.order[i]].y
             /\ new[i].width = p.box[p.order[i]].width
             /\ new[i].height = p.box[p.order[i]].height
  <2>1. p.order[i] \in root .. Len(elements)
    BY <1>1, <1>3 DEF PassOK, OrderOK
  <2>2. PICK a \in 1 .. Len(elements) : a = p.order[i]
    BY <2>1
  <2>3. PICK b \in Place : b = p.box[a]
    BY <1>2
  <2>4. new[i] = [x |-> b.x, y |-> b.y, width |-> b.width,
                  height |-> b.height, element |-> a]
    BY <1>1, <1>3, <2>2, <2>3
  <2>5. a \in Nat
    BY <2>2
  <2>6. new[i] \in Drawing
    BY <2>4, <2>5 DEF Place, Drawing
  <2> QED BY <2>2, <2>3, <2>4, <2>6
<1>5. new \in Seq(Drawing) /\ Len(new) = l
  <2>1. new \in [1 .. l -> Drawing]
    BY <1>1, <1>3, <1>4
  <2> QED BY <2>1
<1>6. PICK old \in Seq(Drawing) : old = drawn
  BY TreeFacts
<1>7. PICK both : both = old \o new
  OBVIOUS
<1>8. /\ both \in Seq(Drawing) /\ Len(both) = Len(old) + l
      /\ \A i \in 1 .. Len(old) : both[i] = old[i]
      /\ \A i \in 1 .. l : both[Len(old) + i] = new[i]
  <2>1. PICK d \in Nat : d = Len(old)
    OBVIOUS
  <2>2. /\ both \in Seq(Drawing) /\ Len(both) = d + l
        /\ \A i \in 1 .. d + l :
              both[i] = IF i <= d THEN old[i] ELSE new[i - d]
    BY <1>5, <1>7, <2>1, ConcatProperties
  <2>3. /\ \A i \in 1 .. d : i \in 1 .. d + l /\ i <= d
        /\ \A i \in 1 .. l : d + i \in 1 .. d + l /\ ~(d + i <= d)
                              /\ (d + i) - d = i
    OBVIOUS
  <2>4. \A i \in 1 .. d : both[i] = old[i]
    BY <2>2, <2>3
  <2>5. \A i \in 1 .. l : both[d + i] = new[i]
    BY <2>2, <2>3
  <2> QED BY <2>1, <2>2, <2>4, <2>5
<1>9. drawn' = both
  BY <1>1, <1>6, <1>7
<1>10. ASSUME NEW i \in 1 .. l
       PROVE  drawn'[Len(drawn) + i] = new[i]
  BY <1>6, <1>8, <1>9
<1>11. \A i \in 1 .. l :
          LET a == p.order[i]
              r == drawn'[Len(drawn) + i]
          IN  /\ r.element = a
              /\ r.x = p.box[a].x /\ r.width = p.box[a].width
              /\ r.y = p.box[a].y /\ r.height = p.box[a].height
  <2>1. ASSUME NEW i \in 1 .. l, NEW a, a = p.order[i],
               NEW r, r = drawn'[Len(drawn) + i]
        PROVE  /\ r.element = a
               /\ r.x = p.box[a].x /\ r.width = p.box[a].width
               /\ r.y = p.box[a].y /\ r.height = p.box[a].height
    <3>1. r = new[i]
      BY <1>10, <2>1
    <3> QED BY <1>4, <2>1, <3>1
  <2> QED BY <2>1
<1>12. /\ drawn' \in Seq(Drawing) /\ Len(drawn') = Len(drawn) + Len(p.order)
       /\ \A i \in 1 .. Len(drawn) : drawn'[i] = drawn[i]
  BY <1>3, <1>6, <1>8, <1>9
<1> QED BY <1>1, <1>3, <1>11, <1>12 DEF DrewTree

(* What a box_end does to the stack, and which box it draws.               *)
BoxEnds(n) ==
    /\ n = Len(stack) /\ n \in 1 .. n
    /\ current \in 1 .. Len(elements) /\ pc' = "building"
    /\ stack' \in Seq(Nat) /\ Len(stack') = n - 1
    /\ \A k \in 1 .. n - 1 : stack'[k] = stack[k]
    /\ UNCHANGED <<input, lastDown, begins, roots, elements, rows, unstacked,
                   told>>
    /\ current' = elements[current].parent
    /\ current' = 0 => n = 1 /\ current = stack[1] /\ Draw(current)
    /\ current' # 0 => UNCHANGED <<active, pressed, mouseDown, drawn>>
    /\ current' # 0 /\ n = 1 => current # Last(stack)
    /\ n # 1 => stack[1] <= current'
    /\ n # 1 /\ current = Last(stack) => current' = stack[n - 1]

LEMMA BoxEndOutcome ==
    ASSUME BoxInv, TreeInv, BoxEnd
    PROVE  \E n \in Nat : BoxEnds(n)
<1>1. PICK s \in Seq(Nat) : s = stack
  BY PoolFacts
<1>2. PICK n \in Nat : n = Len(s)
  BY <1>1
<1>3. /\ s # <<>> /\ current # 0 /\ current \in 0 .. Len(elements)
      /\ \/ current = Last(s)
         \/ elements[current].parent = Last(s)
  BY <1>1 DEF BoxInv, PoolOK, CurrentOK, BoxEnd, EndsBox
<1>4. n # 0 /\ n \in 1 .. n /\ 1 \in 1 .. n /\ Last(s) = s[n]
  BY <1>1, <1>2, <1>3 DEF Last
<1>5. current \in 1 .. Len(elements)
  BY <1>3, PoolFacts
<1>6. /\ stack' = Front(s) /\ current' = elements[current].parent
      /\ pc = "building" /\ pc' = pc
      /\ UNCHANGED <<input, lastDown, begins, roots, elements, rows, unstacked,
                     told>>
      /\ IF elements[current].parent = 0
         THEN Draw(current)
         ELSE UNCHANGED <<active, pressed, mouseDown, drawn>>
  BY <1>1, <1>3 DEF BoxEnd, EndsBox, NoBoxToEnd, PopBox, mouseVars
<1>7. /\ stack' \in Seq(Nat) /\ Len(stack') = n - 1
      /\ \A k \in 1 .. n - 1 : stack'[k] = s[k]
  <2>1. PICK f : f = SubSeq(s, 1, n - 1)
    OBVIOUS
  <2>2. f \in Seq(Nat) /\ Len(f) = n - 1 /\ \A k \in 1 .. n - 1 : f[k] = s[k]
    BY <1>2, <1>4, <2>1
  <2>3. stack' = f
    BY <1>2, <1>6, <2>1 DEF Front
  <2> QED BY <2>2, <2>3
<1>8. /\ \A k \in 1 .. n : s[k] \in 1 .. Len(elements)
      /\ \A k \in 1 .. n :
            elements[s[k]].parent = IF k = 1 THEN 0 ELSE s[k - 1]
      /\ \A k \in 1 .. n : s[1] <= s[k]
  BY <1>1, <1>2, <1>3, TreeFacts, PoolFacts DEF BoxInv, ChainOK, OpenTree
<1>9. ASSUME n # 1 PROVE n - 1 \in 1 .. n /\ s[n - 1] \in 1 .. Len(elements)
  BY <1>4, <1>8, <1>9
<1>10. s[n] \in 1 .. Len(elements) /\ s[n] # 0
  BY <1>4, <1>8
<1>11. elements[s[n]].parent = IF n = 1 THEN 0 ELSE s[n - 1]
  BY <1>4, <1>8
<1>12. ASSUME current' = 0 PROVE n = 1 /\ current = s[1] /\ Draw(current)
  <2>1. current = s[n]
    BY <1>3, <1>4, <1>6, <1>10, <1>12
  <2>2. n = 1
    <3>1. SUFFICES ASSUME n # 1 PROVE FALSE
      OBVIOUS
    <3>2. elements[s[n]].parent = s[n - 1] /\ elements[s[n]].parent = 0
      BY <1>6, <1>11, <1>12, <2>1, <3>1
    <3>3. s[n - 1] # 0
      BY <1>9, <3>1
    <3> QED BY <3>2, <3>3
  <2> QED BY <1>6, <1>12, <2>1, <2>2
<1>13. ASSUME current' # 0, n = 1 PROVE current # Last(s)
  BY <1>4, <1>6, <1>11, <1>13
<1>14. ASSUME n # 1 PROVE s[1] <= current'
  <2>1. current' = s[n] \/ current' = s[n - 1]
    BY <1>3, <1>4, <1>6, <1>11, <1>14
  <2>2. s[1] <= s[n] /\ s[1] <= s[n - 1]
    BY <1>4, <1>8, <1>9, <1>14
  <2> QED BY <2>1, <2>2
<1>15. ASSUME n # 1, current = Last(s) PROVE current' = s[n - 1]
  BY <1>4, <1>6, <1>11, <1>15
<1>16. BoxEnds(n)
  BY <1>1, <1>2, <1>4, <1>5, <1>6, <1>7, <1>12, <1>13, <1>14, <1>15
     DEF BoxEnds
<1> QED BY <1>16

(* The box_end of a box below a root.                                      *)
LEMMA InnerBoxEndTree ==
    ASSUME BoxInv, TreeInv, NEW n \in Nat, BoxEnds(n), current' # 0
    PROVE  DrawnOK' /\ SiblingsApart' /\ RootsOK' /\ PressOK' /\ IdsOK'
<1>1. /\ UNCHANGED <<input, lastDown, begins, roots, elements, rows, unstacked,
                     told, active, pressed, mouseDown, drawn>>
      /\ n = Len(stack) /\ n \in 1 .. n /\ Len(stack') = n - 1
      /\ \A k \in 1 .. n - 1 : stack'[k] = stack[k]
      /\ n = 1 => current # Last(stack)
  BY DEF BoxEnds
<1>2. SiblingsApart' /\ PressOK'
  BY <1>1, DrawnStays
<1>3. IdsOK'
  BY <1>1, TreeFacts DEF IdsOK
<1>4. stack # <<>>
  <2>1. Len(stack) # 0
    BY <1>1
  <2> QED BY <2>1
<1>5. IF n = 1 THEN stack' = <<>> ELSE stack' # <<>> /\ stack'[1] = stack[1]
  <2>1. CASE n = 1
    <3>1. stack' \in Seq(Nat) /\ Len(stack') = 0
      BY <1>1, <2>1 DEF BoxEnds
    <3>2. stack' = <<>>
      BY <3>1
    <3> QED BY <2>1, <3>2
  <2>2. CASE n # 1
    <3>1. 1 \in 1 .. n - 1 /\ Len(stack') # 0
      BY <1>1, <2>2
    <3> QED BY <1>1, <2>2, <3>1
  <2> QED BY <2>1, <2>2
<1>6. DrawnOK'
  BY <1>1, <1>4, <1>5, TreeFacts DEF DrawnOK
<1>7. ASSUME NEW r, Accounted(r) PROVE Accounted(r)'
  <2>1. ASSUME stack[1] = r, n = 1
        PROVE  \E u \in unstacked : InTree(u, r)
    <3>1. PICK u \in unstacked : stack[1] <= u
      BY <1>1, <1>4, <2>1, TreeFacts DEF OpenTree
    <3>2. /\ u \in 1 .. Len(elements) /\ stack[1] \in 1 .. Len(elements)
          /\ elements[stack[1]].parent = 0
          /\ \A e \in stack[1] + 1 .. Len(elements) : elements[e].parent # 0
      BY <1>1, <1>4, <2>1, TreeFacts, PoolFacts
         DEF PoolsFit, BoxInv, ChainOK, OpenTree
    <3>3. \A e \in r + 1 .. u : e \in r + 1 .. Len(elements)
      BY <2>1, <3>2
    <3> QED BY <2>1, <3>1, <3>2, <3>3 DEF InTree
  <2>2. \/ stack' # <<>> /\ stack'[1] = r
        \/ \E i \in 1 .. Len(drawn) : drawn[i].element = r
        \/ \E u \in unstacked : InTree(u, r)
    BY <1>5, <1>7, <2>1 DEF Accounted
  <2> QED BY <1>1, <1>7, <2>2 DEF Accounted, InTree
<1>8. RootsOK'
  <2>1. ASSUME NEW k \in 1 .. Len(roots') PROVE Accounted(roots[k])'
    <3>1. PICK r : r = roots[k]
      OBVIOUS
    <3>2. Accounted(r)'
      BY <1>1, <1>7, <2>1, <3>1, TreeFacts DEF RootsOK
    <3> QED BY <1>1, <3>1, <3>2 DEF Accounted, InTree
  <2> QED BY <2>1 DEF RootsOK
<1> QED BY <1>2, <1>3, <1>6, <1>8

(* Drawing a tree leaves no box drawn twice, and no siblings on top of     *)
(* each other: those drawn before are older than the root.                 *)
LEMMA DrewKeepsDrawn ==
    ASSUME BoxInv, TreeInv, stack # <<>>, NEW root, root = stack[1],
           root \in 1 .. Len(elements), elements[root].parent = 0,
           stack' = <<>>, UNCHANGED elements, NEW p, DrewTree(p, root)
    PROVE  DrawnOK' /\ SiblingsApart'
<1>1. PICK d \in Nat : d = Len(drawn) /\ DOMAIN drawn = 1 .. d
  BY TreeFacts
<1>2. PassOK(p, Len(elements), root)
  BY DEF DrewTree
<1>3. p.order \in Seq(Nat)
  BY <1>2 DEF PassOK, Passes
<1>4. PICK l \in Nat : l = Len(p.order)
  BY <1>3
<1>5. /\ drawn' \in Seq(Drawing) /\ Len(drawn') = d + l
      /\ \A i \in 1 .. d : drawn'[i] = drawn[i]
      /\ \A i \in 1 .. l :
            LET a == p.order[i]
                r == drawn'[d + i]
            IN  /\ r.element = a
                /\ r.x = p.box[a].x /\ r.width = p.box[a].width
                /\ r.y = p.box[a].y /\ r.height = p.box[a].height
  BY <1>1, <1>4 DEF DrewTree
<1>6. \A i \in 1 .. d : drawn[i].element \in 1 .. Len(elements)
                        /\ drawn[i].element < root
  BY <1>1, TreeFacts DEF DrawnOK
<1>7. ASSUME NEW i \in 1 .. l, NEW a, a = p.order[i]
      PROVE  /\ a \in root .. Len(elements)
             /\ elements[a].parent = 0 \/ root <= elements[a].parent
  <2>1. /\ a \in root .. Len(elements)
        /\ a = root \/ elements[a].parent \in p.sent
        /\ p.sent \subseteq root .. Len(elements)
    BY <1>2, <1>4, <1>7 DEF PassOK, OrderOK
  <2>2. elements[a].parent \in p.sent => root <= elements[a].parent
    BY <2>1
  <2> QED BY <2>1, <2>2
<1>8. ASSUME NEW i \in 1 .. d + l
      PROVE  \/ i \in 1 .. d /\ drawn'[i].element = drawn[i].element
             \/ \E k \in 1 .. l : i = d + k /\ drawn'[i].element = p.order[k]
  <2>1. CASE i \in 1 .. d
    BY <1>5, <2>1
  <2>2. CASE i \notin 1 .. d
    <3>1. PICK k \in 1 .. l : i = d + k
      <4>1. i - d \in 1 .. l /\ i = d + (i - d)
        BY <2>2
      <4> QED BY <4>1
    <3> QED BY <1>5, <3>1
  <2> QED BY <2>1, <2>2
<1>9. \A i, j \in 1 .. l : i < j => p.order[i] < p.order[j]
  BY <1>2, <1>4 DEF PassOK, OrderOK
<1>10. ASSUME NEW i \in 1 .. l, NEW j \in 1 .. l, p.order[i] = p.order[j]
       PROVE  i = j
  <2>1. /\ p.order[i] \in root .. Len(elements)
        /\ p.order[j] \in root .. Len(elements)
    BY <1>7
  <2>2. i < j \/ j < i \/ i = j
    OBVIOUS
  <2>3. ~(i < j) /\ ~(j < i)
    BY <1>9, <1>10, <2>1
  <2> QED BY <2>2, <2>3
<1>11. \A i \in 1 .. d, k \in 1 .. l : drawn[i].element # p.order[k]
  <2>1. ASSUME NEW i \in 1 .. d, NEW k \in 1 .. l
        PROVE  drawn[i].element # p.order[k]
    <3>1. drawn[i].element < root /\ drawn[i].element \in 1 .. Len(elements)
      BY <1>6
    <3>2. p.order[k] \in root .. Len(elements)
      BY <1>7
    <3> QED BY <3>1, <3>2
  <2> QED BY <2>1
<1>12. DrawnOK'
  <2>1. ASSUME NEW i \in 1 .. d + l
        PROVE  drawn'[i].element \in 1 .. Len(elements)
    <3>1. ASSUME NEW k \in 1 .. l PROVE p.order[k] \in 1 .. Len(elements)
      <4>1. p.order[k] \in root .. Len(elements)
        BY <1>7
      <4> QED BY <4>1
    <3> QED BY <1>6, <1>8, <3>1
  <2>2. ASSUME NEW i \in 1 .. d + l, NEW j \in 1 .. d + l,
               drawn'[i].element = drawn'[j].element
        PROVE  i = j
    <3>1. CASE i \in 1 .. d /\ j \in 1 .. d
      <4>1. drawn[i].element = drawn[j].element
        BY <1>5, <2>2, <3>1
      <4> QED BY <1>1, <3>1, <4>1, TreeFacts DEF DrawnOK
    <3>2. CASE i \notin 1 .. d /\ j \notin 1 .. d
      <4>1. PICK k \in 1 .. l : i = d + k /\ drawn'[i].element = p.order[k]
        BY <1>8, <3>2
      <4>2. PICK m \in 1 .. l : j = d + m /\ drawn'[j].element = p.order[m]
        BY <1>8, <3>2
      <4>3. k = m
        BY <1>10, <2>2, <4>1, <4>2
      <4> QED BY <4>1, <4>2, <4>3
    <3>3. CASE i \in 1 .. d /\ j \notin 1 .. d
      <4>1. PICK m \in 1 .. l : drawn'[j].element = p.order[m]
        BY <1>8, <3>3
      <4> QED BY <1>5, <1>11, <2>2, <3>3, <4>1
    <3>4. CASE i \notin 1 .. d /\ j \in 1 .. d
      <4>1. PICK m \in 1 .. l : drawn'[i].element = p.order[m]
        BY <1>8, <3>4
      <4>2. drawn'[j].element = drawn[j].element
        BY <1>5, <3>4
      <4>3. drawn[j].element # p.order[m]
        BY <1>11, <3>4
      <4> QED BY <2>2, <4>1, <4>2, <4>3
    <3> QED BY <3>1, <3>2, <3>3, <3>4
  <2> QED BY <1>5, <2>1, <2>2 DEF DrawnOK
<1>13. ASSUME NEW i \in 1 .. d + l, NEW j \in 1 .. d + l, i < j,
              NEW a, a = drawn'[i], NEW b, b = drawn'[j],
              elements[a.element].parent = elements[b.element].parent,
              elements[a.element].parent # 0,
              Unplaced(a.element), Unplaced(b.element)
       PROVE  Apart(a, b)
  <2>1. CASE j \in 1 .. d
    <3>1. i \in 1 .. d
      BY <1>13, <2>1
    <3>2. a = drawn[i] /\ b = drawn[j]
      BY <1>5, <1>13, <2>1, <3>1
    <3> QED BY <1>1, <1>13, <2>1, <3>1, <3>2, TreeFacts
            DEF SiblingsApart, Apart, Unplaced
  <2>2. CASE j \notin 1 .. d
    <3>1. PICK m \in 1 .. l : j = d + m /\ b.element = p.order[m]
      BY <1>8, <1>13, <2>2
    <3>2. elements[b.element].parent # 0 /\ root <= elements[b.element].parent
      BY <1>7, <1>13, <3>1
    <3>3. i \notin 1 .. d
      <4>1. SUFFICES ASSUME i \in 1 .. d PROVE FALSE
        OBVIOUS
      <4>2. PICK e \in 1 .. Len(elements) : e = a.element /\ e < root
        BY <1>5, <1>6, <1>13, <4>1
      <4>3. elements[e].parent \in Nat /\ elements[e].parent < e
        BY <4>2, PoolFacts, ElementFacts, TreeFacts DEF ParentsOK
      <4>4. root <= elements[e].parent
        BY <1>13, <3>2, <4>2
      <4> QED BY <4>2, <4>3, <4>4
    <3>4. PICK k \in 1 .. l : i = d + k /\ a.element = p.order[k]
      BY <1>8, <1>13, <3>3
    <3>5. k < m
      BY <1>13, <3>1, <3>4
    <3>6. PICK u, v : u = p.order[k] /\ v = p.order[m]
      OBVIOUS
    <3>7. Apart(p.box[u], p.box[v])
      BY <1>2, <1>4, <1>13, <3>1, <3>4, <3>5, <3>6 DEF PassOK, PlacesOK
    <3>8. /\ a.x = p.box[u].x /\ a.width = p.box[u].width
          /\ a.y = p.box[u].y /\ a.height = p.box[u].height
      BY <1>5, <1>13, <3>4, <3>6
    <3>9. b.x = p.box[v].x /\ b.y = p.box[v].y
      BY <1>5, <1>13, <3>1, <3>6
    <3> QED BY <3>7, <3>8, <3>9 DEF Apart
  <2> QED BY <2>1, <2>2
<1>14. SiblingsApart'
  <2>1. DOMAIN drawn' = 1 .. d + l
    BY <1>5
  <2>2. \A i, j \in 1 .. d + l : i < j \/ i >= j
    OBVIOUS
  <2> QED BY <1>13, <2>1, <2>2 DEF SiblingsApart, Apart, Unplaced
<1> QED BY <1>12, <1>14

LEMMA DrewKeepsMouse ==
    ASSUME BoxInv, TreeInv, NEW root \in 1 .. Len(elements),
           UNCHANGED <<elements, input, lastDown, told, begins>>,
           NEW p, DrewTree(p, root)
    PROVE  PressOK' /\ IdsOK'
<1>1. PICK d \in Nat : d = Len(drawn)
  BY TreeFacts
<1>2. PassOK(p, Len(elements), root)
  BY DEF DrewTree
<1>3. PICK l \in Nat : l = Len(p.order)
  BY <1>2 DEF PassOK, Passes
<1>4. /\ active' = p.active /\ pressed' = p.pressed /\ mouseDown' = p.mouseDown
      /\ Len(drawn') = d + l
      /\ \A i \in 1 .. d : drawn'[i] = drawn[i]
      /\ \A i \in 1 .. l :
            LET a == p.order[i]
                r == drawn'[d + i]
            IN  /\ r.element = a
                /\ r.x = p.box[a].x /\ r.width = p.box[a].width
                /\ r.y = p.box[a].y /\ r.height = p.box[a].height
  BY <1>1, <1>3 DEF DrewTree
<1>5. MouseOK(p)
  BY <1>2 DEF PassOK
<1>6. IdsOK'
  <2>1. {active', pressed', mouseDown', told} \subseteq 0 .. MaxBegins
    BY <1>4, <1>5, TreeFacts DEF IdsOK, MouseOK
  <2> QED BY <2>1, TreeFacts DEF IdsOK
<1>7. ASSUME ~GoesDown
      PROVE  /\ p.pressed \in {0, pressed}
             /\ pressed \in {0, told}
  BY <1>5, <1>7, TreeFacts DEF MouseOK, PressOK
<1>8. ASSUME ~GoesDown, p.pressed = told, told # 0,
             NEW i \in 1 .. d + l, NEW r, r = drawn'[i],
             elements[r.element].id = told
      PROVE  ~Under(input.at, r)
  <2>1. pressed = told
    BY <1>7, <1>8
  <2>2. CASE i \in 1 .. d
    <3>1. r = drawn[i]
      BY <1>4, <1>8, <2>2
    <3> QED BY <1>1, <1>8, <2>1, <2>2, <3>1, TreeFacts DEF PressOK
  <2>3. CASE i \notin 1 .. d
    <3>1. PICK k \in 1 .. l : i = d + k
      <4>1. i - d \in 1 .. l /\ i = d + (i - d)
        BY <2>3
      <4> QED BY <4>1
    <3>2. PICK a : a = p.order[k]
      OBVIOUS
    <3>3. /\ r.element = a
          /\ r.x = p.box[a].x /\ r.width = p.box[a].width
          /\ r.y = p.box[a].y /\ r.height = p.box[a].height
      BY <1>4, <1>8, <3>1, <3>2
    <3>4. ~Under(input.at, p.box[a])
      BY <1>3, <1>5, <1>8, <2>1, <3>2, <3>3 DEF MouseOK
    <3> QED BY <3>3, <3>4 DEF Under
  <2> QED BY <2>2, <2>3
<1>9. PressOK'
  <2>1. GoesDown' <=> GoesDown
    BY DEF GoesDown
  <2>2. ~GoesDown => pressed' \in {0, told}
    BY <1>4, <1>7
  <2>3. ASSUME ~GoesDown, pressed' = told, told # 0, NEW i \in 1 .. Len(drawn'),
               elements'[drawn'[i].element].id = told
        PROVE  ~Under(input.at, drawn'[i])
    BY <1>4, <1>8, <2>3
  <2> QED BY <2>1, <2>2, <2>3 DEF PressOK, Under
<1> QED BY <1>6, <1>9

(* The box_end of a root box.                                              *)
LEMMA RootBoxEndTree ==
    ASSUME BoxInv, TreeInv, NEW n \in Nat, BoxEnds(n), current' = 0
    PROVE  /\ DrawnOK' /\ SiblingsApart' /\ RootsOK' /\ PressOK' /\ IdsOK'
           /\ stack' = <<>>
           /\ \E p : DrewTree(p, current)
<1>1. /\ n = Len(stack) /\ n = 1 /\ stack' = <<>> /\ current = stack[1]
      /\ current \in 1 .. Len(elements) /\ elements[current].parent = 0
      /\ UNCHANGED <<input, lastDown, begins, roots, elements, rows, unstacked,
                     told>>
      /\ Draw(current)
  <2>1. stack' \in Seq(Nat) /\ Len(stack') = n - 1 /\ n = 1
    BY DEF BoxEnds
  <2>2. stack' = <<>>
    BY <2>1
  <2> QED BY <2>2 DEF BoxEnds
<1>2. stack # <<>>
  <2>1. Len(stack) # 0
    BY <1>1
  <2> QED BY <2>1
<1>3. PICK root \in 1 .. Len(elements) : root = current
  BY <1>1
<1>4. PICK p : DrewTree(p, root)
  BY <1>1, <1>3, DrawOutcome
<1>5. DrawnOK' /\ SiblingsApart'
  BY <1>1, <1>2, <1>3, <1>4, DrewKeepsDrawn
<1>6. PressOK' /\ IdsOK'
  BY <1>1, <1>4, DrewKeepsMouse
<1>7. PICK d \in Nat, l \in Nat : d = Len(drawn) /\ l = Len(p.order)
  <2>1. Len(drawn) \in Nat
    BY TreeFacts
  <2>2. p.order \in Seq(Nat)
    BY <1>4 DEF DrewTree, PassOK, Passes
  <2> QED BY <2>1, <2>2
<1>8. /\ Len(drawn') = d + l
      /\ \A i \in 1 .. d : drawn'[i] = drawn[i]
      /\ \A i \in 1 .. l : drawn'[d + i].element = p.order[i]
  BY <1>4, <1>7 DEF DrewTree
<1>9. \E i \in 1 .. Len(drawn') : drawn'[i].element = root
  <2>1. PICK k \in 1 .. l : p.order[k] = root
    <3>1. root <= Len(elements)
      OBVIOUS
    <3> QED BY <1>4, <1>7, <3>1 DEF DrewTree, PassOK, OrderOK
  <2>2. d + k \in 1 .. Len(drawn')
    BY <1>8
  <2> QED BY <1>8, <2>1, <2>2
<1>10. ASSUME NEW i \in 1 .. d PROVE i \in 1 .. Len(drawn')
  BY <1>8
<1>11. ASSUME NEW r, Accounted(r) PROVE Accounted(r)'
  <2>1. CASE stack[1] = r
    BY <1>1, <1>3, <1>9, <1>11, <2>1 DEF Accounted
  <2>2. CASE \E i \in 1 .. Len(drawn) : drawn[i].element = r
    <3>1. PICK i \in 1 .. d : drawn[i].element = r
      BY <1>7, <2>2
    <3>2. i \in 1 .. Len(drawn') /\ drawn'[i].element = r
      BY <1>8, <1>10, <3>1
    <3> QED BY <1>1, <1>11, <3>2 DEF Accounted
  <2>3. CASE \E u \in unstacked : InTree(u, r)
    BY <1>1, <1>11, <2>3 DEF Accounted, InTree
  <2> QED BY <1>11, <2>1, <2>2, <2>3 DEF Accounted
<1>12. RootsOK'
  <2>1. ASSUME NEW k \in 1 .. Len(roots') PROVE Accounted(roots[k])'
    <3>1. PICK r : r = roots[k]
      OBVIOUS
    <3>2. Accounted(r)'
      BY <1>1, <1>11, <2>1, <3>1, TreeFacts DEF RootsOK
    <3> QED BY <1>1, <3>1, <3>2 DEF Accounted, InTree
  <2> QED BY <2>1 DEF RootsOK
<1> QED BY <1>1, <1>3, <1>4, <1>5, <1>6, <1>12

LEMMA BoxEndTree ==
    ASSUME BoxInv, TreeInv, BoxEnd
    PROVE  TreeInv'
<1>1. PICK n \in Nat : BoxEnds(n)
  BY BoxEndOutcome
<1>2. /\ n = Len(stack) /\ n \in 1 .. n /\ Len(stack') = n - 1
      /\ pc' = "building"
      /\ \A k \in 1 .. n - 1 : stack'[k] = stack[k]
      /\ UNCHANGED <<input, lastDown, begins, roots, elements, rows, unstacked,
                     told>>
      /\ n # 1 => stack[1] <= current'
      /\ n # 1 /\ current = Last(stack) => current' = stack[n - 1]
  BY <1>1 DEF BoxEnds
<1>3. stack # <<>>
  <2>1. Len(stack) # 0
    BY <1>2
  <2> QED BY <2>1
<1>4. PoolsFit'
  <2>1. Len(stack') < ParentMax
    BY <1>2, TreeFacts, LayoutAssumption DEF PoolsFit
  <2> QED BY <1>2, <2>1, TreeFacts DEF PoolsFit
<1>5. ParentsOK'
  BY <1>2, TreeFacts DEF ParentsOK
<1>6. KidsOK'
  BY <1>2, TreeFacts DEF KidsOK
<1>7. RowsOK'
  BY <1>2, TreeFacts DEF RowsOK
<1>8. OpenTree'
  <2>1. SUFFICES ASSUME stack' # <<>> PROVE OpenTree'
    BY DEF OpenTree
  <2>2. n # 1
    <3>1. SUFFICES ASSUME n = 1 PROVE FALSE
      OBVIOUS
    <3>2. stack' \in Seq(Nat) /\ Len(stack') = 0
      BY <1>1, <1>2, <3>1 DEF BoxEnds
    <3> QED BY <2>1, <3>2
  <2>3. n - 1 \in 1 .. n - 1 /\ 1 \in 1 .. n - 1
        /\ \A k \in 1 .. n - 1 : k \in 1 .. n
    BY <1>2, <2>2
  <2>4. stack'[1] = stack[1] /\ Last(stack') = stack[n - 1]
    BY <1>2, <2>3 DEF Last
  <2>5. /\ \A k \in 1 .. n : stack[1] <= stack[k]
        /\ \A e \in stack[1] + 1 .. Len(elements) : elements[e].parent # 0
        /\ \/ current = Last(stack)
           \/ \E u \in unstacked : stack[1] <= u
    BY <1>2, <1>3, TreeFacts DEF OpenTree
  <2>6. \A k \in 1 .. Len(stack') : stack'[1] <= stack'[k]
    BY <1>2, <2>3, <2>4, <2>5
  <2>7. stack'[1] <= current'
    BY <1>2, <2>2, <2>4
  <2>8. \/ current' = Last(stack')
        \/ \E u \in unstacked' : stack'[1] <= u
    BY <1>2, <2>2, <2>4, <2>5
  <2> QED BY <1>2, <2>4, <2>5, <2>6, <2>7, <2>8 DEF OpenTree
<1>9. DrawnOK' /\ SiblingsApart' /\ RootsOK' /\ PressOK' /\ IdsOK'
  <2>1. CASE current' = 0
    BY <1>1, <2>1, RootBoxEndTree
  <2>2. CASE current' # 0
    BY <1>1, <2>2, InnerBoxEndTree
  <2> QED BY <2>1, <2>2
<1> QED BY <1>2, <1>4, <1>5, <1>6, <1>7, <1>8, <1>9 DEF TreeInv

LEMMA NextTreeInv == BoxInv /\ TreeInv /\ [Next]_vars => TreeInv'
<1>. SUFFICES ASSUME BoxInv, TreeInv, [Next]_vars PROVE TreeInv'
  OBVIOUS
<1>1. begins \in Nat /\ begins <= begins /\ begins <= MaxBegins
      /\ pc \in {"between", "building", "out of child lists"}
      /\ (pc = "between" => stack = <<>>)
  <2>1. begins \in Nat /\ begins <= begins
    BY PoolFacts
  <2>2. begins <= MaxBegins
    BY TreeFacts DEF IdsOK
  <2> QED BY <2>1, <2>2 DEF TreeInv
<1>2. CASE BeginFrame
  BY <1>2, BeginFrameTree
<1>3. CASE EndFrame
  <2>1. UNCHANGED <<input, lastDown, active, pressed, mouseDown, current,
                    roots, stack, elements, rows, unstacked, drawn, told,
                    begins>>
    BY <1>3 DEF EndFrame, mouseVars, poolVars, historyVars
  <2>2. pc' = "between" /\ stack = <<>>
    BY <1>3, PoolFacts DEF EndFrame
  <2> QED BY <1>1, <2>1, <2>2, TreeUnchanged
<1>4. CASE BoxBegin
  BY <1>4, BoxBeginTree
<1>5. CASE BoxEnd
  BY <1>5, BoxEndTree
<1>6. ASSUME NEW field \in LengthFields, NEW length \in Lengths,
             Style(field, length)
      PROVE  TreeInv'
  BY <1>6, StyleTree
<1>7. ASSUME NEW direction \in {"main", "cross"},
             Style("direction", direction)
      PROVE  TreeInv'
  BY <1>7, StyleTree
<1>8. CASE UNCHANGED vars
  <2>1. UNCHANGED <<input, lastDown, active, pressed, mouseDown, current,
                    roots, stack, elements, rows, unstacked, drawn, told,
                    begins, pc>>
    BY <1>8 DEF vars, mouseVars, poolVars, historyVars
  <2> QED BY <1>1, <2>1, TreeUnchanged
<1> QED BY <1>2, <1>3, <1>4, <1>5, <1>6, <1>7, <1>8 DEF Next

-----------------------------------------------------------------------------
(* The theorems                                                            *)

(* The boxes form trees and the pools fit, what was drawn belongs to roots *)
(* that are done, and a press is one of this frame or an old one that was  *)
(* not under the mouse: TreeInv, for every reachable state.                *)
THEOREM TreeInvariant == Spec => [](BoxInv /\ TreeInv)
<1>1. Init => BoxInv /\ TreeInv
  BY InitBoxInv, InitTreeInv
<1>2. (BoxInv /\ TreeInv) /\ [Next]_vars => (BoxInv /\ TreeInv)'
  BY NextBoxInv, NextTreeInv
<1> QED BY <1>1, <1>2, PTL DEF Spec

LEMMA TreeOKHolds ==
    ASSUME BoxInv, TreeInv
    PROVE  TreeOK
<1>1. elements \in Seq(Element) /\ DOMAIN elements = 1 .. Len(elements)
  BY PoolFacts
<1>2. ASSUME NEW e \in 1 .. Len(elements)
      PROVE  /\ DOMAIN elements[e].kids = 1 .. Len(elements[e].kids)
             /\ Kids(e) = {elements[e].kids[i] :
                             i \in 1 .. Len(elements[e].kids)}
             /\ Kids(e) # {} <=> elements[e].kids # <<>>
  <2>1. PICK kids \in Seq(Nat) : kids = elements[e].kids
    BY <1>1, ElementFacts
  <2>2. DOMAIN kids = 1 .. Len(kids)
    OBVIOUS
  <2>3. Kids(e) = {kids[i] : i \in 1 .. Len(kids)}
    BY <2>1, <2>2 DEF Kids, Range
  <2>4. kids # <<>> <=> 1 \in 1 .. Len(kids)
    OBVIOUS
  <2>5. kids = <<>> => {kids[i] : i \in 1 .. Len(kids)} = {}
    OBVIOUS
  <2>6. kids # <<>> => kids[1] \in Kids(e)
    BY <2>3, <2>4
  <2> QED BY <2>1, <2>2, <2>3, <2>5, <2>6
<1>3. ASSUME NEW e \in 1 .. Len(elements)
      PROVE  /\ elements[e].parent < e
             /\ elements[e].parent # 0 => e \in Kids(elements[e].parent)
             /\ IsInjective(elements[e].kids)
             /\ \A kid \in Kids(e) : elements[kid].parent = e
  <2>1. PICK p \in Nat : p = elements[e].parent /\ p < e
    BY <1>1, ElementFacts, TreeFacts DEF ParentsOK
  <2>2. ASSUME p # 0 PROVE e \in Kids(p)
    <3>1. p \in 1 .. Len(elements)
      BY <2>1, <2>2
    <3>2. PICK i \in 1 .. Len(elements[p].kids) : elements[p].kids[i] = e
      BY <2>1, <2>2, TreeFacts DEF ParentsOK
    <3> QED BY <1>2, <3>1, <3>2
  <2>3. IsInjective(elements[e].kids)
    <3>1. PICK kids : kids = elements[e].kids
      OBVIOUS
    <3>2. /\ DOMAIN kids = 1 .. Len(kids)
          /\ \A i, j \in 1 .. Len(kids) : kids[i] = kids[j] => i = j
      BY <1>2, <3>1, TreeFacts DEF KidsOK
    <3> QED BY <3>1, <3>2 DEF IsInjective
  <2>4. \A kid \in Kids(e) : elements[kid].parent = e
    BY <1>2, TreeFacts DEF KidsOK
  <2> QED BY <2>1, <2>2, <2>3, <2>4
<1>4. rows = Cardinality({e \in DOMAIN elements : Kids(e) # {}})
  <2>1. {e \in DOMAIN elements : Kids(e) # {}}
           = {e \in 1 .. Len(elements) : elements[e].kids # <<>>}
    BY <1>1, <1>2
  <2> QED BY <2>1, TreeFacts DEF RowsOK
<1> QED BY <1>1, <1>3, <1>4 DEF TreeOK

(* The pools stay within their sizes, the ids are those of this frame's    *)
(* and the last frame's box_begins, and the boxes are trees whose parent   *)
(* and child links agree (layout_element_push, layout_child_push).         *)
THEOREM TypeCorrect == Spec => []TypeOK
<1>1. ASSUME BoxInv, TreeInv PROVE TypeOK
  <2>1. TreeOK
    BY <1>1, TreeOKHolds
  <2>2. {begins, active, pressed, mouseDown, told} \subseteq 0 .. MaxBegins
    <3>1. begins \in Nat /\ begins <= MaxBegins /\ MaxBegins \in Nat
      <4>1. begins \in Nat
        BY <1>1, PoolFacts
      <4> QED BY <1>1, <4>1, TreeFacts, LayoutAssumption DEF IdsOK
    <3>2. begins \in 0 .. MaxBegins
      BY <3>1
    <3> QED BY <1>1, <3>2, TreeFacts DEF IdsOK
  <2>3. current \in 0 .. Len(elements) /\ DOMAIN elements = 1 .. Len(elements)
    BY <1>1, PoolFacts
  <2>4. Len(roots) < RootMax /\ Range(roots) \subseteq DOMAIN elements
    <3>1. /\ roots \in Seq(Nat) /\ Len(roots) < RootMax
          /\ \A k \in 1 .. Len(roots) : roots[k] \in 1 .. Len(elements)
      BY <1>1, TreeFacts DEF PoolsFit
    <3>2. DOMAIN roots = 1 .. Len(roots)
      BY <3>1
    <3> QED BY <2>3, <3>1, <3>2 DEF Range
  <2>5. Len(stack) < ParentMax /\ Range(stack) \subseteq DOMAIN elements
    <3>1. /\ stack \in Seq(Nat)
          /\ \A k \in 1 .. Len(stack) : stack[k] \in 1 .. Len(elements)
      BY <1>1, PoolFacts
    <3>2. DOMAIN stack = 1 .. Len(stack)
      BY <3>1
    <3>3. Len(stack) < ParentMax
      BY <1>1, TreeFacts DEF PoolsFit
    <3> QED BY <2>3, <3>1, <3>2, <3>3 DEF Range
  <2>6. Len(elements) < ElementMax /\ rows <= ChildPoolMax
    BY <1>1, TreeFacts DEF PoolsFit
  <2>7. /\ pc \in {"between", "building", "out of child lists"}
        /\ input \in Inputs \union {[at |-> <<0, 0>>, down |-> FALSE]}
        /\ lastDown \in BOOLEAN
    BY <1>1 DEF TreeInv
  <2> QED BY <2>1, <2>2, <2>3, <2>4, <2>5, <2>6, <2>7 DEF TypeOK
<1> QED BY <1>1, TreeInvariant, PTL

LEMMA RootOfIs ==
    ASSUME NEW u \in Nat, NEW r, InTree(u, r)
    PROVE  RootOf(u) = r
<1>1. /\ r \in 1 .. u /\ elements[r].parent = 0
      /\ \A f \in r + 1 .. u : elements[f].parent # 0
  BY DEF InTree
<1>2. ASSUME NEW s \in 1 .. u, elements[s].parent = 0,
             \A f \in s + 1 .. u : elements[f].parent # 0
      PROVE  s = r
  <2>1. ~(s \in r + 1 .. u) /\ ~(r \in s + 1 .. u)
    BY <1>1, <1>2
  <2> QED BY <1>1, <1>2, <2>1
<1> QED BY <1>1, <1>2 DEF RootOf

(* When a frame ends, each of its root boxes has been drawn, and once,     *)
(* unless the parent stack refused a box of its tree (box_end,             *)
(* layout_draw_pass).                                                      *)
THEOREM EveryRootDrawn == Spec => []RootsDrawn
<1>1. ASSUME BoxInv, TreeInv PROVE RootsDrawn
  <2>1. SUFFICES ASSUME pc = "between", NEW root \in Range(roots)
                 PROVE  \/ \E u \in unstacked : RootOf(u) = root
                        \/ Cardinality({i \in DOMAIN drawn :
                                          drawn[i].element = root}) = 1
    BY DEF RootsDrawn
  <2>2. PICK k \in 1 .. Len(roots) : roots[k] = root
    <3>1. roots \in Seq(Nat)
      BY <1>1, TreeFacts DEF PoolsFit
    <3>2. DOMAIN roots = 1 .. Len(roots)
      BY <3>1
    <3> QED BY <3>2 DEF Range
  <2>3. Accounted(root)
    BY <1>1, <2>2, TreeFacts DEF RootsOK
  <2>4. stack = <<>>
    BY <1>1, <2>1 DEF TreeInv
  <2>5. CASE \E u \in unstacked : InTree(u, root)
    <3>1. PICK u \in unstacked : InTree(u, root)
      BY <2>5
    <3>2. u \in Nat
      BY <1>1, TreeFacts DEF PoolsFit
    <3> QED BY <3>1, <3>2, RootOfIs
  <2>6. CASE \E i \in 1 .. Len(drawn) : drawn[i].element = root
    <3>1. PICK i \in 1 .. Len(drawn) : drawn[i].element = root
      BY <2>6
    <3>2. DOMAIN drawn = 1 .. Len(drawn)
      BY <1>1, TreeFacts
    <3>3. \A j \in 1 .. Len(drawn) : drawn[j].element = root => i = j
      BY <1>1, <3>1, TreeFacts DEF DrawnOK
    <3>4. {j \in DOMAIN drawn : drawn[j].element = root} = {i}
      BY <3>1, <3>2, <3>3
    <3> QED BY <3>4, FS_Singleton
  <2> QED BY <2>3, <2>4, <2>5, <2>6 DEF Accounted
<1> QED BY <1>1, TreeInvariant, PTL

(* No two children of a box are drawn on top of each other, whatever their *)
(* sizes and directions, the renderer's refusals and the limits of their   *)
(* parent, unless one of them was given a position (layout_draw_pass).     *)
THEOREM NoSiblingsOverlap == Spec => []SiblingsApart
<1>1. TreeInv => SiblingsApart
  BY DEF TreeInv
<1> QED BY <1>1, TreeInvariant, PTL

(* A press is not told to a box a second time after a frame in which the   *)
(* mouse was over it, unless the button went down anew (layout_draw_pass). *)
THEOREM OnePressIsOne == Spec => []PressedOnce
<1>1. TreeInv => PressedOnce
  BY DEF TreeInv, PressOK, GoesDown, PressedOnce
<1> QED BY <1>1, TreeInvariant, PTL

(* A box becomes pressed only while the button goes down, and is then the  *)
(* box that was last found under the mouse (layout_draw_pass).             *)
THEOREM PressIsAnEdge == Spec => PressEdge
<1>. DEFINE Edge == pressed' \notin {0, pressed} =>
                       input.down /\ ~lastDown /\ pressed' = active'
<1>1. ASSUME BoxInv, TreeInv, [Next]_vars PROVE [Edge]_vars
  <2>1. CASE pressed' = pressed
    BY <2>1
  <2>2. CASE BoxEnd
    <3>1. PICK n \in Nat : BoxEnds(n)
      BY <1>1, <2>2, BoxEndOutcome
    <3>2. CASE current' # 0
      BY <2>1, <3>1, <3>2 DEF BoxEnds
    <3>3. CASE current' = 0
      <4>1. PICK p : DrewTree(p, current)
        BY <1>1, <3>1, <3>3, RootBoxEndTree
      <4>2. MouseOK(p) /\ pressed' = p.pressed /\ active' = p.active
        BY <4>1 DEF DrewTree, PassOK
      <4>3. p.pressed \in {0, pressed} \/ (GoesDown /\ p.pressed = p.active)
        BY <4>2 DEF MouseOK
      <4> QED BY <4>2, <4>3 DEF GoesDown
    <3> QED BY <3>2, <3>3
  <2>3. CASE ~BoxEnd
    <3>1. pressed' = pressed
      BY <1>1, <2>3 DEF Next, BeginFrame, EndFrame, BoxBegin, BoxRefused,
         BoxBeginRoot, BoxBeginChild, BoxBeginTraps, CallBoxBegin, Style,
         mouseVars, vars
    <3> QED BY <2>1, <3>1
  <2> QED BY <2>2, <2>3
<1>2. BoxInv /\ TreeInv /\ [Next]_vars => [Edge]_vars
  BY <1>1
<1> QED BY <1>2, TreeInvariant, PTL DEF Spec, PressEdge
=============================================================================
