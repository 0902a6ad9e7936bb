----------------------------- MODULE RingBuffer -----------------------------
(***************************************************************************)
(* The byte ring of Libraries/Basic/RingBuffer.c: one producer, one        *)
(* consumer, two free-running u32 offsets and a mapping that is installed  *)
(* either by ring_buffer_init or by the first thread that needs it         *)
(* (ring_buffer_lazy_init + ring_buffer_ensure_initialized).               *)
(*                                                                         *)
(* The unit of length is one cell of sizeof(THMessage) bytes; a cell holds *)
(* a client value, all the bytes of which were written together.  The      *)
(* mapping is mirrored in the code, so a run of cells that passes the end  *)
(* of the buffer continues at its start: hence the "% Capacity".           *)
(***************************************************************************)
EXTENDS Integers

CONSTANTS
    Capacity,       \* rb->capacity: a whole number of pages, in cells
    OffsetModulus,  \* 2^32 in the code: the offsets are u32
    LazyInit        \* TRUE: ring_buffer_lazy_init, FALSE: ring_buffer_init

ASSUME RingAssumption ==
    /\ Capacity \in Nat \ {0}
    /\ OffsetModulus \in Nat \ {0}
    /\ LazyInit \in BOOLEAN

VARIABLES
    items,          \* the installed mapping, or "none"
    memory,         \* what each mapping holds, cell by cell
    read_offset,    \* _Atomic u32, moved by the consumer only
    write_offset    \* _Atomic u32, moved by the producer only

ringVars == <<items, memory, read_offset, write_offset>>

Cells == 0 .. Capacity - 1

(* ring_buffer_ensure_initialized creates a fresh zero-filled file each    *)
(* time it runs, so the mappings of the two threads are different memory.  *)
Mappings == {"init", "writer", "reader"}

RingInit(zero) ==
    /\ items = IF LazyInit THEN "none" ELSE "init"
    /\ memory = [m \in Mappings |-> [c \in Cells |-> zero]]
    /\ read_offset = 0
    /\ write_offset = 0

-----------------------------------------------------------------------------
(* ring_buffer_size: the difference of the offsets as an i64; a C_ASSERT   *)
(* that fails logs and clamps the answer.                                  *)
RingSize ==
    LET count == write_offset - read_offset
    IN  IF count < 0 THEN 0
        ELSE IF count > Capacity THEN Capacity
        ELSE count

(* Mutant: one cell more than there is.                                    *)
RingSizeLeft_OffByOne == Capacity - RingSize + 1

RingSizeLeft == Capacity - RingSize

(* The cells of a run of bytes that starts at an offset.                   *)
Run(offset, bytes) == {(offset + k) % Capacity : k \in 0 .. bytes - 1}

CellAt(offset) == offset % Capacity

(* memcpy through ring_buffer_write_ptr: all cells of a run of the mapping *)
(* the pointer was made from.                                              *)
WriteRun(mapping, offset, bytes, value) ==
    memory' = [memory EXCEPT ![mapping] =
                 [c \in Cells |->
                    IF c \in Run(offset, bytes) THEN value ELSE @[c]]]

(* ring_buffer_produce and ring_buffer_consume do nothing when their       *)
(* C_ASSERT on the amount fails; the sum wraps like a u32.                 *)
Produce(bytes) ==
    write_offset' = IF bytes < Capacity
                    THEN (write_offset + bytes) % OffsetModulus
                    ELSE write_offset

Consume(bytes) ==
    read_offset' = IF bytes < Capacity
                   THEN (read_offset + bytes) % OffsetModulus
                   ELSE read_offset
=============================================================================
