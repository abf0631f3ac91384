--------------------------------- MODULE Heap ---------------------------------
(***************************************************************************)
(* malloc, realloc and free, as jpeg_decoder.c and motion_detector.c use   *)
(* them: the blocks that are allocated, and what each of their bytes holds.*)
(***************************************************************************)
EXTENDS FrameLayout, Functions

CONSTANTS Blocks,     \* the addresses malloc may return
          Null,
          Garbage     \* what a byte nobody wrote holds

ASSUME NullAssumption == Null \notin Blocks

VARIABLE heap         \* allocated block -> its bytes, a function of 0..size-1

Allocated == DOMAIN heap
Unused == Blocks \ Allocated

Fresh(size) == [i \in 0..size - 1 |-> Garbage]

\* free(NULL) does nothing
Without(block) == Restrict(heap, Allocated \ {block})

With(block, bytes) ==
  [b \in Allocated \cup {block} |-> IF b = block THEN bytes ELSE heap[b]]

Malloc(block, size) == block \in Unused /\ heap' = With(block, Fresh(size))

Free(block) == heap' = Without(block)

\* realloc moves the bytes to another block, or the block grows where it is;
\* realloc(NULL, size) is malloc
Realloc(old, block, size) ==
  /\ block \in Unused \cup ({old} \ {Null})
  /\ heap' = [b \in (Allocated \ {old}) \cup {block} |->
                IF b # block THEN heap[b]
                ELSE [i \in 0..size - 1 |->
                        IF old # Null /\ i \in DOMAIN heap[old] THEN heap[old][i]
                        ELSE Garbage]]

\* A load or a store outside the block is undefined: the invariants forbid it.
Load(block, i) == IF i \in DOMAIN heap[block] THEN heap[block][i] ELSE Garbage

\* block with the bytes of pixels written from offset on
Stored(block, offset, pixels) ==
  [i \in DOMAIN heap[block] |->
     IF i - offset \in DOMAIN pixels THEN pixels[i - offset] ELSE heap[block][i]]

\* length bytes from offset on are bytes of the block
Within(block, offset, length) ==
  /\ block \in Allocated
  /\ \A i \in offset..offset + length - 1 : i \in DOMAIN heap[block]

=============================================================================
