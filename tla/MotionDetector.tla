---------------------------- MODULE MotionDetector ----------------------------
(***************************************************************************)
(* motion_detector.c: the picture kept for comparison and its buffer, which*)
(* outlives a reset and only grows.                                        *)
(***************************************************************************)
EXTENDS Heap

VARIABLES detector,    \* MotionDetector; stride always equals width and is left out
          compared     \* the pairs of pixels the last comparison looked at

detectorVars == <<detector, compared>>

NoDetector == [previous_pixels |-> Null, capacity |-> 0,
               width |-> 0, height |-> 0, baseline_ready |-> FALSE]

DetectorTypeOK ==
  detector \in [previous_pixels : Blocks \cup {Null}, capacity : SizeT,
                width : SizeT, height : SizeT, baseline_ready : BOOLEAN]

DetectorInit == detector = NoDetector /\ compared = {}

\* ensure_capacity: nothing to do, or a realloc that succeeds
EnsureCapacity(pixel_count) ==
  \/ /\ detector.capacity >= pixel_count
     /\ UNCHANGED <<detector, heap>>
  \/ /\ detector.capacity < pixel_count
     /\ \E resized \in Blocks :
          /\ Realloc(detector.previous_pixels, resized, pixel_count)
          /\ detector' = [detector EXCEPT !.previous_pixels = resized,
                                          !.capacity = pixel_count]

\* row and column of the byte at position i of a baseline so wide
RowAt(i, width) == i \div width
ColumnAt(i, width) == i % width

\* The rows of a frame packed as previous_pixels holds them.
Packed(pixels, width, height, stride) ==
  [i \in 0..width * height - 1 |->
     Load(pixels, RowOffset(RowAt(i, width), stride) + ColumnAt(i, width))]

\* copy_frame_to_baseline and the memcpy at the end of each compared row
CopyFrame(pixels, width, height, stride) ==
  heap' = [heap EXCEPT ![detector.previous_pixels] =
             Stored(detector.previous_pixels, 0,
                    Packed(pixels, width, height, stride))]

\* Mutant: two pictures with as many pixels pass for the same size.
SameSize_AsMany(width, height) ==
  detector.baseline_ready /\ detector.width * detector.height = width * height

SameSize(width, height) ==
  detector.baseline_ready /\ detector.width = width /\ detector.height = height

\* The rest of motion_detector_process once the memory is there.
CompareOrAdopt(pixels, width, height, stride) ==
  /\ compared' =
       IF SameSize(width, height)
         THEN {<<Load(detector.previous_pixels, RowOffset(row, width) + column),
                 Load(pixels, RowOffset(row, stride) + column)>> :
                 row \in 0..height - 1, column \in 0..width - 1}
         ELSE {}
  /\ CopyFrame(pixels, width, height, stride)
  /\ detector' = [detector EXCEPT !.width = width, !.height = height,
                                  !.baseline_ready = TRUE]

\* motion_detector_reset: the buffer and its capacity stay
ResetDetector ==
  /\ detector' = [detector EXCEPT !.width = 0, !.height = 0,
                                  !.baseline_ready = FALSE]
  /\ UNCHANGED <<compared, heap>>

\* Every row read from the frame, and every row of the baseline read and
\* written, is inside its block.
RowsInBounds(pixels, width, height, stride) ==
  \A row \in 0..height - 1 :
    /\ Within(pixels, RowOffset(row, stride), width)
    /\ Within(detector.previous_pixels, RowOffset(row, width), width)

=============================================================================
