------------------------------ MODULE FrameLayout ------------------------------
(***************************************************************************)
(* The size arithmetic of motion_detector.c and jpeg_decoder.c: size_t is  *)
(* SizeMax + 1 wide (32 bits on the board), a product of two picture       *)
(* dimensions may not fit, and what wraps is taken for a small buffer.     *)
(***************************************************************************)
EXTENDS Integers

CONSTANT SizeMax    \* SIZE_MAX

ASSUME SizeMaxAssumption == SizeMax \in Nat \ {0}

SizeT == 0..SizeMax
Wrap(n) == n % (SizeMax + 1)

\* bytes of a picture without padding, as the code computes them
PixelCount(width, height) == Wrap(width * height)

\* the first byte of a row
RowOffset(row, stride) == Wrap(row * stride)

\* Mutant: the product is not checked.
ProductOverflows_Never(width, height) == FALSE

\* the guard before the product: (size_t)width > SIZE_MAX / (size_t)height
ProductOverflows(width, height) == width > SizeMax \div height

\* Mutant: the last row is counted with its padding.
ExtentOverflows_FullRows(width, height, stride) ==
  /\ height - 1 # 0
  /\ stride > SizeMax \div height

\* the guard before the extent of a strided frame
ExtentOverflows(width, height, stride) ==
  /\ height - 1 # 0
  /\ stride > (SizeMax - width) \div (height - 1)

\* validate_frame_layout
LayoutStatus(width, height, stride) ==
  IF width = 0 \/ height = 0 \/ stride < width THEN "invalid_argument"
  ELSE IF \/ ProductOverflows(width, height)
          \/ ExtentOverflows(width, height, stride) THEN "size_overflow"
  ELSE "ok"

\* The reference: the picture without padding and the strided frame it is read
\* from both fit the address range, in whole numbers.
Fits(width, height, stride) ==
  /\ width > 0 /\ height > 0 /\ stride >= width
  /\ width * height <= SizeMax
  /\ (height - 1) * stride + width <= SizeMax

=============================================================================
