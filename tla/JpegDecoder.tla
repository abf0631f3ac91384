------------------------------ MODULE JpegDecoder ------------------------------
(***************************************************************************)
(* jpeg_decoder.c: one call of jpeg_gray_decode, which decompresses into   *)
(* the buffer of an earlier picture when it is large enough.  libjpeg      *)
(* reports an error from inside any of its calls by a longjmp to the start *)
(* of jpeg_gray_decode.                                                    *)
(***************************************************************************)
EXTENDS Heap

CONSTANT MaxDim      \* the largest width or height of a decoded picture

ASSUME MaxDimAssumption == MaxDim \in Nat \ {0} /\ MaxDim <= SizeMax

VARIABLES gray,      \* JpegGrayFrame, the output
          decoding   \* the locals of jpeg_gray_decode

decoderVars == <<gray, decoding>>

Dim == 0..MaxDim

NoFrame ==
  [pixels |-> Null, capacity |-> 0, width |-> 0, height |-> 0, stride |-> 0]
NotDecoding ==
  [allocated |-> Null, target |-> Null, width |-> 0, height |-> 0, row |-> 0]

DecoderTypeOK ==
  /\ gray \in [pixels : Blocks \cup {Null}, capacity : SizeT,
               width : Dim, height : Dim, stride : Dim]
  /\ decoding \in [allocated : Blocks \cup {Null}, target : Blocks \cup {Null},
                   width : Dim, height : Dim, row : Dim]

DecoderInit == gray = NoFrame /\ decoding = NotDecoding

\* jpeg_read_header and jpeg_start_decompress succeed and tell the size
StartDecompress(width, height) ==
  /\ decoding' = [NotDecoding EXCEPT !.width = width, !.height = height]
  /\ UNCHANGED <<gray, heap>>

RequiredSize == PixelCount(decoding.width, decoding.height)

\* A size the decoder refuses before it takes memory.
SizeRefused ==
  \/ decoding.width = 0 \/ decoding.height = 0
  \/ ProductOverflows(decoding.width, decoding.height)

NeedsMemory == gray.pixels = Null \/ gray.capacity < RequiredSize

\* Where the rows go: a new block, when the old one is missing or too small.
ChooseTarget ==
  /\ ~SizeRefused
  /\ \/ /\ NeedsMemory
        /\ \E block \in Blocks :
             /\ Malloc(block, RequiredSize)
             /\ decoding' = [decoding EXCEPT !.allocated = block, !.target = block]
     \/ /\ ~NeedsMemory
        /\ decoding' = [decoding EXCEPT !.target = gray.pixels]
        /\ UNCHANGED heap
  /\ UNCHANGED gray

\* the stride of a decoded picture is its width
ScanlineOffset == RowOffset(decoding.row, decoding.width)

\* One jpeg_read_scanlines: row number decoding.row of JPEG n.
ReadScanline(n) ==
  /\ decoding.row < decoding.height
  /\ heap' = [heap EXCEPT ![decoding.target] =
                Stored(decoding.target, ScanlineOffset,
                       [column \in 0..decoding.width - 1 |->
                          <<n, decoding.row, column>>])]
  /\ decoding' = [decoding EXCEPT !.row = @ + 1]
  /\ UNCHANGED gray

\* Mutant: the error path returns without the free.
DecodeFails_KeepsBlock ==
  /\ decoding' = NotDecoding
  /\ UNCHANGED <<gray, heap>>

\* Every failure: an error from libjpeg, a size refused, no memory.
DecodeFails ==
  /\ Free(decoding.allocated)
  /\ decoding' = NotDecoding
  /\ UNCHANGED gray

\* Mutant: the capacity follows every picture, also one in the old buffer.
FinishDecompress_CapacityIsSize ==
  /\ decoding.row = decoding.height
  /\ IF decoding.allocated # Null THEN Free(gray.pixels) ELSE UNCHANGED heap
  /\ gray' = [pixels |-> decoding.target, capacity |-> RequiredSize,
              width |-> decoding.width, height |-> decoding.height,
              stride |-> decoding.width]
  /\ decoding' = NotDecoding

\* All rows are there: the new block replaces the old one, the metadata follows.
FinishDecompress ==
  /\ decoding.row = decoding.height
  /\ IF decoding.allocated # Null THEN Free(gray.pixels) ELSE UNCHANGED heap
  /\ gray' = [pixels |-> decoding.target,
              capacity |-> IF decoding.allocated # Null THEN RequiredSize
                           ELSE gray.capacity,
              width |-> decoding.width, height |-> decoding.height,
              stride |-> decoding.width]
  /\ decoding' = NotDecoding

\* The next scanline is written inside the block that receives it.
ScanlineInBounds ==
  decoding.target # Null /\ decoding.row < decoding.height =>
    Within(decoding.target, ScanlineOffset, decoding.width)

=============================================================================
