-------------------------- MODULE PicturePath_proofs --------------------------
(***************************************************************************)
(* Theorems about PicturePath, for pictures of every size, every width of  *)
(* size_t and every number of pictures: the blocks have one owner each, no *)
(* row leaves its block, and whole pictures are compared.                  *)
(***************************************************************************)
EXTENDS PicturePath, TLAPS

-----------------------------------------------------------------------------
(* The invariant.                                                           *)

\* A size the decoder lets pass: neither dimension is zero, and the product fits.
Accepted(width, height) ==
  /\ width \in Dim \ {0} /\ height \in Dim \ {0}
  /\ ~ProductOverflows(width, height)

\* Between two pictures nothing is being decoded.  While rows are read they go to
\* a new block of just the size needed, or to the frame's own, which is large enough.
DecodingInv ==
  /\ path_pc \notin {"target", "scan"} => decoding = NotDecoding
  /\ path_pc = "target" =>
       decoding.allocated = Null /\ decoding.target = Null /\ decoding.row = 0
  /\ path_pc = "scan" =>
       /\ Accepted(decoding.width, decoding.height)
       /\ decoding.row <= decoding.height
       /\ decoding.target # Null
       /\ \/ /\ decoding.allocated = decoding.target
             /\ DOMAIN heap[decoding.target] = 0..RequiredSize - 1
          \/ /\ decoding.allocated = Null /\ decoding.target = gray.pixels
             /\ gray.capacity >= RequiredSize

\* A decoded picture fits the frame's block.
FrameInv ==
  /\ path_pc \in {"detect", "compare"} =>
       /\ gray.pixels # Null
       /\ Accepted(gray.width, gray.height) /\ gray.stride = gray.width
       /\ gray.capacity >= FrameSize
  /\ path_pc = "destroyed" => gray = NoFrame

\* The baseline fits the detector's block, and so does the picture it is about
\* to be compared with.
BaselineInv ==
  /\ detector.previous_pixels = Null => detector.capacity = 0
  /\ path_pc = "compare" =>
       detector.previous_pixels # Null /\ detector.capacity >= FrameSize
  /\ detector.baseline_ready =>
       /\ detector.previous_pixels # Null
       /\ Accepted(detector.width, detector.height)
       /\ detector.capacity >= PixelCount(detector.width, detector.height)
  /\ path_pc = "destroyed" => detector = NoDetector

Shape == TypeOK /\ BlocksOwnedOnce /\ DecodingInv /\ FrameInv /\ BaselineInv

\* The first rows of a block, packed, are those of picture n.
Holds(block, n, width, rows) ==
  \A row \in 0..rows - 1, column \in 0..width - 1 :
    heap[block][row * width + column] = <<n, row, column>>

\* What the buffers hold: the rows read so far, the picture decoded, and a picture
\* accepted before it.
Contents ==
  /\ path_pc \notin {"idle", "destroyed"} => sample > 0
  /\ path_pc = "scan" => Holds(decoding.target, sample, decoding.width, decoding.row)
  /\ path_pc \in {"detect", "compare"} => Holds(gray.pixels, sample, gray.width, gray.height)
  /\ detector.baseline_ready =>
       \E n \in 1..sample :
         /\ path_pc \in {"idle", "destroyed"} \/ n < sample
         /\ Holds(detector.previous_pixels, n, detector.width, detector.height)

-----------------------------------------------------------------------------
(* Sizes.                                                                   *)

LEMMA Dimensions ==
  /\ \A n \in Dim : n \in SizeT /\ n \in Nat
  /\ \A n \in SizeT : n \in Nat
  /\ 0 \in Dim /\ 0 \in SizeT /\ SizeMax \in Nat \ {0}
BY SizeMaxAssumption, MaxDimAssumption DEF Dim, SizeT

LEMMA PixelCountType ==
  ASSUME NEW width \in Dim, NEW height \in Dim
  PROVE  PixelCount(width, height) \in SizeT
<1>1. width * height \in Nat
  BY Dimensions
<1> QED
  BY <1>1, SizeMaxAssumption DEF PixelCount, Wrap, SizeT

\* The guard before the product lets no product pass that does not fit.
LEMMA AcceptedSize ==
  ASSUME NEW width, NEW height, Accepted(width, height)
  PROVE  /\ width \in Nat \ {0} /\ height \in Nat \ {0}
         /\ width * height \in Nat /\ width * height <= SizeMax
         /\ width <= width * height
         /\ PixelCount(width, height) = width * height
<1>1. width \in Nat \ {0} /\ height \in Nat \ {0} /\ SizeMax \in Nat
  BY Dimensions DEF Accepted
<1>2. width * height \in Nat /\ width <= width * height
  BY <1>1
<1>3. ~(width > SizeMax \div height)
  BY DEF Accepted, ProductOverflows
<1>4. width * height <= SizeMax
  <2> SUFFICES ASSUME SizeMax < width * height PROVE FALSE
    BY <1>1, <1>2
  <2>1. SizeMax \div height < width
    BY <1>1
  <2> QED
    BY <1>1, <1>3, <2>1
<1>5. (width * height) % (SizeMax + 1) = width * height
  <2> DEFINE n == width * height
  <2> HIDE DEF n
  <2>1. n \in Nat /\ n <= SizeMax => n % (SizeMax + 1) = n
    BY <1>1
  <2> QED
    BY <1>2, <1>4, <2>1 DEF n
<1> QED
  BY <1>1, <1>2, <1>4, <1>5 DEF PixelCount, Wrap

\* Every row of an accepted picture begins where it should and ends inside it.
LEMMA RowInside ==
  ASSUME NEW width, NEW height, Accepted(width, height), NEW row \in 0..height - 1
  PROVE  /\ row * width \in Nat /\ RowOffset(row, width) = row * width
         /\ row * width + width <= PixelCount(width, height)
<1>1. /\ width \in Nat \ {0} /\ height \in Nat \ {0}
      /\ width * height \in Nat /\ width * height <= SizeMax
      /\ PixelCount(width, height) = width * height
  BY AcceptedSize
<1>2. row \in Nat /\ row + 1 <= height /\ SizeMax \in Nat
  BY <1>1, Dimensions
<1>3. row * width \in Nat
  BY <1>1, <1>2
<1>4. (row + 1) * width <= height * width
  BY <1>1, <1>2
<1>5. (row + 1) * width = row * width + width /\ height * width = width * height
  BY <1>1, <1>2
<1>6. row * width + width <= width * height
  BY <1>4, <1>5
<1>7. (row * width) % (SizeMax + 1) = row * width
  <2> DEFINE n == row * width
             m == width * height
  <2>1. n \in Nat /\ m \in Nat /\ n + width <= m /\ m <= SizeMax
    BY <1>1, <1>3, <1>6
  <2> HIDE DEF n, m
  <2>2. n <= SizeMax
    BY <1>1, <1>2, <2>1
  <2>3. n % (SizeMax + 1) = n
    BY <1>2, <2>1, <2>2
  <2> QED
    BY <2>3 DEF n
<1> QED
  BY <1>1, <1>3, <1>6, <1>7 DEF RowOffset, Wrap

-----------------------------------------------------------------------------
(* Memory.                                                                  *)

\* What malloc, free and realloc leave allocated, and in it.
LEMMA MallocEffect ==
  ASSUME NEW block \in Blocks, NEW size, Malloc(block, size)
  PROVE  /\ block \notin Allocated /\ Allocated' = Allocated \cup {block}
         /\ heap'[block] = Fresh(size)
         /\ \A b \in Allocated : heap'[b] = heap[b]
<1>1. block \notin Allocated
  BY DEF Malloc, Unused
<1>2. heap' = [b \in Allocated \cup {block} |-> IF b = block THEN Fresh(size) ELSE heap[b]]
  BY DEF Malloc, With
<1>3. DOMAIN heap' = Allocated \cup {block}
  BY <1>2
<1> QED
  BY <1>1, <1>2, <1>3 DEF Allocated

LEMMA FreeEffect ==
  ASSUME NEW block, Free(block)
  PROVE  /\ Allocated' = Allocated \ {block}
         /\ \A b \in Allocated \ {block} : heap'[b] = heap[b]
<1>1. heap' = [b \in Allocated \ {block} |-> heap[b]]
  BY DEF Free, Without, Restrict
<1>2. DOMAIN heap' = Allocated \ {block}
  BY <1>1
<1> QED
  BY <1>1, <1>2 DEF Allocated

LEMMA ReallocEffect ==
  ASSUME NEW old, NEW block \in Blocks, NEW size, Realloc(old, block, size)
  PROVE  /\ block \in Unused \cup ({old} \ {Null})
         /\ Allocated' = (Allocated \ {old}) \cup {block}
         /\ \A b \in Allocated \ {old, block} : heap'[b] = heap[b]
         /\ DOMAIN heap'[block] = 0..size - 1
         /\ old # Null =>
              \A i \in 0..size - 1 : i \in DOMAIN heap[old] => heap'[block][i] = heap[old][i]
<1> DEFINE bytes == [i \in 0..size - 1 |->
                       IF old # Null /\ i \in DOMAIN heap[old] THEN heap[old][i] ELSE Garbage]
<1>1. /\ block \in Unused \cup ({old} \ {Null})
      /\ heap' = [b \in (Allocated \ {old}) \cup {block} |-> IF b # block THEN heap[b] ELSE bytes]
  BY DEF Realloc
<1>2. /\ DOMAIN bytes = 0..size - 1
      /\ old # Null =>
           \A i \in 0..size - 1 : i \in DOMAIN heap[old] => bytes[i] = heap[old][i]
  OBVIOUS
<1> HIDE DEF bytes
<1>3. DOMAIN heap' = (Allocated \ {old}) \cup {block} /\ heap'[block] = bytes
  BY <1>1
<1> QED
  BY <1>1, <1>2, <1>3 DEF Allocated

\* A row written into a block: its own bytes, and no others.
LEMMA StoreEffect ==
  ASSUME NEW block \in Allocated, NEW bytes, heap' = [heap EXCEPT ![block] = bytes]
  PROVE  /\ Allocated' = Allocated
         /\ heap'[block] = bytes
         /\ \A b \in Allocated \ {block} : heap'[b] = heap[b]
<1>1. DOMAIN heap' = DOMAIN heap
  OBVIOUS
<1> QED
  BY <1>1 DEF Allocated

-----------------------------------------------------------------------------
(* Shape: the first moment and every step.                                  *)

LEMMA ShapeInit ==
  ASSUME Init
  PROVE  Shape
<1> USE DEF Init, DecoderInit, DetectorInit, NoFrame, NoDetector, NotDecoding
<1>1. TypeOK
  BY Dimensions, SampleAssumption DEF TypeOK, DecoderTypeOK, DetectorTypeOK, CapacitiesTrue
<1>2. BlocksOwnedOnce
  BY DEF BlocksOwnedOnce, Allocated, Owners
<1>3. DecodingInv /\ FrameInv /\ BaselineInv
  BY DEF DecodingInv, FrameInv, BaselineInv
<1> QED
  BY <1>1, <1>2, <1>3 DEF Shape

\* Steps that touch neither memory nor the detector, and leave scanning alone.
LEMMA ProcessJpegShape ==
  ASSUME Shape, ProcessJpeg
  PROVE  Shape'
<1> USE DEF Shape, ProcessJpeg, StartDecompress, decoderVars, detectorVars
<1>1. UNCHANGED <<heap, gray, detector, compared>> /\ path_pc = "idle" /\ path_pc' \in {"idle", "target"}
  OBVIOUS
<1>2. sample' \in 0..MaxSample
  <2>1. sample \in 0..MaxSample /\ sample < MaxSample /\ sample' = sample + 1
    BY DEF TypeOK
  <2> QED
    BY ONLY <2>1, SampleAssumption
<1>3. \/ decoding' = decoding /\ path_pc' = "idle"
      \/ \E width, height \in Dim :
           /\ decoding' = [NotDecoding EXCEPT !.width = width, !.height = height]
           /\ path_pc' = "target"
  OBVIOUS
<1>4. decoding' \in [allocated : Blocks \cup {Null}, target : Blocks \cup {Null},
                     width : Dim, height : Dim, row : Dim]
      /\ decoding'.allocated = decoding.allocated
  <2>1. decoding = NotDecoding
    BY <1>1 DEF DecodingInv
  <2> QED
    BY <1>3, <2>1, Dimensions DEF TypeOK, DecoderTypeOK, NotDecoding
<1>5. TypeOK'
  BY <1>1, <1>2, <1>4 DEF TypeOK, DecoderTypeOK, DetectorTypeOK, CapacitiesTrue
<1>6. BlocksOwnedOnce'
  BY <1>1, <1>4 DEF BlocksOwnedOnce, Allocated, Owners
<1>7. DecodingInv'
  BY <1>1, <1>3 DEF DecodingInv, NotDecoding
<1>8. FrameInv' /\ BaselineInv'
  BY <1>1 DEF FrameInv, BaselineInv
<1> QED
  BY <1>5, <1>6, <1>7, <1>8

LEMMA PrepareTargetShape ==
  ASSUME Shape, PrepareTarget
  PROVE  Shape'
<1> USE DEF Shape, PrepareTarget, ChooseTarget, detectorVars
<1>1. /\ UNCHANGED <<gray, detector, compared, sample>>
      /\ path_pc = "target" /\ path_pc' = "scan"
  OBVIOUS
<1>2. /\ decoding.allocated = Null /\ decoding.target = Null /\ decoding.row = 0
      /\ decoding.width \in Dim /\ decoding.height \in Dim
      /\ RequiredSize \in SizeT
  BY <1>1, PixelCountType DEF DecodingInv, TypeOK, DecoderTypeOK, RequiredSize
<1>3. Accepted(decoding.width, decoding.height)
  BY <1>2 DEF SizeRefused, Accepted
<1>4. CASE NeedsMemory
  <2>1. PICK block \in Blocks :
          /\ Malloc(block, RequiredSize)
          /\ decoding' = [decoding EXCEPT !.allocated = block, !.target = block]
    BY <1>4
  <2>2. /\ block \notin Allocated /\ Allocated' = Allocated \cup {block}
        /\ heap'[block] = Fresh(RequiredSize)
        /\ \A b \in Allocated : heap'[b] = heap[b]
    BY <2>1, MallocEffect
  <2>3. DOMAIN heap'[block] = 0..RequiredSize - 1
    BY <2>2 DEF Fresh
  <2>4. /\ decoding'.allocated = block /\ decoding'.target = block /\ decoding'.row = 0
        /\ decoding'.width = decoding.width /\ decoding'.height = decoding.height
        /\ decoding' \in [allocated : Blocks \cup {Null}, target : Blocks \cup {Null},
                          width : Dim, height : Dim, row : Dim]
    BY <1>2, <2>1 DEF TypeOK, DecoderTypeOK
  <2>5. block # Null
    BY <2>1, NullAssumption
  <2>6. /\ gray.pixels # Null => gray.pixels \in Allocated
        /\ detector.previous_pixels # Null => detector.previous_pixels \in Allocated
    BY DEF BlocksOwnedOnce, Owners
  <2>7. TypeOK'
    BY <1>1, <2>2, <2>4, <2>6 DEF TypeOK, DecoderTypeOK, DetectorTypeOK, CapacitiesTrue
  <2>8. BlocksOwnedOnce'
    BY <1>1, <1>2, <2>2, <2>4, <2>5, <2>6 DEF BlocksOwnedOnce, Owners
  <2>9. DecodingInv'
    <3>1. RequiredSize' = RequiredSize
      BY <2>4 DEF RequiredSize
    <3>2. decoding'.row <= decoding'.height
      BY ONLY <1>2, <2>4, Dimensions
    <3> QED
      BY <1>1, <1>3, <2>3, <2>4, <2>5, <3>1, <3>2 DEF DecodingInv
  <2>10. FrameInv' /\ BaselineInv'
    BY <1>1 DEF FrameInv, BaselineInv
  <2> QED
    BY <2>7, <2>8, <2>9, <2>10
<1>5. CASE ~NeedsMemory
  <2>1. decoding' = [decoding EXCEPT !.target = gray.pixels] /\ heap' = heap
    BY <1>5
  <2>2. /\ decoding'.allocated = Null /\ decoding'.target = gray.pixels /\ decoding'.row = 0
        /\ decoding'.width = decoding.width /\ decoding'.height = decoding.height
        /\ decoding' \in [allocated : Blocks \cup {Null}, target : Blocks \cup {Null},
                          width : Dim, height : Dim, row : Dim]
    BY <1>2, <2>1 DEF TypeOK, DecoderTypeOK
  <2>3. gray.pixels # Null /\ gray.capacity >= RequiredSize
    <3>1. gray.capacity \in SizeT
      BY DEF TypeOK, DecoderTypeOK
    <3>2. gray.capacity \in Int /\ RequiredSize \in Int
      BY ONLY <1>2, <3>1, Dimensions
    <3> QED
      BY ONLY <1>5, <3>2 DEF NeedsMemory
  <2>4. TypeOK'
    BY <1>1, <2>1, <2>2 DEF TypeOK, DecoderTypeOK, DetectorTypeOK, CapacitiesTrue
  <2>5. BlocksOwnedOnce'
    BY <1>1, <1>2, <2>1, <2>2 DEF BlocksOwnedOnce, Owners, Allocated
  <2>6. DecodingInv'
    <3>1. RequiredSize' = RequiredSize
      BY <2>2 DEF RequiredSize
    <3>2. decoding'.row <= decoding'.height
      BY ONLY <1>2, <2>2, Dimensions
    <3> QED
      BY <1>1, <1>3, <2>2, <2>3, <3>1, <3>2 DEF DecodingInv
  <2>7. FrameInv' /\ BaselineInv'
    BY <1>1 DEF FrameInv, BaselineInv
  <2> QED
    BY <2>4, <2>5, <2>6, <2>7
<1> QED
  BY <1>4, <1>5

\* Rows go to a block of the decoder's, never to the detector's.
LEMMA TargetIsOwned ==
  ASSUME Shape, path_pc = "scan"
  PROVE  decoding.target \in Allocated /\ decoding.target # detector.previous_pixels
<1>1. /\ decoding.target # Null
      /\ decoding.target = decoding.allocated \/ decoding.target = gray.pixels
  BY DEF Shape, DecodingInv
<1> QED
  BY <1>1 DEF Shape, BlocksOwnedOnce, Owners

LEMMA ScanShape ==
  ASSUME Shape, Scan
  PROVE  Shape'
<1> DEFINE row == Stored(decoding.target, ScanlineOffset,
                         [column \in 0..decoding.width - 1 |-> <<sample, decoding.row, column>>])
<1>1. /\ path_pc = "scan" /\ decoding.row < decoding.height
      /\ heap' = [heap EXCEPT ![decoding.target] = row]
      /\ decoding' = [decoding EXCEPT !.row = @ + 1]
      /\ UNCHANGED <<gray, detector, compared, sample, path_pc>>
  BY DEF Scan, ReadScanline, detectorVars
<1>2. DOMAIN row = DOMAIN heap[decoding.target]
  BY DEF Stored
<1> HIDE DEF row
<1>3. /\ Allocated' = Allocated
      /\ \A b \in Allocated : DOMAIN heap'[b] = DOMAIN heap[b]
  BY <1>1, <1>2, TargetIsOwned, StoreEffect
<1>4. /\ decoding \in [allocated : Blocks \cup {Null}, target : Blocks \cup {Null},
                       width : Dim, height : Dim, row : Dim]
      /\ gray.pixels # Null => gray.pixels \in Allocated
      /\ detector.previous_pixels # Null => detector.previous_pixels \in Allocated
  BY DEF Shape, TypeOK, DecoderTypeOK, BlocksOwnedOnce, Owners
<1>5. decoding.row + 1 \in Dim /\ decoding.row + 1 <= decoding.height
  <2>1. decoding.row \in 0..MaxDim /\ decoding.height \in 0..MaxDim /\ MaxDim \in Nat
    BY <1>4, MaxDimAssumption DEF Dim
  <2> QED
    BY ONLY <1>1, <2>1 DEF Dim
<1>6. /\ decoding'.allocated = decoding.allocated /\ decoding'.target = decoding.target
      /\ decoding'.width = decoding.width /\ decoding'.height = decoding.height
      /\ decoding'.row = decoding.row + 1
      /\ decoding' \in [allocated : Blocks \cup {Null}, target : Blocks \cup {Null},
                        width : Dim, height : Dim, row : Dim]
  BY ONLY <1>1, <1>4, <1>5
<1>7. TypeOK'
  BY <1>1, <1>3, <1>4, <1>6 DEF Shape, TypeOK, DecoderTypeOK, DetectorTypeOK, CapacitiesTrue
<1>8. BlocksOwnedOnce'
  BY <1>1, <1>3, <1>6 DEF Shape, BlocksOwnedOnce, Owners
<1>9. DecodingInv'
  <2>1. RequiredSize' = RequiredSize
    BY <1>6 DEF RequiredSize
  <2> QED
    BY <1>1, <1>3, <1>5, <1>6, <2>1, TargetIsOwned DEF Shape, DecodingInv
<1>10. FrameInv' /\ BaselineInv'
  BY <1>1 DEF Shape, FrameInv, BaselineInv
<1> QED
  BY <1>7, <1>8, <1>9, <1>10 DEF Shape

\* What finishing a picture changes: the frame has the block the rows went to, and
\* its block of before, if it was another, is free.
LEMMA FinishEffect ==
  ASSUME Shape, Finish
  PROVE  /\ path_pc = "scan" /\ path_pc' = "detect" /\ decoding' = NotDecoding
         /\ decoding.row = decoding.height
         /\ UNCHANGED <<detector, compared, sample>>
         /\ gray'.pixels = decoding.target /\ gray'.stride = decoding.width
         /\ gray'.width = decoding.width /\ gray'.height = decoding.height
         /\ gray'.capacity \in SizeT /\ gray'.capacity >= RequiredSize
         /\ DOMAIN heap'[decoding.target] = 0..gray'.capacity - 1
         /\ gray' \in [pixels : Blocks \cup {Null}, capacity : SizeT,
                       width : Dim, height : Dim, stride : Dim]
         /\ Allocated' = {decoding.target, detector.previous_pixels} \ {Null}
         /\ \A b \in Allocated' : heap'[b] = heap[b]
<1>1. /\ path_pc = "scan" /\ path_pc' = "detect" /\ decoding' = NotDecoding
      /\ decoding.row = decoding.height
      /\ UNCHANGED <<detector, compared, sample>>
      /\ IF decoding.allocated # Null THEN Free(gray.pixels) ELSE UNCHANGED heap
      /\ gray' = [pixels |-> decoding.target,
                  capacity |-> IF decoding.allocated # Null THEN RequiredSize
                               ELSE gray.capacity,
                  width |-> decoding.width, height |-> decoding.height,
                  stride |-> decoding.width]
  BY DEF Finish, FinishDecompress, detectorVars
<1>2. /\ decoding.target \in Blocks \cup {Null} /\ decoding.width \in Dim
      /\ decoding.height \in Dim /\ gray.capacity \in SizeT /\ RequiredSize \in SizeT
  BY PixelCountType DEF Shape, TypeOK, DecoderTypeOK, RequiredSize
<1>3. /\ decoding.target # Null
      /\ \/ /\ decoding.allocated = decoding.target
            /\ DOMAIN heap[decoding.target] = 0..RequiredSize - 1
         \/ /\ decoding.allocated = Null /\ decoding.target = gray.pixels
            /\ gray.capacity >= RequiredSize
  BY <1>1 DEF Shape, DecodingInv
<1>4. /\ Allocated = {gray.pixels, detector.previous_pixels, decoding.allocated} \ {Null}
      /\ gray.pixels # Null =>
           gray.pixels \notin {detector.previous_pixels, decoding.allocated}
      /\ detector.previous_pixels # Null => detector.previous_pixels # decoding.allocated
  BY DEF Shape, BlocksOwnedOnce, Owners
<1>5. /\ gray'.pixels = decoding.target /\ gray'.stride = decoding.width
      /\ gray'.width = decoding.width /\ gray'.height = decoding.height
      /\ gray'.capacity = IF decoding.allocated # Null THEN RequiredSize ELSE gray.capacity
  BY ONLY <1>1
<1>6. RequiredSize \in Nat
  BY <1>2, Dimensions
<1>7. CASE decoding.allocated # Null
  <2>1. /\ Allocated' = Allocated \ {gray.pixels}
        /\ \A b \in Allocated \ {gray.pixels} : heap'[b] = heap[b]
    BY <1>1, <1>7, FreeEffect
  <2>2. /\ gray'.capacity = RequiredSize /\ decoding.allocated = decoding.target
        /\ DOMAIN heap[decoding.target] = 0..RequiredSize - 1
        /\ decoding.target # gray.pixels
    BY ONLY <1>3, <1>4, <1>5, <1>7
  <2>3. Allocated' = {decoding.target, detector.previous_pixels} \ {Null}
    BY ONLY <1>3, <1>4, <2>1, <2>2
  <2>4. \A b \in Allocated' : heap'[b] = heap[b]
    BY ONLY <2>1
  <2>5. heap'[decoding.target] = heap[decoding.target]
    BY ONLY <1>3, <2>3, <2>4
  <2>6. gray'.capacity >= RequiredSize
    BY ONLY <1>6, <2>2
  <2>7. gray' \in [pixels : Blocks \cup {Null}, capacity : SizeT,
                   width : Dim, height : Dim, stride : Dim]
    BY ONLY <1>1, <1>2
  <2> QED
    BY ONLY <1>1, <1>2, <1>5, <2>2, <2>3, <2>4, <2>5, <2>6, <2>7
<1>8. CASE decoding.allocated = Null
  <2>1. Allocated' = Allocated /\ heap' = heap
    BY <1>1, <1>8 DEF Allocated
  <2>2. /\ gray'.capacity = gray.capacity /\ decoding.target = gray.pixels
        /\ gray.capacity >= RequiredSize /\ gray.pixels # Null
    BY ONLY <1>3, <1>5, <1>8
  <2>3. DOMAIN heap[decoding.target] = 0..gray.capacity - 1
    BY <2>2 DEF Shape, TypeOK, CapacitiesTrue
  <2>4. Allocated' = {decoding.target, detector.previous_pixels} \ {Null}
    BY ONLY <1>4, <1>8, <2>1, <2>2
  <2>5. gray' \in [pixels : Blocks \cup {Null}, capacity : SizeT,
                   width : Dim, height : Dim, stride : Dim]
    BY ONLY <1>1, <1>2
  <2> QED
    BY ONLY <1>1, <1>2, <1>5, <2>1, <2>2, <2>3, <2>4, <2>5
<1> QED
  BY <1>7, <1>8

LEMMA FinishShape ==
  ASSUME Shape, Finish
  PROVE  Shape'
<1>1. /\ path_pc = "scan" /\ path_pc' = "detect" /\ decoding' = NotDecoding
      /\ UNCHANGED <<detector, compared, sample>>
      /\ gray'.pixels = decoding.target /\ gray'.stride = decoding.width
      /\ gray'.width = decoding.width /\ gray'.height = decoding.height
      /\ gray'.capacity \in SizeT /\ gray'.capacity >= RequiredSize
      /\ DOMAIN heap'[decoding.target] = 0..gray'.capacity - 1
      /\ gray' \in [pixels : Blocks \cup {Null}, capacity : SizeT,
                    width : Dim, height : Dim, stride : Dim]
      /\ Allocated' = {decoding.target, detector.previous_pixels} \ {Null}
      /\ \A b \in Allocated' : heap'[b] = heap[b]
  BY FinishEffect
<1>2. decoding.target # Null /\ decoding.target # detector.previous_pixels
      /\ Accepted(decoding.width, decoding.height)
  BY <1>1, TargetIsOwned DEF Shape, DecodingInv
<1>3. NotDecoding \in [allocated : Blocks \cup {Null}, target : Blocks \cup {Null},
                       width : Dim, height : Dim, row : Dim]
      /\ NotDecoding.allocated = Null
  BY Dimensions DEF NotDecoding
<1>4. TypeOK'
  <2>1. CapacitiesTrue'
    BY <1>1, <1>2 DEF Shape, TypeOK, CapacitiesTrue
  <2> QED
    BY <1>1, <1>3, <2>1 DEF Shape, TypeOK, DecoderTypeOK, DetectorTypeOK
<1>5. BlocksOwnedOnce'
  BY <1>1, <1>2, <1>3 DEF BlocksOwnedOnce, Owners
<1>6. DecodingInv'
  BY <1>1 DEF DecodingInv
<1>7. FrameInv'
  <2>1. FrameSize' = RequiredSize
    BY <1>1 DEF FrameSize, RequiredSize
  <2> QED
    BY <1>1, <1>2, <2>1 DEF FrameInv
<1>8. BaselineInv'
  BY <1>1 DEF Shape, BaselineInv
<1> QED
  BY <1>4, <1>5, <1>6, <1>7, <1>8 DEF Shape

LEMMA DecodeErrorShape ==
  ASSUME Shape, DecodeError
  PROVE  Shape'
<1>1. /\ path_pc \in {"target", "scan"} /\ path_pc' = "idle" /\ decoding' = NotDecoding
      /\ UNCHANGED <<gray, detector, compared, sample>>
      /\ Free(decoding.allocated)
  BY DEF DecodeError, DecodeFails, detectorVars
<1>2. /\ Allocated' = Allocated \ {decoding.allocated}
      /\ \A b \in Allocated \ {decoding.allocated} : heap'[b] = heap[b]
  BY <1>1, FreeEffect
<1>3. NotDecoding \in [allocated : Blocks \cup {Null}, target : Blocks \cup {Null},
                       width : Dim, height : Dim, row : Dim]
      /\ NotDecoding.allocated = Null
  BY Dimensions DEF NotDecoding
<1>4. /\ gray.pixels # Null => gray.pixels \in Allocated'
      /\ detector.previous_pixels # Null => detector.previous_pixels \in Allocated'
  BY <1>2 DEF Shape, BlocksOwnedOnce, Owners
<1>5. TypeOK'
  <2>1. CapacitiesTrue'
    BY <1>1, <1>2, <1>4 DEF Shape, TypeOK, CapacitiesTrue
  <2> QED
    BY <1>1, <1>3, <2>1 DEF Shape, TypeOK, DecoderTypeOK, DetectorTypeOK
<1>6. BlocksOwnedOnce'
  BY <1>1, <1>2, <1>3 DEF Shape, BlocksOwnedOnce, Owners
<1>7. DecodingInv' /\ FrameInv' /\ BaselineInv'
  BY <1>1 DEF Shape, DecodingInv, FrameInv, BaselineInv
<1> QED
  BY <1>5, <1>6, <1>7 DEF Shape

\* What making room for the baseline changes: its block, which may be another but
\* holds what the old one did.
LEMMA GrowEffect ==
  ASSUME Shape, GrowBaseline
  PROVE  /\ path_pc = "detect" /\ path_pc' = "compare"
         /\ UNCHANGED <<gray, decoding, compared, sample>>
         /\ detector' \in [previous_pixels : Blocks \cup {Null}, capacity : SizeT,
                           width : SizeT, height : SizeT, baseline_ready : BOOLEAN]
         /\ detector'.width = detector.width /\ detector'.height = detector.height
         /\ detector'.baseline_ready = detector.baseline_ready
         /\ detector'.previous_pixels # Null /\ detector'.previous_pixels # gray.pixels
         /\ detector'.capacity >= FrameSize /\ detector'.capacity >= detector.capacity
         /\ DOMAIN heap'[detector'.previous_pixels] = 0..detector'.capacity - 1
         /\ Allocated' = {gray.pixels, detector'.previous_pixels}
         /\ heap'[gray.pixels] = heap[gray.pixels]
         /\ detector.previous_pixels # Null =>
              \A i \in 0..detector.capacity - 1 :
                heap'[detector'.previous_pixels][i] = heap[detector.previous_pixels][i]
<1>1. /\ path_pc = "detect" /\ path_pc' = "compare"
      /\ UNCHANGED <<gray, decoding, compared, sample>>
      /\ EnsureCapacity(FrameSize)
  BY DEF GrowBaseline, decoderVars
<1>2. /\ gray.pixels # Null /\ Accepted(gray.width, gray.height)
      /\ decoding = NotDecoding /\ decoding.allocated = Null
  BY <1>1 DEF Shape, FrameInv, DecodingInv, NotDecoding
<1>3. FrameSize \in SizeT /\ FrameSize > 0 /\ FrameSize \in Nat
  <2>1. PixelCount(gray.width, gray.height) \in SizeT
    BY <1>2, PixelCountType DEF Accepted
  <2>2. gray.width \in Nat \ {0} /\ gray.width <= FrameSize
    BY <1>2, AcceptedSize DEF FrameSize
  <2>3. FrameSize \in SizeT /\ FrameSize \in Nat
    BY <2>1, Dimensions DEF FrameSize
  <2> QED
    BY ONLY <2>2, <2>3
<1>4. /\ Allocated = {gray.pixels, detector.previous_pixels} \ {Null}
      /\ gray.pixels # detector.previous_pixels
  BY <1>2 DEF Shape, BlocksOwnedOnce, Owners
<1>5. /\ detector \in [previous_pixels : Blocks \cup {Null}, capacity : SizeT,
                       width : SizeT, height : SizeT, baseline_ready : BOOLEAN]
      /\ detector.previous_pixels = Null => detector.capacity = 0
      /\ detector.previous_pixels # Null =>
           DOMAIN heap[detector.previous_pixels] = 0..detector.capacity - 1
  BY DEF Shape, TypeOK, DetectorTypeOK, CapacitiesTrue, BaselineInv
<1>6. detector.capacity \in Nat
  BY <1>5, Dimensions
<1>7. CASE detector.capacity >= FrameSize /\ UNCHANGED <<detector, heap>>
  <2>1. detector.previous_pixels # Null
    BY ONLY <1>3, <1>5, <1>7
  <2>2. Allocated' = Allocated
    BY <1>7 DEF Allocated
  <2>3. Allocated' = {gray.pixels, detector.previous_pixels}
    BY ONLY <1>2, <1>4, <2>1, <2>2
  <2> QED
    BY ONLY <1>1, <1>4, <1>5, <1>6, <1>7, <2>1, <2>3
<1>8. CASE /\ detector.capacity < FrameSize
           /\ \E resized \in Blocks :
                /\ Realloc(detector.previous_pixels, resized, FrameSize)
                /\ detector' = [detector EXCEPT !.previous_pixels = resized,
                                                !.capacity = FrameSize]
  <2>1. PICK resized \in Blocks :
          /\ Realloc(detector.previous_pixels, resized, FrameSize)
          /\ detector' = [detector EXCEPT !.previous_pixels = resized, !.capacity = FrameSize]
    BY <1>8
  <2>2. /\ resized \in Unused \cup ({detector.previous_pixels} \ {Null})
        /\ Allocated' = (Allocated \ {detector.previous_pixels}) \cup {resized}
        /\ \A b \in Allocated \ {detector.previous_pixels, resized} : heap'[b] = heap[b]
        /\ DOMAIN heap'[resized] = 0..FrameSize - 1
        /\ detector.previous_pixels # Null =>
             \A i \in 0..FrameSize - 1 :
               i \in DOMAIN heap[detector.previous_pixels] =>
                 heap'[resized][i] = heap[detector.previous_pixels][i]
    <3> DEFINE old == detector.previous_pixels
    <3>1. Realloc(old, resized, FrameSize)
      BY <2>1
    <3> HIDE DEF old
    <3>2. /\ resized \in Unused \cup ({old} \ {Null})
          /\ Allocated' = (Allocated \ {old}) \cup {resized}
          /\ \A b \in Allocated \ {old, resized} : heap'[b] = heap[b]
          /\ DOMAIN heap'[resized] = 0..FrameSize - 1
          /\ old # Null =>
               \A i \in 0..FrameSize - 1 :
                 i \in DOMAIN heap[old] => heap'[resized][i] = heap[old][i]
      BY ONLY <3>1, ReallocEffect, Zenon
    <3> QED
      BY <3>2 DEF old
  <2>3. resized # Null /\ resized # gray.pixels
    BY <1>2, <1>4, <2>2, NullAssumption DEF Unused
  <2>4. /\ detector'.previous_pixels = resized /\ detector'.capacity = FrameSize
        /\ detector'.width = detector.width /\ detector'.height = detector.height
        /\ detector'.baseline_ready = detector.baseline_ready
        /\ detector' \in [previous_pixels : Blocks \cup {Null}, capacity : SizeT,
                          width : SizeT, height : SizeT, baseline_ready : BOOLEAN]
    BY ONLY <1>3, <1>5, <2>1
  <2>5. Allocated' = {gray.pixels, resized}
    BY ONLY <1>2, <1>4, <2>2
  <2>6. heap'[gray.pixels] = heap[gray.pixels]
    BY ONLY <1>2, <1>4, <2>2, <2>3
  <2>7. detector.previous_pixels # Null =>
          \A i \in 0..detector.capacity - 1 :
            heap'[resized][i] = heap[detector.previous_pixels][i]
    <3> SUFFICES ASSUME detector.previous_pixels # Null, NEW i \in 0..detector.capacity - 1
                 PROVE  heap'[resized][i] = heap[detector.previous_pixels][i]
      OBVIOUS
    <3>1. i \in 0..FrameSize - 1
      BY ONLY <1>3, <1>6, <1>8
    <3>2. i \in DOMAIN heap[detector.previous_pixels]
      BY ONLY <1>5, detector.previous_pixels # Null
    <3> QED
      BY ONLY <2>2, <3>1, <3>2, detector.previous_pixels # Null
  <2>8. detector'.capacity >= FrameSize /\ detector'.capacity >= detector.capacity
    BY ONLY <1>3, <1>6, <1>8, <2>4
  <2>9. /\ detector'.previous_pixels # Null /\ detector'.previous_pixels # gray.pixels
        /\ DOMAIN heap'[detector'.previous_pixels] = 0..detector'.capacity - 1
        /\ Allocated' = {gray.pixels, detector'.previous_pixels}
        /\ detector.previous_pixels # Null =>
             \A i \in 0..detector.capacity - 1 :
               heap'[detector'.previous_pixels][i] = heap[detector.previous_pixels][i]
    BY ONLY <2>2, <2>3, <2>4, <2>5, <2>7
  <2> QED
    BY ONLY <1>1, <2>4, <2>6, <2>8, <2>9
<1> QED
  BY <1>1, <1>7, <1>8 DEF EnsureCapacity

LEMMA GrowShape ==
  ASSUME Shape, GrowBaseline
  PROVE  Shape'
<1>1. /\ path_pc = "detect" /\ path_pc' = "compare"
      /\ UNCHANGED <<gray, decoding, compared, sample>>
      /\ detector' \in [previous_pixels : Blocks \cup {Null}, capacity : SizeT,
                        width : SizeT, height : SizeT, baseline_ready : BOOLEAN]
      /\ detector'.width = detector.width /\ detector'.height = detector.height
      /\ detector'.baseline_ready = detector.baseline_ready
      /\ detector'.previous_pixels # Null /\ detector'.previous_pixels # gray.pixels
      /\ detector'.capacity >= FrameSize /\ detector'.capacity >= detector.capacity
      /\ DOMAIN heap'[detector'.previous_pixels] = 0..detector'.capacity - 1
      /\ Allocated' = {gray.pixels, detector'.previous_pixels}
      /\ heap'[gray.pixels] = heap[gray.pixels]
  BY GrowEffect
<1>2. gray.pixels # Null /\ decoding = NotDecoding /\ decoding.allocated = Null
  BY <1>1 DEF Shape, FrameInv, DecodingInv, NotDecoding
<1>3. TypeOK'
  <2>1. CapacitiesTrue'
    BY <1>1 DEF Shape, TypeOK, CapacitiesTrue
  <2> QED
    BY <1>1, <2>1 DEF Shape, TypeOK, DecoderTypeOK, DetectorTypeOK
<1>4. BlocksOwnedOnce'
  BY <1>1, <1>2 DEF BlocksOwnedOnce, Owners
<1>5. DecodingInv' /\ FrameInv'
  <2>1. FrameSize' = FrameSize
    BY <1>1 DEF FrameSize
  <2> QED
    BY <1>1, <1>2, <2>1 DEF Shape, DecodingInv, FrameInv
<1>6. BaselineInv'
  <2>1. FrameSize' = FrameSize
    BY <1>1 DEF FrameSize
  <2>2. detector.baseline_ready =>
          /\ Accepted(detector.width, detector.height)
          /\ detector'.capacity >= PixelCount(detector.width, detector.height)
    <3> SUFFICES ASSUME detector.baseline_ready
                 PROVE  /\ Accepted(detector.width, detector.height)
                        /\ detector'.capacity >= PixelCount(detector.width, detector.height)
      OBVIOUS
    <3>1. /\ Accepted(detector.width, detector.height)
          /\ detector.capacity >= PixelCount(detector.width, detector.height)
      BY DEF Shape, BaselineInv
    <3>2. PixelCount(detector.width, detector.height) \in Int
      BY <3>1, PixelCountType, Dimensions DEF Accepted
    <3>3. detector.capacity \in Int /\ detector'.capacity \in Int
      BY <1>1, Dimensions DEF Shape, TypeOK, DetectorTypeOK
    <3> QED
      BY ONLY <1>1, <3>1, <3>2, <3>3
  <2> QED
    BY <1>1, <2>1, <2>2 DEF BaselineInv
<1> QED
  BY <1>3, <1>4, <1>5, <1>6 DEF Shape

\* What a comparison writes: the baseline's block, with bytes of the frame.
LEMMA CompareEffect ==
  ASSUME Shape, Compare
  PROVE  /\ path_pc = "compare" /\ path_pc' = "idle"
         /\ UNCHANGED <<gray, decoding, sample>>
         /\ detector' = [detector EXCEPT !.width = gray.width, !.height = gray.height,
                                         !.baseline_ready = TRUE]
         /\ Allocated' = Allocated
         /\ heap'[detector.previous_pixels] =
              Stored(detector.previous_pixels, 0,
                     Packed(gray.pixels, gray.width, gray.height, gray.stride))
         /\ \A b \in Allocated \ {detector.previous_pixels} : heap'[b] = heap[b]
         /\ \A b \in Allocated : DOMAIN heap'[b] = DOMAIN heap[b]
<1> DEFINE row == Stored(detector.previous_pixels, 0,
                         Packed(gray.pixels, gray.width, gray.height, gray.stride))
<1>1. /\ path_pc = "compare" /\ path_pc' = "idle"
      /\ UNCHANGED <<gray, decoding, sample>>
      /\ detector' = [detector EXCEPT !.width = gray.width, !.height = gray.height,
                                      !.baseline_ready = TRUE]
      /\ heap' = [heap EXCEPT ![detector.previous_pixels] = row]
  BY DEF Compare, CompareOrAdopt, CopyFrame, decoderVars
<1>2. DOMAIN row = DOMAIN heap[detector.previous_pixels]
  BY DEF Stored
<1> HIDE DEF row
<1>3. detector.previous_pixels \in Allocated
  BY <1>1 DEF Shape, BaselineInv, BlocksOwnedOnce, Owners
<1>4. /\ Allocated' = Allocated
      /\ heap'[detector.previous_pixels] = row
      /\ \A b \in Allocated \ {detector.previous_pixels} : heap'[b] = heap[b]
  BY <1>1, <1>3, StoreEffect
<1>5. \A b \in Allocated : DOMAIN heap'[b] = DOMAIN heap[b]
  BY <1>2, <1>4
<1> QED
  BY <1>1, <1>4, <1>5 DEF row

LEMMA CompareShape ==
  ASSUME Shape, Compare
  PROVE  Shape'
<1>1. /\ path_pc = "compare" /\ path_pc' = "idle"
      /\ UNCHANGED <<gray, decoding, sample>>
      /\ detector' = [detector EXCEPT !.width = gray.width, !.height = gray.height,
                                      !.baseline_ready = TRUE]
      /\ Allocated' = Allocated
      /\ \A b \in Allocated : DOMAIN heap'[b] = DOMAIN heap[b]
  BY CompareEffect
<1>2. /\ Accepted(gray.width, gray.height) /\ detector.previous_pixels # Null
      /\ detector.capacity >= FrameSize /\ decoding = NotDecoding
  BY <1>1 DEF Shape, FrameInv, BaselineInv, DecodingInv
<1>3. gray.width \in SizeT /\ gray.height \in SizeT
  BY <1>2, Dimensions DEF Accepted
<1>4. /\ detector'.previous_pixels = detector.previous_pixels
      /\ detector'.capacity = detector.capacity
      /\ detector'.width = gray.width /\ detector'.height = gray.height
      /\ detector' \in [previous_pixels : Blocks \cup {Null}, capacity : SizeT,
                        width : SizeT, height : SizeT, baseline_ready : BOOLEAN]
  BY <1>1, <1>3 DEF Shape, TypeOK, DetectorTypeOK
<1>5. /\ gray.pixels # Null => gray.pixels \in Allocated
      /\ detector.previous_pixels # Null => detector.previous_pixels \in Allocated
  BY DEF Shape, BlocksOwnedOnce, Owners
<1>6. TypeOK'
  <2>1. CapacitiesTrue'
    BY <1>1, <1>4, <1>5 DEF Shape, TypeOK, CapacitiesTrue
  <2> QED
    BY <1>1, <1>4, <2>1 DEF Shape, TypeOK, DecoderTypeOK, DetectorTypeOK
<1>7. BlocksOwnedOnce'
  BY <1>1, <1>4 DEF Shape, BlocksOwnedOnce, Owners
<1>8. DecodingInv' /\ FrameInv'
  BY <1>1, <1>2 DEF DecodingInv, FrameInv
<1>9. BaselineInv'
  BY <1>1, <1>2, <1>4 DEF BaselineInv, FrameSize
<1> QED
  BY <1>6, <1>7, <1>8, <1>9 DEF Shape

LEMMA ResetShape ==
  ASSUME Shape, ResetBaseline
  PROVE  Shape'
<1>1. /\ path_pc = "idle"
      /\ UNCHANGED <<heap, gray, decoding, compared, sample, path_pc>>
      /\ detector' = [detector EXCEPT !.width = 0, !.height = 0, !.baseline_ready = FALSE]
  BY DEF ResetBaseline, ResetDetector, decoderVars
<1>2. /\ detector'.previous_pixels = detector.previous_pixels
      /\ detector'.capacity = detector.capacity /\ detector'.baseline_ready = FALSE
      /\ detector' \in [previous_pixels : Blocks \cup {Null}, capacity : SizeT,
                        width : SizeT, height : SizeT, baseline_ready : BOOLEAN]
  BY <1>1, Dimensions DEF Shape, TypeOK, DetectorTypeOK
<1>3. TypeOK'
  BY <1>1, <1>2 DEF Shape, TypeOK, DecoderTypeOK, DetectorTypeOK, CapacitiesTrue
<1>4. BlocksOwnedOnce'
  BY <1>1, <1>2 DEF Shape, BlocksOwnedOnce, Owners, Allocated
<1>5. DecodingInv' /\ FrameInv' /\ BaselineInv'
  BY <1>1, <1>2 DEF Shape, DecodingInv, FrameInv, BaselineInv
<1> QED
  BY <1>3, <1>4, <1>5 DEF Shape

LEMMA DestroyShape ==
  ASSUME Shape, Destroy
  PROVE  Shape'
<1>1. /\ path_pc = "idle" /\ path_pc' = "destroyed"
      /\ UNCHANGED <<decoding, compared, sample>>
      /\ gray' = NoFrame /\ detector' = NoDetector
      /\ heap' = [b \in Allocated \ {gray.pixels, detector.previous_pixels} |-> heap[b]]
  BY DEF Destroy, Restrict
<1>2. decoding = NotDecoding /\ decoding.allocated = Null
  BY <1>1 DEF Shape, DecodingInv, NotDecoding
<1>3. Allocated' = {}
  BY <1>1, <1>2 DEF Shape, BlocksOwnedOnce, Owners, Allocated
<1>4. TypeOK'
  BY <1>1, Dimensions DEF Shape, TypeOK, DecoderTypeOK, DetectorTypeOK, CapacitiesTrue,
                          NoFrame, NoDetector
<1>5. BlocksOwnedOnce'
  BY <1>1, <1>2, <1>3 DEF BlocksOwnedOnce, Owners, NoFrame, NoDetector
<1>6. DecodingInv' /\ FrameInv' /\ BaselineInv'
  BY <1>1, <1>2 DEF DecodingInv, FrameInv, BaselineInv, NoDetector
<1> QED
  BY <1>4, <1>5, <1>6 DEF Shape

\* Steps that only move on.
LEMMA RestShape ==
  ASSUME Shape, DetectorError \/ Destroyed \/ UNCHANGED vars
  PROVE  Shape'
<1>1. /\ UNCHANGED <<heap, gray, decoding, detector, compared, sample>>
      /\ path_pc' = path_pc \/ (path_pc = "detect" /\ path_pc' = "idle")
  BY DEF DetectorError, Destroyed, vars, decoderVars, detectorVars
<1>2. TypeOK'
  BY <1>1 DEF Shape, TypeOK, DecoderTypeOK, DetectorTypeOK, CapacitiesTrue
<1>3. BlocksOwnedOnce'
  BY <1>1 DEF Shape, BlocksOwnedOnce, Owners, Allocated
<1>4. DecodingInv'
  BY <1>1 DEF Shape, DecodingInv, RequiredSize
<1>5. FrameInv' /\ BaselineInv'
  BY <1>1 DEF Shape, FrameInv, BaselineInv, FrameSize
<1> QED
  BY <1>2, <1>3, <1>4, <1>5 DEF Shape

LEMMA ShapeStep ==
  ASSUME Shape, [Next]_vars
  PROVE  Shape'
BY ProcessJpegShape, PrepareTargetShape, ScanShape, FinishShape, DecodeErrorShape, GrowShape,
   CompareShape, ResetShape, DestroyShape, RestShape DEF Next

\* Types, and the recorded capacities are the sizes of the blocks at every moment.
THEOREM TypeCorrect == Spec => []TypeOK
<1>1. Shape => TypeOK
  BY DEF Shape
<1> QED
  BY <1>1, ShapeInit, ShapeStep, PTL DEF Spec

\* Every allocated block has exactly one owner and every owner's block is
\* allocated, on every path through every error; none is left at the end.
THEOREM OneOwnerEach == Spec => []BlocksOwnedOnce
<1>1. Shape => BlocksOwnedOnce
  BY DEF Shape
<1> QED
  BY <1>1, ShapeInit, ShapeStep, PTL DEF Spec

-----------------------------------------------------------------------------
(* Rows and blocks.                                                         *)

LEMMA RowWithin ==
  ASSUME NEW width, NEW height, Accepted(width, height), NEW row \in 0..height - 1,
         NEW block \in Allocated, NEW capacity \in Nat,
         DOMAIN heap[block] = 0..capacity - 1, capacity >= PixelCount(width, height)
  PROVE  Within(block, RowOffset(row, width), width)
<1> DEFINE first == row * width
           size == PixelCount(width, height)
<1>1. first \in Nat /\ RowOffset(row, width) = first /\ first + width <= size
  BY RowInside
<1>2. width \in Nat /\ size \in Nat
  BY AcceptedSize
<1> HIDE DEF first, size
<1>3. capacity >= size
  BY DEF size
<1>4. \A i \in first..first + width - 1 : i \in 0..capacity - 1
  BY ONLY <1>1, <1>2, <1>3, capacity \in Nat
<1> QED
  BY <1>1, <1>4 DEF Within

\* No row is read or written outside its block, whatever sizes follow each other
\* and whichever allocation failed in between.
THEOREM NoRowLeavesItsBlock == Spec => []InBounds
<1>1. Shape => InBounds
  <2> SUFFICES ASSUME Shape PROVE InBounds
    OBVIOUS
  <2>1. /\ decoding \in [allocated : Blocks \cup {Null}, target : Blocks \cup {Null},
                         width : Dim, height : Dim, row : Dim]
        /\ gray.capacity \in SizeT /\ detector.capacity \in SizeT
        /\ gray.pixels # Null => DOMAIN heap[gray.pixels] = 0..gray.capacity - 1
        /\ detector.previous_pixels # Null =>
             DOMAIN heap[detector.previous_pixels] = 0..detector.capacity - 1
    BY DEF Shape, TypeOK, DecoderTypeOK, DetectorTypeOK, CapacitiesTrue
  <2>2. gray.capacity \in Nat /\ detector.capacity \in Nat
    BY <2>1, Dimensions
  <2>3. ASSUME decoding.target # Null, decoding.row < decoding.height
        PROVE  Within(decoding.target, ScanlineOffset, decoding.width)
    <3>1. path_pc = "scan"
      BY <2>3 DEF Shape, DecodingInv, NotDecoding
    <3>2. Accepted(decoding.width, decoding.height) /\ decoding.target \in Allocated
      BY <3>1, TargetIsOwned DEF Shape, DecodingInv
    <3>3. decoding.row \in 0..decoding.height - 1
      <4>1. decoding.row \in Nat /\ decoding.height \in Nat
        BY <2>1, Dimensions
      <4> QED
        BY ONLY <2>3, <4>1
    <3>4. RequiredSize \in Nat
      BY <3>2, AcceptedSize DEF RequiredSize
    <3>5. PICK capacity \in Nat :
            DOMAIN heap[decoding.target] = 0..capacity - 1 /\ capacity >= RequiredSize
      <4>1. CASE DOMAIN heap[decoding.target] = 0..RequiredSize - 1
        BY ONLY <3>4, <4>1
      <4>2. CASE decoding.target = gray.pixels /\ gray.capacity >= RequiredSize
        BY <2>1, <2>2, <2>3, <4>2
      <4> QED
        BY <3>1, <4>1, <4>2 DEF Shape, DecodingInv
    <3> QED
      BY <3>2, <3>3, <3>5, RowWithin DEF RequiredSize, ScanlineOffset
  <2>4. ASSUME path_pc = "compare"
        PROVE  RowsInBounds(gray.pixels, gray.width, gray.height, gray.stride)
    <3>1. /\ gray.pixels # Null /\ detector.previous_pixels # Null
          /\ Accepted(gray.width, gray.height) /\ gray.stride = gray.width
          /\ gray.capacity >= PixelCount(gray.width, gray.height)
          /\ detector.capacity >= PixelCount(gray.width, gray.height)
      BY <2>4 DEF Shape, FrameInv, BaselineInv, FrameSize
    <3>2. gray.pixels \in Allocated /\ detector.previous_pixels \in Allocated
      BY <3>1 DEF Shape, BlocksOwnedOnce, Owners
    <3>3. ASSUME NEW row \in 0..gray.height - 1
          PROVE  /\ Within(gray.pixels, RowOffset(row, gray.width), gray.width)
                 /\ Within(detector.previous_pixels, RowOffset(row, gray.width), gray.width)
      BY <2>1, <2>2, <3>1, <3>2, RowWithin
    <3> QED
      BY <3>1, <3>3 DEF RowsInBounds
  <2> QED
    BY <2>3, <2>4 DEF InBounds, ScanlineInBounds
<1> QED
  BY <1>1, ShapeInit, ShapeStep, PTL DEF Spec

-----------------------------------------------------------------------------
(* Pixels.                                                                  *)

\* Row and column of a byte, and its place, determine each other.
LEMMA RowAndColumn ==
  ASSUME NEW width \in Nat \ {0}, NEW row \in Nat, NEW column \in 0..width - 1
  PROVE  RowAt(row * width + column, width) = row /\ ColumnAt(row * width + column, width) = column
<1> DEFINE i == row * width + column
           q == i \div width
<1>1. row * width \in Nat /\ i \in Nat
  OBVIOUS
<1>2. q \in Nat /\ i = width * q + (i % width) /\ i % width \in 0..width - 1
  BY <1>1
<1>3. q <= row
  <2> HIDE DEF q
  <2> SUFFICES ASSUME row + 1 <= q PROVE FALSE
    BY <1>2
  <2>1. width * (row + 1) <= width * q /\ width * (row + 1) = row * width + width
    BY <1>2
  <2> QED
    BY <1>1, <1>2, <2>1
<1>4. row <= q
  <2> HIDE DEF q
  <2> SUFFICES ASSUME q + 1 <= row PROVE FALSE
    BY <1>2
  <2>1. width * (q + 1) <= width * row /\ width * (q + 1) = width * q + width
        /\ width * row = row * width
    BY <1>2
  <2> QED
    BY <1>1, <1>2, <2>1
<1>5. q = row
  <2> HIDE DEF q
  <2> QED
    BY <1>2, <1>3, <1>4
<1>6. i % width = column
  <2>1. width * q = row * width
    <3> HIDE DEF q
    <3> QED
      BY <1>5
  <2> DEFINE remainder == i % width
             start == row * width
             product == width * q
  <2>2. remainder \in Nat /\ start \in Nat /\ start + column = product + remainder
    BY <1>1, <1>2
  <2> HIDE DEF remainder, start, product
  <2>3. product = start
    BY <2>1 DEF product, start
  <2>4. remainder = column
    BY ONLY <2>2, <2>3, column \in 0..width - 1, width \in Nat \ {0}
  <2> QED
    BY <2>4 DEF remainder
<1> QED
  BY <1>5, <1>6 DEF RowAt, ColumnAt

\* A pixel of an accepted picture is a byte of it.
LEMMA PixelInside ==
  ASSUME NEW width, NEW height, Accepted(width, height),
         NEW row \in 0..height - 1, NEW column \in 0..width - 1
  PROVE  row * width + column \in 0..PixelCount(width, height) - 1
<1> DEFINE first == row * width
           size == PixelCount(width, height)
<1>1. first \in Nat /\ first + width <= size /\ size \in Nat /\ width \in Nat
  BY RowInside, AcceptedSize
<1> HIDE DEF first, size
<1>2. first + column \in 0..size - 1
  BY <1>1
<1> QED
  BY <1>2 DEF first, size

\* A row ends before the next one begins.
LEMMA EarlierRow ==
  ASSUME NEW width \in Nat \ {0}, NEW row \in Nat, NEW earlier \in Nat, earlier < row,
         NEW column \in 0..width - 1
  PROVE  earlier * width + column \in Nat /\ earlier * width + column < row * width
<1>1. (earlier + 1) * width <= row * width
  OBVIOUS
<1>2. (earlier + 1) * width = earlier * width + width
  OBVIOUS
<1>3. earlier * width \in Nat /\ row * width \in Nat
  OBVIOUS
<1> QED
  BY <1>1, <1>2, <1>3

\* What Contents says of the baseline: it is whole, and of an earlier picture.
BaselineHeld ==
  detector.baseline_ready =>
    \E n \in 1..sample :
      /\ path_pc \in {"idle", "destroyed"} \/ n < sample
      /\ Holds(detector.previous_pixels, n, detector.width, detector.height)

\* A step that leaves the detector and its block alone, and does not lose the
\* number of the picture, leaves the baseline held.
LEMMA BaselineKept ==
  ASSUME Shape, BaselineHeld, UNCHANGED detector, sample \in Nat, sample' = sample,
         detector.previous_pixels # Null =>
           heap'[detector.previous_pixels] = heap[detector.previous_pixels],
         path_pc' \in {"idle", "destroyed"} \/ path_pc \notin {"idle", "destroyed"}
  PROVE  BaselineHeld'
<1> SUFFICES ASSUME detector.baseline_ready
             PROVE  \E n \in 1..sample :
                      /\ path_pc' \in {"idle", "destroyed"} \/ n < sample
                      /\ Holds(detector.previous_pixels, n, detector.width, detector.height)'
  BY DEF BaselineHeld
<1>1. PICK n \in 1..sample :
        /\ path_pc \in {"idle", "destroyed"} \/ n < sample
        /\ Holds(detector.previous_pixels, n, detector.width, detector.height)
  BY DEF BaselineHeld
<1>2. detector.previous_pixels # Null
  BY DEF Shape, BaselineInv
<1>3. Holds(detector.previous_pixels, n, detector.width, detector.height)'
  BY <1>1, <1>2 DEF Holds
<1> QED
  BY <1>1, <1>3

LEMMA ContentsParts ==
  ASSUME Contents
  PROVE  /\ path_pc \notin {"idle", "destroyed"} => sample > 0
         /\ path_pc = "scan" => Holds(decoding.target, sample, decoding.width, decoding.row)
         /\ path_pc \in {"detect", "compare"} =>
              Holds(gray.pixels, sample, gray.width, gray.height)
         /\ BaselineHeld
BY DEF Contents, BaselineHeld

LEMMA ContentsInit ==
  ASSUME Init
  PROVE  Contents
BY DEF Init, Contents, DetectorInit, NoDetector

LEMMA SampleType ==
  ASSUME Shape
  PROVE  sample \in Nat
BY SampleAssumption DEF Shape, TypeOK

LEMMA ProcessJpegContents ==
  ASSUME Shape, Contents, ProcessJpeg
  PROVE  Contents'
<1>1. /\ UNCHANGED <<heap, gray, detector, compared>>
      /\ path_pc = "idle" /\ path_pc' \in {"idle", "target"} /\ sample' = sample + 1
  BY DEF ProcessJpeg, StartDecompress, decoderVars, detectorVars
<1>2. sample \in Nat
  BY SampleType
<1>3. ASSUME detector.baseline_ready
      PROVE  \E n \in 1..sample' :
               n < sample' /\ Holds(detector.previous_pixels, n, detector.width, detector.height)'
  <2>1. PICK n \in 1..sample :
          Holds(detector.previous_pixels, n, detector.width, detector.height)
    BY <1>3 DEF Contents
  <2>2. Holds(detector.previous_pixels, n, detector.width, detector.height)'
    BY <1>1, <2>1 DEF Holds
  <2>3. n \in 1..sample' /\ n < sample'
    BY <1>1, <1>2
  <2> QED
    BY <2>2, <2>3
<1>4. sample' > 0
  BY <1>1, <1>2
<1> QED
  BY <1>1, <1>3, <1>4 DEF Contents

LEMMA PrepareTargetContents ==
  ASSUME Shape, Contents, PrepareTarget
  PROVE  Contents'
<1>1. /\ UNCHANGED <<gray, detector, compared, sample>>
      /\ path_pc = "target" /\ path_pc' = "scan"
  BY DEF PrepareTarget, ChooseTarget, detectorVars
<1>2. decoding'.row = 0 /\ \A b \in Allocated : heap'[b] = heap[b]
  <2>1. decoding.row = 0 /\ decoding \in [allocated : Blocks \cup {Null}, target : Blocks \cup {Null},
                                         width : Dim, height : Dim, row : Dim]
    BY <1>1 DEF Shape, DecodingInv, TypeOK, DecoderTypeOK
  <2>2. CASE NeedsMemory
    <3>1. PICK block \in Blocks :
            /\ Malloc(block, RequiredSize)
            /\ decoding' = [decoding EXCEPT !.allocated = block, !.target = block]
      BY <2>2 DEF PrepareTarget, ChooseTarget
    <3>2. \A b \in Allocated : heap'[b] = heap[b]
      BY <3>1, MallocEffect
    <3> QED
      BY <2>1, <3>1, <3>2
  <2>3. CASE ~NeedsMemory
    <3>1. decoding' = [decoding EXCEPT !.target = gray.pixels] /\ heap' = heap
      BY <2>3 DEF PrepareTarget, ChooseTarget
    <3> QED
      BY <2>1, <3>1
  <2> QED
    BY <2>2, <2>3
<1>3. Holds(decoding.target, sample, decoding.width, decoding.row)'
  BY <1>2 DEF Holds
<1>4. detector.previous_pixels # Null => detector.previous_pixels \in Allocated
  BY DEF Shape, BlocksOwnedOnce, Owners
<1>5. BaselineHeld'
  BY <1>1, <1>2, <1>4, ContentsParts, SampleType, BaselineKept
<1> QED
  BY <1>1, <1>3, <1>5, ContentsParts DEF Contents, BaselineHeld

LEMMA ScanContents ==
  ASSUME Shape, Contents, Scan
  PROVE  Contents'
<1> DEFINE row == decoding.row
           width == decoding.width
           target == decoding.target
           pixels == [column \in 0..width - 1 |-> <<sample, row, column>>]
<1>1. /\ path_pc = "scan" /\ row < decoding.height
      /\ heap' = [heap EXCEPT ![target] = Stored(target, ScanlineOffset, pixels)]
      /\ decoding' = [decoding EXCEPT !.row = @ + 1]
      /\ UNCHANGED <<gray, detector, compared, sample, path_pc>>
  BY DEF Scan, ReadScanline, detectorVars
<1>2. decoding \in [allocated : Blocks \cup {Null}, target : Blocks \cup {Null},
                    width : Dim, height : Dim, row : Dim]
  BY DEF Shape, TypeOK, DecoderTypeOK
<1>3. /\ decoding'.target = target /\ decoding'.width = width /\ decoding'.row = row + 1
      /\ row \in Nat /\ width \in Nat /\ decoding.height \in Nat
  BY <1>1, <1>2, Dimensions
<1>4. Accepted(width, decoding.height) /\ row \in 0..decoding.height - 1 /\ width \in Nat \ {0}
  <2>1. Accepted(width, decoding.height)
    BY <1>1 DEF Shape, DecodingInv
  <2> QED
    BY <1>1, <1>3, <2>1, AcceptedSize
<1>5. /\ target \in Allocated /\ target # detector.previous_pixels
      /\ heap'[target] = Stored(target, ScanlineOffset, pixels)
      /\ \A b \in Allocated \ {target} : heap'[b] = heap[b]
  BY <1>1, TargetIsOwned, StoreEffect
<1>6. ScanlineOffset = row * width /\ row * width \in Nat
  BY <1>4, RowInside DEF ScanlineOffset
<1>7. \A i \in 0..RequiredSize - 1 : i \in DOMAIN heap[target]
  <2>1. RequiredSize \in Nat
    BY <1>4, AcceptedSize DEF RequiredSize
  <2>2. CASE DOMAIN heap[target] = 0..RequiredSize - 1
    BY <2>2
  <2>3. CASE target = gray.pixels /\ gray.capacity >= RequiredSize
    <3>1. DOMAIN heap[target] = 0..gray.capacity - 1 /\ gray.capacity \in Nat
      <4>1. target # Null
        BY <1>1 DEF Shape, DecodingInv
      <4> QED
        BY <2>3, <4>1, Dimensions DEF Shape, TypeOK, DecoderTypeOK, CapacitiesTrue
    <3> QED
      BY ONLY <2>1, <2>3, <3>1
  <2> QED
    BY <1>1, <2>2, <2>3 DEF Shape, DecodingInv
<1>8. Holds(target, sample, width, row)
  BY <1>1 DEF Contents
<1>9. ASSUME NEW r \in 0..row, NEW column \in 0..width - 1
      PROVE  heap'[target][r * width + column] = <<sample, r, column>>
  <2> DEFINE i == r * width + column
  <2>1. r \in 0..decoding.height - 1 /\ r \in Nat
    BY <1>3, <1>4
  <2>2. i \in 0..RequiredSize - 1
    BY <1>4, <2>1, PixelInside DEF RequiredSize
  <2>3. i \in DOMAIN heap[target] /\ i \in Nat
    <3> HIDE DEF i
    <3> QED
      BY <1>7, <2>2
  <2>4. heap'[target][i] = IF i - row * width \in 0..width - 1 THEN pixels[i - row * width]
                           ELSE heap[target][i]
    <3>1. DOMAIN pixels = 0..width - 1
      OBVIOUS
    <3> HIDE DEF i, pixels
    <3> QED
      BY <1>5, <1>6, <2>3, <3>1 DEF Stored
  <2>5. CASE r = row
    <3>1. i - row * width = column
      <4> DEFINE start == row * width
      <4>1. start \in Nat /\ i = start + column
        BY <1>6, <2>5
      <4> HIDE DEF start, i
      <4>2. i - start = column
        BY <1>3, <4>1
      <4> QED
        BY <4>2 DEF start
    <3>2. pixels[column] = <<sample, row, column>>
      OBVIOUS
    <3> HIDE DEF i, pixels
    <3>3. heap'[target][i] = <<sample, row, column>>
      BY <2>4, <3>1, <3>2
    <3> QED
      BY <2>5, <3>3 DEF i
  <2>6. CASE r # row
    <3>1. r < row
      BY <1>3, <2>6
    <3>2. i < row * width
      BY <1>3, <1>4, <2>1, <3>1, EarlierRow
    <3>3. i - row * width \notin 0..width - 1
      <4> DEFINE start == row * width
      <4>1. start \in Nat /\ i < start
        BY <1>6, <3>2
      <4> HIDE DEF start, i
      <4>2. i - start \notin 0..width - 1
        BY <1>3, <2>3, <4>1
      <4> QED
        BY <4>2 DEF start
    <3>4. heap[target][i] = <<sample, r, column>>
      <4>1. r \in 0..row - 1
        BY <1>3, <3>1
      <4> QED
        BY <1>8, <4>1 DEF Holds
    <3> HIDE DEF i, pixels
    <3>5. heap'[target][i] = <<sample, r, column>>
      BY <2>4, <3>3, <3>4
    <3> QED
      BY <3>5 DEF i
  <2> QED
    BY <2>5, <2>6
<1>10. Holds(decoding.target, sample, decoding.width, decoding.row)'
  <2>1. (row + 1) - 1 = row
    BY <1>3
  <2> QED
    BY <1>1, <1>3, <1>9, <2>1 DEF Holds
<1>11. detector.previous_pixels # Null => detector.previous_pixels \in Allocated \ {target}
  BY <1>5 DEF Shape, BlocksOwnedOnce, Owners
<1>12. BaselineHeld'
  BY <1>1, <1>5, <1>11, ContentsParts, SampleType, BaselineKept
<1> QED
  BY <1>1, <1>10, <1>12, ContentsParts DEF Contents, BaselineHeld

LEMMA FinishContents ==
  ASSUME Shape, Contents, Finish
  PROVE  Contents'
<1>1. /\ path_pc = "scan" /\ path_pc' = "detect" /\ decoding.row = decoding.height
      /\ UNCHANGED <<detector, compared, sample>>
      /\ gray'.pixels = decoding.target
      /\ gray'.width = decoding.width /\ gray'.height = decoding.height
      /\ Allocated' = {decoding.target, detector.previous_pixels} \ {Null}
      /\ \A b \in Allocated' : heap'[b] = heap[b]
  BY FinishEffect
<1>2. decoding.target # Null
  BY <1>1 DEF Shape, DecodingInv
<1>3. heap'[decoding.target] = heap[decoding.target]
  BY <1>1, <1>2
<1>4. Holds(decoding.target, sample, decoding.width, decoding.height)
  BY <1>1 DEF Contents
<1>5. Holds(gray.pixels, sample, gray.width, gray.height)'
  BY <1>1, <1>3, <1>4 DEF Holds
<1>6. detector.previous_pixels # Null =>
        heap'[detector.previous_pixels] = heap[detector.previous_pixels]
  BY <1>1
<1>7. BaselineHeld'
  BY <1>1, <1>6, ContentsParts, SampleType, BaselineKept
<1> QED
  BY <1>1, <1>5, <1>7, ContentsParts DEF Contents, BaselineHeld

LEMMA DecodeErrorContents ==
  ASSUME Shape, Contents, DecodeError
  PROVE  Contents'
<1>1. /\ path_pc' = "idle"
      /\ UNCHANGED <<gray, detector, compared, sample>>
      /\ \A b \in Allocated \ {decoding.allocated} : heap'[b] = heap[b]
  BY FreeEffect DEF DecodeError, DecodeFails, detectorVars
<1>2. detector.previous_pixels # Null =>
        heap'[detector.previous_pixels] = heap[detector.previous_pixels]
  BY <1>1 DEF Shape, BlocksOwnedOnce, Owners
<1>3. BaselineHeld'
  BY <1>1, <1>2, ContentsParts, SampleType, BaselineKept
<1> QED
  BY <1>1, <1>3 DEF Contents, BaselineHeld

\* What realloc moved is the baseline it was.
LEMMA GrowKeepsPixels ==
  ASSUME Shape, GrowBaseline, detector.baseline_ready, NEW n,
         Holds(detector.previous_pixels, n, detector.width, detector.height)
  PROVE  Holds(detector.previous_pixels, n, detector.width, detector.height)'
<1>1. /\ detector'.width = detector.width /\ detector'.height = detector.height
      /\ detector.previous_pixels # Null =>
           \A i \in 0..detector.capacity - 1 :
             heap'[detector'.previous_pixels][i] = heap[detector.previous_pixels][i]
  BY GrowEffect
<1>2. /\ detector.previous_pixels # Null /\ Accepted(detector.width, detector.height)
      /\ detector.capacity >= PixelCount(detector.width, detector.height)
  BY DEF Shape, BaselineInv
<1>3. detector.capacity \in Nat /\ PixelCount(detector.width, detector.height) \in Nat
  BY <1>2, AcceptedSize, Dimensions DEF Shape, TypeOK, DetectorTypeOK
<1>4. ASSUME NEW row \in 0..detector.height - 1, NEW column \in 0..detector.width - 1
      PROVE  heap'[detector'.previous_pixels][row * detector.width + column] = <<n, row, column>>
  <2> DEFINE i == row * detector.width + column
  <2>1. i \in 0..PixelCount(detector.width, detector.height) - 1
    BY <1>2, PixelInside
  <2>2. heap[detector.previous_pixels][i] = <<n, row, column>>
    BY DEF Holds
  <2> HIDE DEF i
  <2>3. i \in 0..detector.capacity - 1
    BY ONLY <1>2, <1>3, <2>1
  <2>4. heap'[detector'.previous_pixels][i] = <<n, row, column>>
    BY <1>1, <1>2, <2>2, <2>3
  <2> QED
    BY <2>4 DEF i
<1> QED
  BY <1>1, <1>4 DEF Holds

LEMMA GrowContents ==
  ASSUME Shape, Contents, GrowBaseline
  PROVE  Contents'
<1>1. /\ path_pc = "detect" /\ path_pc' = "compare"
      /\ UNCHANGED <<gray, decoding, compared, sample>>
      /\ detector'.width = detector.width /\ detector'.height = detector.height
      /\ detector'.baseline_ready = detector.baseline_ready
      /\ heap'[gray.pixels] = heap[gray.pixels]
      /\ detector.previous_pixels # Null =>
           \A i \in 0..detector.capacity - 1 :
             heap'[detector'.previous_pixels][i] = heap[detector.previous_pixels][i]
  BY GrowEffect
<1>2. Holds(gray.pixels, sample, gray.width, gray.height)'
  <2>1. Holds(gray.pixels, sample, gray.width, gray.height)
    BY <1>1 DEF Contents
  <2> QED
    BY <1>1, <2>1 DEF Holds
<1>3. ASSUME detector.baseline_ready
      PROVE  \E n \in 1..sample :
               n < sample /\ Holds(detector.previous_pixels, n, detector.width, detector.height)'
  <2>1. PICK n \in 1..sample :
          n < sample /\ Holds(detector.previous_pixels, n, detector.width, detector.height)
    BY <1>1, <1>3 DEF Contents
  <2> QED
    BY <1>3, <2>1, GrowKeepsPixels
<1>4. sample' > 0
  BY <1>1 DEF Contents
<1> QED
  BY <1>1, <1>2, <1>3, <1>4 DEF Contents

\* After a comparison the baseline is the frame, whole.
LEMMA BaselineAdopted ==
  ASSUME Shape, Contents, Compare
  PROVE  Holds(detector.previous_pixels, sample, gray.width, gray.height)'
<1> DEFINE width == gray.width
           size == PixelCount(gray.width, gray.height)
           packed == Packed(gray.pixels, gray.width, gray.height, gray.stride)
<1>1. /\ path_pc = "compare"
      /\ UNCHANGED <<gray, sample>>
      /\ detector' = [detector EXCEPT !.width = gray.width, !.height = gray.height,
                                      !.baseline_ready = TRUE]
      /\ heap'[detector.previous_pixels] = Stored(detector.previous_pixels, 0, packed)
  BY CompareEffect
<1>2. /\ Accepted(gray.width, gray.height) /\ gray.stride = gray.width
      /\ gray.pixels # Null /\ detector.previous_pixels # Null
      /\ gray.capacity >= size /\ detector.capacity >= size
  BY <1>1 DEF Shape, FrameInv, BaselineInv, FrameSize
<1>3. /\ DOMAIN heap[gray.pixels] = 0..gray.capacity - 1
      /\ DOMAIN heap[detector.previous_pixels] = 0..detector.capacity - 1
      /\ gray.capacity \in Nat /\ detector.capacity \in Nat
  BY <1>2, Dimensions DEF Shape, TypeOK, DecoderTypeOK, DetectorTypeOK, CapacitiesTrue
<1>4. /\ size \in Nat /\ size = width * gray.height /\ size <= SizeMax
      /\ width \in Nat \ {0} /\ gray.height \in Nat \ {0} /\ SizeMax \in Nat
  BY <1>2, AcceptedSize, Dimensions
<1>5. detector'.previous_pixels = detector.previous_pixels
  <2>1. detector \in [previous_pixels : Blocks \cup {Null}, capacity : SizeT,
                      width : SizeT, height : SizeT, baseline_ready : BOOLEAN]
    BY DEF Shape, TypeOK, DetectorTypeOK
  <2> QED
    BY ONLY <1>1, <2>1
<1>6. ASSUME NEW row \in 0..gray.height - 1, NEW column \in 0..gray.width - 1
      PROVE  heap'[detector.previous_pixels][row * gray.width + column] = <<sample, row, column>>
  <2> DEFINE i == row * width + column
  <2>1. i \in 0..size - 1
    BY <1>2, PixelInside
  <2>2. RowAt(i, width) = row /\ ColumnAt(i, width) = column
    <3>1. row \in Nat /\ column \in 0..width - 1
      BY <1>4
    <3> HIDE DEF i
    <3> QED
      BY <1>4, <3>1, RowAndColumn DEF i
  <2>3. RowOffset(row, gray.stride) = row * width
    BY <1>2, RowInside
  <2>4. heap[gray.pixels][i] = <<sample, row, column>>
    BY <1>1 DEF Contents, Holds
  <2>5. packed[i] = Load(gray.pixels, RowOffset(RowAt(i, width), gray.stride) + ColumnAt(i, width))
    <3> HIDE DEF i
    <3> QED
      BY <1>4, <2>1 DEF Packed
  <2>6. packed[i] = Load(gray.pixels, i)
    BY <2>2, <2>3, <2>5
  <2>7. DOMAIN packed = 0..size - 1
    BY <1>4 DEF Packed
  <2> HIDE DEF i, packed, size
  <2>8. i \in 0..gray.capacity - 1 /\ i \in 0..detector.capacity - 1 /\ i - 0 = i
    BY ONLY <1>2, <1>3, <1>4, <2>1
  <2>9. packed[i] = <<sample, row, column>>
    BY <1>3, <2>4, <2>6, <2>8 DEF Load
  <2>10. heap'[detector.previous_pixels][i] = <<sample, row, column>>
    BY <1>1, <1>3, <2>1, <2>7, <2>8, <2>9 DEF Stored
  <2> QED
    BY <2>10 DEF i
<1> QED
  BY <1>1, <1>5, <1>6 DEF Holds

LEMMA CompareContents ==
  ASSUME Shape, Contents, Compare
  PROVE  Contents'
<1>1. /\ path_pc = "compare" /\ path_pc' = "idle" /\ UNCHANGED <<gray, sample>>
      /\ detector' = [detector EXCEPT !.width = gray.width, !.height = gray.height,
                                      !.baseline_ready = TRUE]
  BY CompareEffect
<1>2. detector'.width = gray.width /\ detector'.height = gray.height
  BY <1>1 DEF Shape, TypeOK, DetectorTypeOK
<1>3. Holds(detector.previous_pixels, sample, detector.width, detector.height)'
  <2>1. Holds(detector.previous_pixels, sample, gray.width, gray.height)'
    BY BaselineAdopted
  <2>2. gray' = gray
    BY <1>1
  <2> QED
    BY ONLY <1>2, <2>1, <2>2 DEF Holds
<1>4. sample' \in 1..sample'
  BY <1>1, SampleType DEF Contents
<1> QED
  BY <1>1, <1>3, <1>4 DEF Contents

LEMMA OtherContents ==
  ASSUME Shape, Contents,
         ResetBaseline \/ Destroy \/ DetectorError \/ Destroyed \/ UNCHANGED vars
  PROVE  Contents'
<1>1. CASE ResetBaseline
  <2>1. /\ path_pc = "idle" /\ UNCHANGED <<path_pc, sample>>
        /\ detector' = [detector EXCEPT !.width = 0, !.height = 0, !.baseline_ready = FALSE]
    BY <1>1 DEF ResetBaseline, ResetDetector
  <2>2. ~detector'.baseline_ready
    BY <2>1 DEF Shape, TypeOK, DetectorTypeOK
  <2> QED
    BY <2>1, <2>2 DEF Contents
<1>2. CASE Destroy
  BY <1>2 DEF Destroy, NoDetector, Contents
<1>3. CASE DetectorError \/ Destroyed \/ UNCHANGED vars
  <2>1. /\ UNCHANGED <<heap, gray, decoding, detector, compared, sample>>
        /\ path_pc' = path_pc \/ (path_pc = "detect" /\ path_pc' = "idle")
    BY <1>3 DEF DetectorError, Destroyed, vars, decoderVars, detectorVars
  <2>2. BaselineHeld'
    BY <2>1, ContentsParts, SampleType, BaselineKept
  <2> QED
    BY <2>1, <2>2, ContentsParts DEF Contents, BaselineHeld, Holds
<1> QED
  BY <1>1, <1>2, <1>3

LEMMA ContentsStep ==
  ASSUME Shape, Contents, [Next]_vars
  PROVE  Contents'
BY ProcessJpegContents, PrepareTargetContents, ScanContents, FinishContents, DecodeErrorContents,
   GrowContents, CompareContents, OtherContents DEF Next

-----------------------------------------------------------------------------
(* The pixel path implements PictureDifference.                             *)

Places(width, height) == (0..height - 1) \X (0..width - 1)

\* Two pictures have the same places only when they have the same size.
LEMMA PlacesTellSizes ==
  ASSUME NEW w1 \in Nat \ {0}, NEW h1 \in Nat \ {0}, NEW w2 \in Nat \ {0}, NEW h2 \in Nat \ {0}
  PROVE  /\ Places(w1, h1) = Places(w2, h2) <=> w1 = w2 /\ h1 = h2
         /\ Places(w1, h1) # {}
<1>1. <<h1 - 1, w1 - 1>> \in Places(w1, h1) /\ <<h2 - 1, w2 - 1>> \in Places(w2, h2)
  BY DEF Places
<1>2. ASSUME Places(w1, h1) = Places(w2, h2)
      PROVE  w1 = w2 /\ h1 = h2
  <2>1. <<h1 - 1, w1 - 1>> \in Places(w2, h2) /\ <<h2 - 1, w2 - 1>> \in Places(w1, h1)
    BY <1>1, <1>2
  <2>2. /\ h1 - 1 \in 0..h2 - 1 /\ w1 - 1 \in 0..w2 - 1
        /\ h2 - 1 \in 0..h1 - 1 /\ w2 - 1 \in 0..w1 - 1
    BY <2>1 DEF Places
  <2> QED
    BY <2>2
<1> QED
  BY <1>1, <1>2

\* the byte of a place
ByteOf(at, width) == at[1] * width + at[2]

\* What Holds says, of the bytes themselves.
AreOfPicture(bytes, n, width, height) ==
  \A row \in 0..height - 1, column \in 0..width - 1 :
    bytes[row * width + column] = <<n, row, column>>

\* Bytes that hold a picture, read place by place, are the picture.
LEMMA WholePicture ==
  ASSUME NEW bytes, NEW capacity \in Nat, DOMAIN bytes = 0..capacity - 1,
         NEW width, NEW height, Accepted(width, height),
         capacity >= PixelCount(width, height), NEW n, AreOfPicture(bytes, n, width, height)
  PROVE  \A at \in Places(width, height) :
           /\ ByteOf(at, width) \in DOMAIN bytes
           /\ bytes[ByteOf(at, width)] = <<n, at[1], at[2]>>
<1> SUFFICES ASSUME NEW at \in Places(width, height)
             PROVE  /\ ByteOf(at, width) \in DOMAIN bytes
                    /\ bytes[ByteOf(at, width)] = <<n, at[1], at[2]>>
  OBVIOUS
<1> DEFINE i == ByteOf(at, width)
<1>1. at[1] \in 0..height - 1 /\ at[2] \in 0..width - 1
  BY DEF Places
<1>2. i \in 0..PixelCount(width, height) - 1 /\ PixelCount(width, height) \in Nat
  BY <1>1, PixelInside, AcceptedSize DEF ByteOf
<1>3. bytes[i] = <<n, at[1], at[2]>>
  BY <1>1 DEF AreOfPicture, ByteOf
<1> HIDE DEF i
<1>4. i \in DOMAIN bytes
  BY <1>2
<1> QED
  BY <1>3, <1>4 DEF i

\* A baseline that is held is a picture accepted earlier, whole.
LEMMA BaselineIsPicture ==
  ASSUME Shape, detector.baseline_ready, NEW n,
         Holds(detector.previous_pixels, n, detector.width, detector.height)
  PROVE  BaselinePixels = Difference!Picture(n, detector.width, detector.height)
<1>1. /\ detector.previous_pixels # Null /\ Accepted(detector.width, detector.height)
      /\ detector.capacity >= PixelCount(detector.width, detector.height)
      /\ DOMAIN heap[detector.previous_pixels] = 0..detector.capacity - 1
      /\ detector.capacity \in Nat
  BY Dimensions DEF Shape, BaselineInv, TypeOK, DetectorTypeOK, CapacitiesTrue
<1>2. AreOfPicture(heap[detector.previous_pixels], n, detector.width, detector.height)
  BY DEF Holds, AreOfPicture
<1>3. \A at \in Places(detector.width, detector.height) :
        Load(detector.previous_pixels, at[1] * detector.width + at[2]) = <<n, at[1], at[2]>>
  <2> DEFINE bytes == heap[detector.previous_pixels]
             width == detector.width
             height == detector.height
             capacity == detector.capacity
  <2>1. /\ Accepted(width, height) /\ capacity >= PixelCount(width, height)
        /\ DOMAIN bytes = 0..capacity - 1 /\ capacity \in Nat
        /\ AreOfPicture(bytes, n, width, height)
    BY <1>1, <1>2
  <2> HIDE DEF bytes, width, height, capacity
  <2>2. \A at \in Places(width, height) :
          /\ ByteOf(at, width) \in DOMAIN bytes
          /\ bytes[ByteOf(at, width)] = <<n, at[1], at[2]>>
    BY ONLY <2>1, WholePicture
  <2> QED
    BY <2>2 DEF Load, ByteOf, bytes, width, height
<1> QED
  BY <1>3 DEF BaselinePixels, Places, Difference!Picture

\* The same in the next state.
LEMMA BaselineIsPictureNext ==
  ASSUME Shape', detector'.baseline_ready, NEW n,
         Holds(detector.previous_pixels, n, detector.width, detector.height)'
  PROVE  BaselinePixels' = Difference!Picture(n, detector'.width, detector'.height)
<1>1. /\ detector'.previous_pixels # Null /\ Accepted(detector'.width, detector'.height)
      /\ detector'.capacity >= PixelCount(detector'.width, detector'.height)
      /\ DOMAIN heap'[detector'.previous_pixels] = 0..detector'.capacity - 1
      /\ detector'.capacity \in Nat
  BY Dimensions DEF Shape, BaselineInv, TypeOK, DetectorTypeOK, CapacitiesTrue
<1>2. AreOfPicture(heap'[detector'.previous_pixels], n, detector'.width, detector'.height)
  BY DEF Holds, AreOfPicture
<1>3. \A at \in Places(detector'.width, detector'.height) :
        /\ at[1] * detector'.width + at[2] \in DOMAIN heap'[detector'.previous_pixels]
        /\ heap'[detector'.previous_pixels][at[1] * detector'.width + at[2]] = <<n, at[1], at[2]>>
  <2> DEFINE bytes == heap'[detector'.previous_pixels]
             width == detector'.width
             height == detector'.height
             capacity == detector'.capacity
  <2>1. /\ Accepted(width, height) /\ capacity >= PixelCount(width, height)
        /\ DOMAIN bytes = 0..capacity - 1 /\ capacity \in Nat
        /\ AreOfPicture(bytes, n, width, height)
    BY <1>1, <1>2
  <2> HIDE DEF bytes, width, height, capacity
  <2>2. \A at \in Places(width, height) :
          /\ ByteOf(at, width) \in DOMAIN bytes
          /\ bytes[ByteOf(at, width)] = <<n, at[1], at[2]>>
    BY ONLY <2>1, WholePicture
  <2> QED
    BY <2>2 DEF ByteOf, bytes, width, height
<1>4. \A at \in Places(detector'.width, detector'.height) :
        Load(detector.previous_pixels, at[1] * detector.width + at[2])' = <<n, at[1], at[2]>>
  BY <1>3 DEF Load
<1> QED
  BY <1>4 DEF BaselinePixels, Places, Difference!Picture

\* Pixels of the frame, while it is compared, are those of the picture processed.
LEMMA FrameIsPicture ==
  ASSUME Shape, Contents, path_pc = "compare"
  PROVE  /\ Accepted(gray.width, gray.height) /\ gray.stride = gray.width
         /\ \A row \in 0..gray.height - 1, column \in 0..gray.width - 1 :
              Load(gray.pixels, RowOffset(row, gray.stride) + column) = <<sample, row, column>>
<1>1. /\ gray.pixels # Null /\ Accepted(gray.width, gray.height) /\ gray.stride = gray.width
      /\ gray.capacity >= PixelCount(gray.width, gray.height)
      /\ DOMAIN heap[gray.pixels] = 0..gray.capacity - 1
      /\ gray.capacity \in Nat
  BY Dimensions DEF Shape, FrameInv, FrameSize, TypeOK, DecoderTypeOK, CapacitiesTrue
<1>2. ASSUME NEW row \in 0..gray.height - 1, NEW column \in 0..gray.width - 1
      PROVE  Load(gray.pixels, RowOffset(row, gray.stride) + column) = <<sample, row, column>>
  <2> DEFINE i == row * gray.width + column
  <2>1. RowOffset(row, gray.stride) = row * gray.width
    BY <1>1, RowInside
  <2>2. i \in 0..PixelCount(gray.width, gray.height) - 1 /\ PixelCount(gray.width, gray.height) \in Nat
    BY <1>1, PixelInside, AcceptedSize
  <2>3. heap[gray.pixels][i] = <<sample, row, column>>
    BY DEF Contents, Holds
  <2>4. Load(gray.pixels, i) = <<sample, row, column>>
    <3> HIDE DEF i
    <3>1. i \in DOMAIN heap[gray.pixels]
      BY ONLY <1>1, <2>2
    <3> QED
      BY <2>3, <3>1 DEF Load
  <2> QED
    BY <2>1, <2>4
<1> QED
  BY <1>1, <1>2

\* What a comparison looks at.
LEMMA ComparedPairs ==
  ASSUME Shape, Contents, Compare, NEW n, detector.baseline_ready,
         detector.width = gray.width, detector.height = gray.height,
         Holds(detector.previous_pixels, n, detector.width, detector.height)
  PROVE  compared' = {<<<<n, at[1], at[2]>>, <<sample, at[1], at[2]>>>> :
                        at \in Places(gray.width, gray.height)}
<1>1. path_pc = "compare"
  BY DEF Compare
<1>2. compared' = {<<Load(detector.previous_pixels, RowOffset(row, gray.width) + column),
                     Load(gray.pixels, RowOffset(row, gray.stride) + column)>> :
                     row \in 0..gray.height - 1, column \in 0..gray.width - 1}
  BY DEF Compare, CompareOrAdopt, SameSize
<1>3. ASSUME NEW row \in 0..gray.height - 1, NEW column \in 0..gray.width - 1
      PROVE  /\ Load(detector.previous_pixels, RowOffset(row, gray.width) + column) = <<n, row, column>>
             /\ Load(gray.pixels, RowOffset(row, gray.stride) + column) = <<sample, row, column>>
  <2>1. BaselinePixels = Difference!Picture(n, gray.width, gray.height)
    BY BaselineIsPicture
  <2>2. Accepted(gray.width, gray.height)
    BY <1>1, FrameIsPicture
  <2>3. RowOffset(row, gray.width) = row * gray.width
    BY <2>2, RowInside
  <2> DEFINE at == <<row, column>>
  <2>4. at \in (0..gray.height - 1) \X (0..gray.width - 1) /\ at[1] = row /\ at[2] = column
    OBVIOUS
  <2>5. BaselinePixels[at] = Load(detector.previous_pixels, row * gray.width + column)
    BY <2>4 DEF BaselinePixels
  <2>6. Difference!Picture(n, gray.width, gray.height)[at] = <<n, row, column>>
    BY <2>4 DEF Difference!Picture
  <2> QED
    BY <1>1, <2>1, <2>3, <2>5, <2>6, FrameIsPicture
<1>4. compared' = {<<<<n, row, column>>, <<sample, row, column>>>> :
                     row \in 0..gray.height - 1, column \in 0..gray.width - 1}
  BY <1>2, <1>3
<1> QED
  <2> DEFINE Pair(row, column) == <<<<n, row, column>>, <<sample, row, column>>>>
             height == gray.height
             width == gray.width
  <2> HIDE DEF Pair, height, width
  <2>1. {Pair(row, column) : row \in 0..height - 1, column \in 0..width - 1}
          = {Pair(at[1], at[2]) : at \in (0..height - 1) \X (0..width - 1)}
    <3>1. ASSUME NEW row \in 0..height - 1, NEW column \in 0..width - 1
          PROVE  \E at \in (0..height - 1) \X (0..width - 1) : Pair(row, column) = Pair(at[1], at[2])
      <4>1. <<row, column>> \in (0..height - 1) \X (0..width - 1)
            /\ <<row, column>>[1] = row /\ <<row, column>>[2] = column
        OBVIOUS
      <4> QED
        BY <4>1
    <3>2. \A at \in (0..height - 1) \X (0..width - 1) :
            at[1] \in 0..height - 1 /\ at[2] \in 0..width - 1
      OBVIOUS
    <3> QED
      BY <3>1, <3>2
  <2> QED
    BY <1>4, <2>1 DEF Places, Pair, height, width

\* Comparing two pictures, or adopting the first or one of another size.
LEMMA CompareAccepts ==
  ASSUME Shape, Contents, Compare
  PROVE  Difference!AcceptOne
<1> DEFINE width == gray.width
           height == gray.height
           picture == Difference!Picture(sample, width, height)
<1>1. /\ path_pc = "compare" /\ UNCHANGED <<gray, sample>>
      /\ detector' = [detector EXCEPT !.width = gray.width, !.height = gray.height,
                                      !.baseline_ready = TRUE]
  BY CompareEffect
<1>2. /\ Accepted(width, height) /\ width \in 1..MaxDim /\ height \in 1..MaxDim
      /\ width \in Nat \ {0} /\ height \in Nat \ {0}
  <2>1. Accepted(width, height)
    BY <1>1, FrameIsPicture
  <2>2. width \in Dim \ {0} /\ height \in Dim \ {0} /\ MaxDim \in Nat
    BY <2>1, MaxDimAssumption DEF Accepted
  <2> QED
    BY <2>1, <2>2 DEF Dim
<1>3. sample \in 1..MaxSample
  <2>1. sample > 0 /\ sample \in 0..MaxSample
    BY <1>1 DEF Contents, Shape, TypeOK
  <2> QED
    BY ONLY <2>1, SampleAssumption
<1>4. BaselinePixels' = picture
  <2>1. /\ detector'.width = width /\ detector'.height = height /\ detector'.baseline_ready
    BY <1>1 DEF Shape, TypeOK, DetectorTypeOK
  <2>2. Holds(detector.previous_pixels, sample, detector.width, detector.height)'
    <3>1. Holds(detector.previous_pixels, sample, gray.width, gray.height)'
      BY BaselineAdopted
    <3>2. gray' = gray
      BY <1>1
    <3> QED
      BY ONLY <2>1, <3>1, <3>2 DEF Holds
  <2>3. BaselinePixels' = Difference!Picture(sample, detector'.width, detector'.height)
    <3>1. Shape'
      BY CompareShape
    <3>2. PICK n : n = sample
      OBVIOUS
    <3>3. Holds(detector.previous_pixels, n, detector.width, detector.height)'
      <4>1. n = sample /\ n = sample'
        BY <1>1, <3>2
      <4> QED
        BY ONLY <2>2, <4>1 DEF Holds
    <3>4. BaselinePixels' = Difference!Picture(n, detector'.width, detector'.height)
      BY <2>1, <3>1, <3>3, BaselineIsPictureNext
    <3> QED
      BY <3>2, <3>4
  <2> QED
    BY <2>1, <2>3
<1>5. DOMAIN picture = Places(width, height) /\ Places(width, height) # {}
      /\ \A at \in Places(width, height) : picture[at] = <<sample, at[1], at[2]>>
  BY <1>2, PlacesTellSizes DEF Difference!Picture, Places
<1> HIDE DEF picture
<1>6. CASE ~detector.baseline_ready
  <2>1. BaselinePixels = [at \in {} |-> at] /\ DOMAIN BaselinePixels = {}
    BY <1>6 DEF BaselinePixels
  <2>2. compared' = {}
    BY <1>6 DEF Compare, CompareOrAdopt, SameSize
  <2>3. Difference!Newer(sample) /\ Difference!Accept(picture)
    BY <1>4, <1>5, <2>1, <2>2 DEF Difference!Newer, Difference!Accept
  <2> QED
    BY <1>2, <1>3, <2>3 DEF Difference!AcceptOne, picture
<1>7. CASE detector.baseline_ready
  <2>1. PICK n \in 1..sample :
          n < sample /\ Holds(detector.previous_pixels, n, detector.width, detector.height)
    BY <1>1, <1>7 DEF Contents
  <2>2. BaselinePixels = Difference!Picture(n, detector.width, detector.height)
    BY <1>7, <2>1, BaselineIsPicture
  <2>3. DOMAIN BaselinePixels = Places(detector.width, detector.height)
        /\ \A at \in Places(detector.width, detector.height) :
             BaselinePixels[at] = <<n, at[1], at[2]>>
    BY <2>2 DEF Difference!Picture, Places
  <2>4. Difference!Newer(sample)
    BY <2>1, <2>3 DEF Difference!Newer
  <2>5. detector.width \in Nat \ {0} /\ detector.height \in Nat \ {0}
    BY <1>7, AcceptedSize DEF Shape, BaselineInv
  <2>6. DOMAIN BaselinePixels = DOMAIN picture <=>
          detector.width = width /\ detector.height = height
    BY <1>2, <1>5, <2>3, <2>5, PlacesTellSizes
  <2>7. Difference!Accept(picture)
    <3>1. CASE detector.width = width /\ detector.height = height
      <4>1. compared' = {<<<<n, at[1], at[2]>>, <<sample, at[1], at[2]>>>> :
                           at \in Places(width, height)}
        BY <1>7, <2>1, <3>1, ComparedPairs
      <4>2. compared' = {<<BaselinePixels[at], picture[at]>> : at \in DOMAIN picture}
        BY <1>5, <2>3, <3>1, <4>1
      <4> QED
        BY <1>4, <2>6, <3>1, <4>2 DEF Difference!Accept
    <3>2. CASE ~(detector.width = width /\ detector.height = height)
      <4>1. compared' = {}
        BY <3>2 DEF Compare, CompareOrAdopt, SameSize
      <4> QED
        BY <1>4, <2>6, <3>2, <4>1 DEF Difference!Accept
    <3> QED
      BY <3>1, <3>2
  <2> QED
    BY <1>2, <1>3, <2>4, <2>7 DEF Difference!AcceptOne, picture
<1> QED
  BY <1>6, <1>7

\* A step that leaves the detector and its block alone changes no pixel of the
\* baseline.
LEMMA BaselineUntouched ==
  ASSUME Shape, UNCHANGED detector,
         detector.previous_pixels # Null =>
           heap'[detector.previous_pixels] = heap[detector.previous_pixels]
  PROVE  BaselinePixels' = BaselinePixels
<1>1. detector.baseline_ready =>
        heap'[detector.previous_pixels] = heap[detector.previous_pixels]
  BY DEF Shape, BaselineInv
<1> QED
  BY <1>1 DEF BaselinePixels, Load

LEMMA GrowKeepsBaseline ==
  ASSUME Shape, Contents, GrowBaseline
  PROVE  BaselinePixels' = BaselinePixels
<1>1. /\ detector'.width = detector.width /\ detector'.height = detector.height
      /\ detector'.baseline_ready = detector.baseline_ready
  BY GrowEffect
<1>2. CASE ~detector.baseline_ready
  BY <1>1, <1>2 DEF BaselinePixels
<1>3. CASE detector.baseline_ready
  <2>1. PICK n \in 1..sample :
          Holds(detector.previous_pixels, n, detector.width, detector.height)
    BY <1>3 DEF Contents
  <2>2. BaselinePixels = Difference!Picture(n, detector.width, detector.height)
    BY <1>3, <2>1, BaselineIsPicture
  <2>3. Holds(detector.previous_pixels, n, detector.width, detector.height)'
    BY <1>3, <2>1, GrowKeepsPixels
  <2>4. BaselinePixels' = Difference!Picture(n, detector'.width, detector'.height)
    BY <1>1, <1>3, <2>3, GrowShape, BaselineIsPictureNext
  <2> QED
    BY <1>1, <2>2, <2>4
<1> QED
  BY <1>2, <1>3

LEMMA Implements ==
  ASSUME Shape, Contents, [Next]_vars
  PROVE  [Difference!Next]_<<BaselinePixels, compared>>
<1>1. CASE Compare
  BY <1>1, CompareAccepts DEF Difference!Next
<1>2. CASE ResetBaseline \/ Destroy
  <2>1. UNCHANGED compared
    BY <1>2 DEF ResetBaseline, ResetDetector, Destroy
  <2>2. ~detector'.baseline_ready
    <3>1. CASE ResetBaseline
      BY <3>1 DEF ResetBaseline, ResetDetector, Shape, TypeOK, DetectorTypeOK
    <3>2. CASE Destroy
      BY <3>2 DEF Destroy, NoDetector
    <3> QED
      BY <1>2, <3>1, <3>2
  <2>3. BaselinePixels' = [at \in {} |-> at]
    BY <2>2 DEF BaselinePixels
  <2> QED
    BY <2>1, <2>3 DEF Difference!Next, Difference!Forget, Difference!NoPicture
<1>3. CASE GrowBaseline
  <2>1. UNCHANGED compared
    BY <1>3, GrowEffect
  <2> QED
    BY <1>3, <2>1, GrowKeepsBaseline
<1>4. ASSUME ProcessJpeg \/ DetectorError \/ Destroyed \/ UNCHANGED vars
      PROVE  UNCHANGED <<BaselinePixels, compared>>
  <2>1. UNCHANGED <<heap, detector, compared>>
    BY <1>4 DEF ProcessJpeg, StartDecompress, DetectorError, Destroyed, vars, decoderVars, detectorVars
  <2> QED
    BY <2>1, BaselineUntouched
<1>5. ASSUME PrepareTarget \/ DecodeError
      PROVE  UNCHANGED <<BaselinePixels, compared>>
  <2>1. UNCHANGED <<detector, compared>>
    BY <1>5 DEF PrepareTarget, DecodeError, detectorVars
  <2>2. detector.previous_pixels # Null =>
          detector.previous_pixels \in Allocated \ {decoding.allocated}
    BY DEF Shape, BlocksOwnedOnce, Owners
  <2>3. CASE PrepareTarget
    <3>1. \A b \in Allocated : heap'[b] = heap[b]
      BY <2>3, MallocEffect DEF PrepareTarget, ChooseTarget
    <3> QED
      BY <2>1, <2>2, <3>1, BaselineUntouched
  <2>4. CASE DecodeError
    <3>1. \A b \in Allocated \ {decoding.allocated} : heap'[b] = heap[b]
      BY <2>4, FreeEffect DEF DecodeError, DecodeFails
    <3> QED
      BY <2>1, <2>2, <3>1, BaselineUntouched
  <2> QED
    BY <1>5, <2>3, <2>4
<1>6. ASSUME Scan
      PROVE  UNCHANGED <<BaselinePixels, compared>>
  <2>1. UNCHANGED <<detector, compared>>
    BY <1>6 DEF Scan, detectorVars
  <2>2. decoding.target \in Allocated /\ decoding.target # detector.previous_pixels
    BY <1>6, TargetIsOwned DEF Scan
  <2>3. \A b \in Allocated \ {decoding.target} : heap'[b] = heap[b]
    BY <1>6, <2>2, StoreEffect DEF Scan, ReadScanline
  <2>4. detector.previous_pixels # Null =>
          detector.previous_pixels \in Allocated \ {decoding.target}
    BY <2>2 DEF Shape, BlocksOwnedOnce, Owners
  <2> QED
    BY <2>1, <2>3, <2>4, BaselineUntouched
<1>7. ASSUME Finish
      PROVE  UNCHANGED <<BaselinePixels, compared>>
  <2>1. /\ UNCHANGED <<detector, compared>>
        /\ Allocated' = {decoding.target, detector.previous_pixels} \ {Null}
        /\ \A b \in Allocated' : heap'[b] = heap[b]
    BY <1>7, FinishEffect
  <2> QED
    BY <2>1, BaselineUntouched
<1> QED
  BY <1>1, <1>2, <1>3, <1>4, <1>5, <1>6, <1>7 DEF Next

\* The whole of the last accepted picture is compared with the whole of this one,
\* and no other: what buffers, allocations and failures do in between shows in no
\* pixel.
THEOREM ComparesPictures == Spec => ComparesWholePictures
<1>1. Init => Difference!Init
  BY DEF Init, DetectorInit, NoDetector, BaselinePixels, Difference!Init, Difference!NoPicture
<1>2. Shape /\ Contents /\ [Next]_vars => Shape' /\ Contents'
  BY ShapeStep, ContentsStep
<1>3. Shape /\ Contents /\ [Next]_vars => [Difference!Next]_<<BaselinePixels, compared>>
  BY Implements
<1> QED
  BY <1>1, <1>2, <1>3, ShapeInit, ContentsInit, PTL
     DEF Spec, ComparesWholePictures, Difference!Spec

=============================================================================
