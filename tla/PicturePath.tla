----------------------------- MODULE PicturePath -----------------------------
(***************************************************************************)
(* The pixels of motion_pipeline.c: a JPEG is decoded into the pipeline's  *)
(* gray frame and compared with the detector's baseline.  One thread, but  *)
(* three buffers whose sizes change from picture to picture, any of whose  *)
(* allocations may fail, and a decoder that may give up in any row.  The   *)
(* event gate and the log, which come after, are EventGate and EventLog.   *)
(***************************************************************************)
EXTENDS JpegDecoder, MotionDetector

CONSTANT MaxSample   \* bound on the JPEGs processed

ASSUME SampleAssumption == MaxSample \in Nat

VARIABLES sample,    \* how many JPEGs were handed to the pipeline
          path_pc    \* where motion_pipeline_process_jpeg is

vars == <<heap, decoderVars, detectorVars, sample, path_pc>>

\* The recorded capacities are the sizes of the blocks, at every moment.
CapacitiesTrue ==
  /\ gray.pixels # Null => DOMAIN heap[gray.pixels] = 0..gray.capacity - 1
  /\ detector.previous_pixels # Null =>
       DOMAIN heap[detector.previous_pixels] = 0..detector.capacity - 1

TypeOK ==
  /\ DecoderTypeOK
  /\ DetectorTypeOK
  /\ CapacitiesTrue
  /\ sample \in 0..MaxSample
  /\ path_pc \in {"idle", "target", "scan", "detect", "compare", "destroyed"}

Init ==
  /\ heap = [block \in {} |-> Garbage]
  /\ DecoderInit
  /\ DetectorInit
  /\ sample = 0
  /\ path_pc = "idle"

-----------------------------------------------------------------------------
\* motion_pipeline_process_jpeg enters the decoder; its header cannot be read
\* (and nothing changes), or says how large the picture is.
ProcessJpeg ==
  /\ path_pc = "idle" /\ sample < MaxSample
  /\ sample' = sample + 1
  /\ \/ \E width, height \in Dim : StartDecompress(width, height) /\ path_pc' = "target"
     \/ UNCHANGED <<heap, decoderVars, path_pc>>
  /\ UNCHANGED detectorVars

PrepareTarget ==
  /\ path_pc = "target"
  /\ ChooseTarget
  /\ path_pc' = "scan"
  /\ UNCHANGED <<detectorVars, sample>>

Scan ==
  /\ path_pc = "scan"
  /\ ReadScanline(sample)
  /\ UNCHANGED <<detectorVars, sample, path_pc>>

Finish ==
  /\ path_pc = "scan"
  /\ FinishDecompress
  /\ path_pc' = "detect"
  /\ UNCHANGED <<detectorVars, sample>>

\* MOTION_PIPELINE_DECODE_ERROR
DecodeError ==
  /\ path_pc \in {"target", "scan"}
  /\ DecodeFails
  /\ path_pc' = "idle"
  /\ UNCHANGED <<detectorVars, sample>>

FrameAccepted == LayoutStatus(gray.width, gray.height, gray.stride) = "ok"
FrameSize == PixelCount(gray.width, gray.height)

GrowBaseline ==
  /\ path_pc = "detect" /\ FrameAccepted
  /\ EnsureCapacity(FrameSize)
  /\ path_pc' = "compare"
  /\ UNCHANGED <<decoderVars, compared, sample>>

\* MOTION_PIPELINE_DETECTOR_ERROR: the layout is refused, or realloc fails
DetectorError ==
  /\ path_pc = "detect"
  /\ ~FrameAccepted \/ detector.capacity < FrameSize
  /\ path_pc' = "idle"
  /\ UNCHANGED <<heap, decoderVars, detectorVars, sample>>

Compare ==
  /\ path_pc = "compare"
  /\ CompareOrAdopt(gray.pixels, gray.width, gray.height, gray.stride)
  /\ path_pc' = "idle"
  /\ UNCHANGED <<decoderVars, sample>>

\* motion_pipeline_reset_baseline, between two samples
ResetBaseline ==
  /\ path_pc = "idle"
  /\ ResetDetector
  /\ UNCHANGED <<decoderVars, sample, path_pc>>

\* motion_pipeline_destroy: jpeg_gray_frame_release, motion_detector_destroy
Destroy ==
  /\ path_pc = "idle"
  /\ heap' = Restrict(heap, Allocated \ {gray.pixels, detector.previous_pixels})
  /\ gray' = NoFrame
  /\ detector' = NoDetector
  /\ path_pc' = "destroyed"
  /\ UNCHANGED <<decoding, compared, sample>>

Destroyed == path_pc = "destroyed" /\ UNCHANGED vars

Next ==
  \/ ProcessJpeg \/ PrepareTarget \/ Scan \/ Finish \/ DecodeError
  \/ GrowBaseline \/ DetectorError \/ Compare
  \/ ResetBaseline \/ Destroy \/ Destroyed

Spec == Init /\ [][Next]_vars

-----------------------------------------------------------------------------
\* No row is read or written outside its block, whatever sizes follow each other
\* and whichever allocation failed in between, also when the product of the two
\* dimensions does not fit size_t.
InBounds ==
  /\ ScanlineInBounds
  /\ path_pc = "compare" =>
       RowsInBounds(gray.pixels, gray.width, gray.height, gray.stride)

\* who holds a block: the gray frame, the detector, a decode that took a new one
Owners == {gray.pixels, detector.previous_pixels, decoding.allocated} \ {Null}

\* Every allocated block has exactly one owner and every owner's block is
\* allocated: no path through an error loses a block, frees one twice or leaves
\* a pointer to one that is gone; after motion_pipeline_destroy none is left.
BlocksOwnedOnce ==
  /\ Allocated = Owners
  /\ gray.pixels # Null =>
       gray.pixels \notin {detector.previous_pixels, decoding.allocated}
  /\ detector.previous_pixels # Null => detector.previous_pixels # decoding.allocated
  /\ path_pc = "destroyed" => Allocated = {}

\* The detector compares the whole of the last accepted picture with the whole of
\* this one, byte for byte, and no other: not the rows a failed decode left in
\* the gray frame, not what realloc moved, not pictures of two sizes.  The
\* pixel path implements PictureDifference.
BaselinePixels ==
  IF detector.baseline_ready
    THEN [at \in (0..detector.height - 1) \X (0..detector.width - 1) |->
            Load(detector.previous_pixels, at[1] * detector.width + at[2])]
    ELSE [at \in {} |-> at]

Difference == INSTANCE PictureDifference
                WITH Samples <- 1..MaxSample, baseline <- BaselinePixels

ComparesWholePictures == Difference!Spec

=============================================================================
