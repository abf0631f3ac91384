--------------------------- MODULE PictureDifference ---------------------------
(***************************************************************************)
(* What motion detection promises, without a byte of memory: a picture is  *)
(* compared pixel by pixel with the picture accepted before it, whole with *)
(* whole, if both have the same size, and takes its place.  A picture that *)
(* cannot be decoded or compared leaves no trace.                          *)
(***************************************************************************)
EXTENDS Integers

CONSTANTS Samples,     \* the pictures there may be, numbered in their order
          MaxDim       \* the largest width or height of a decoded picture

VARIABLES baseline,    \* the pixels of the last picture accepted, a function
                       \* of <<row, column>>; empty when there is none
          compared     \* the pairs of pixels the last comparison looked at

\* what every pixel of picture n is: its own place in that picture
Picture(n, width, height) ==
  [at \in (0..height - 1) \X (0..width - 1) |-> <<n, at[1], at[2]>>]

NoPicture == [at \in {} |-> at]

Accept(picture) ==
  /\ baseline' = picture
  /\ compared' = IF DOMAIN baseline = DOMAIN picture
                   THEN {<<baseline[at], picture[at]>> : at \in DOMAIN picture}
                   ELSE {}

Newer(n) == \A at \in DOMAIN baseline : baseline[at][1] < n

AcceptOne ==
  \E n \in Samples, width, height \in 1..MaxDim :
    Newer(n) /\ Accept(Picture(n, width, height))

Forget == baseline' = NoPicture /\ UNCHANGED compared

Init == baseline = NoPicture /\ compared = {}

Next == AcceptOne \/ Forget

Spec == Init /\ [][Next]_<<baseline, compared>>

=============================================================================
