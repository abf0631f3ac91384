------------------------------ MODULE JsonEscape ------------------------------
(***************************************************************************)
(* json_escape of status_json.c, which makes the device name and the error *)
(* text fit for a JSON string.  Of a character its class is left: it needs *)
(* a backslash, it is a control character, which is dropped, or it is      *)
(* plain.                                                                  *)
(***************************************************************************)
EXTENDS Naturals, SequencesExt

CharacterClasses == {"plain", "special", "control"}

\* Mutant: the backslash and the character fit, the NUL does not.
NoRoomForTwo_NoNul(used, size) == used + 2 > size

\* used + 2U >= destination_size
NoRoomForTwo(used, size) == used + 2 >= size

\* One turn of the loop.  Once it is left (full), nothing more is read.
EscapeCharacter(so_far, value, size) ==
  LET used == Len(so_far.bytes)
  IN  IF so_far.full \/ used + 1 >= size THEN [so_far EXCEPT !.full = TRUE]
      ELSE CASE value = "special" ->
                  IF NoRoomForTwo(used, size) THEN [so_far EXCEPT !.full = TRUE]
                  ELSE [so_far EXCEPT !.bytes = @ \o <<"backslash", "special">>]
             [] value = "control" -> so_far
             [] OTHER -> [so_far EXCEPT !.bytes = Append(@, value)]

\* json_escape: the bytes written to a buffer of size bytes, the NUL included
Escaped(source, size) ==
  LET Turn(so_far, value) == EscapeCharacter(so_far, value, size)
      last == FoldLeft(Turn, [bytes |-> <<>>, full |-> FALSE], source)
  IN  IF size = 0 THEN <<>> ELSE Append(last.bytes, "nul")

-----------------------------------------------------------------------------
\* The text in JSON, whole.
InJson(source) ==
  FlattenSeq([i \in DOMAIN source |->
    CASE source[i] = "special" -> <<"backslash", "special">>
      [] source[i] = "control" -> <<>>
      [] OTHER -> <<source[i]>>])

\* The JSON of the first n characters.
PrefixInJson(source, n) == InJson(SubSeq(source, 1, n))

\* No byte is written beyond the buffer, and what is written is the JSON of a
\* prefix of the text, cut between characters and never behind a backslash, the
\* longest that fits with its NUL.
EscapesLongestPrefix(source, size) ==
  LET bytes == Escaped(source, size)
  IN  /\ Len(bytes) <= size
      /\ size > 0 =>
           \E n \in 0..Len(source) :
             /\ bytes = Append(PrefixInJson(source, n), "nul")
             /\ \A longer \in n + 1..Len(source) :
                  \/ Len(PrefixInJson(source, longer)) >= size
                  \/ PrefixInJson(source, longer) = PrefixInJson(source, n)

=============================================================================
