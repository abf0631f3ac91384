-------------------------------- MODULE EventLog -------------------------------
(***************************************************************************)
(* The event log, app/daemon/event_log.c: one JSON object per line,        *)
(* appended to a file that is opened and closed for every event.           *)
(*                                                                         *)
(* The file is the sequence of the pieces written to it.  A piece is what  *)
(* reached the file of one event's record: all of it, with its newline, or *)
(* only a beginning, when a write after the first one fails (write_all     *)
(* does not take back what it wrote).  A write that fails before any byte  *)
(* went out adds no piece.                                                 *)
(*                                                                         *)
(* A line of the file ends with a whole piece.  The file is opened with    *)
(* O_APPEND, and no newline is written first: what follows a beginning is  *)
(* on the same line.                                                       *)
(***************************************************************************)
EXTENDS Naturals, Sequences

Pieces == [event : Nat, whole : BOOLEAN]

Piece(event, whole) == [event |-> event, whole |-> whole]

\* The file ends within a line; the next record is going to continue it.
Torn(file) == file # <<>> /\ ~file[Len(file)].whole

\* The k-th piece is a line of the file: all of a record, and nothing else.
IsLine(file, k) == file[k].whole /\ (k > 1 => file[k - 1].whole)

\* Mutant: a write that went out in part counts as done.
AppendMotion_TornIsOk(file, event) ==
  LET line == Append(file, Piece(event, TRUE))
  IN  {[status |-> "ok",          file |-> line],
       [status |-> "ok",          file |-> Append(file, Piece(event, FALSE))]}

\* event_log_append_motion: the possible outcomes of appending an event
AppendMotion(file, event) ==
  LET line == Append(file, Piece(event, TRUE))
  IN  {[status |-> "ok",          file |-> line],
       [status |-> "open_error",  file |-> file],
       [status |-> "write_error", file |-> file],
       [status |-> "write_error", file |-> Append(file, Piece(event, FALSE))],
       [status |-> "close_error", file |-> line]}

=============================================================================
