----------------------------- MODULE MCFunctions -----------------------------
(***************************************************************************)
(* The pure functions of the daemon, called with every argument of small   *)
(* instances, one call after the other: the layout check, the event gate's *)
(* update, json_escape, and the start of main with every configuration at  *)
(* the values where something changes (the bounds of each field and of     *)
(* each integer type, and numbers that a cast would turn into a valid one).*)
(***************************************************************************)
EXTENDS FrameLayout, GateClock, JsonEscape, Configuration

CONSTANTS
  MaxText, MaxSize,   \* bounds on a text and a buffer, for json_escape
  LongMaxima,         \* LONG_MAX on the machines the daemon is built for
  MaxMembers          \* bound on the members of a configuration file

VARIABLE call    \* the last call, its arguments and its result

NoCall == [function |-> "none"]

Bounds ==
  [width |-> 4096, height |-> 2160, fps_limit |-> 120, jpeg_quality |-> 100,
   http_port |-> 65535, motion_sample_fps |-> 30, motion_jpeg_scale_denom |-> 8,
   motion_pixel_delta_threshold |-> 255, motion_cooldown_ms |-> 3600000]

Number(n) == [kind |-> "integer", is |-> n]
Text(length) == [kind |-> "string", is |-> length]
Fraction(class) == [kind |-> "fraction", is |-> class]
Boolean(b) == [kind |-> "boolean", is |-> b]
Nested == [kind |-> "nested", is |-> 0]

IntegerValues(field) ==
  {Number(n) : n \in {-1, 0, 1, 3, Bounds[field], Bounds[field] + 1,
                      UINT_MAX, UINT_MAX + 2, -UINT_MAX}} \cup {Fraction("inside")}

Members ==
  LET Pairs(key, values) == {[key |-> key, value |-> value] : value \in values}
  IN  (UNION {Pairs(field, IntegerValues(field)) : field \in IntegerFields})
      \cup (UNION {Pairs(field, {Text(0), Text(Capacity[field] - 1),
                                 Text(Capacity[field]), Number(1)}) : field \in StringFields})
      \cup Pairs("motion_enabled", {Boolean(TRUE), Boolean(FALSE), Number(1)})
      \cup Pairs("motion_changed_ratio_threshold",
                 {Fraction(c) : c \in RatioClasses} \cup {Number(n) : n \in {-1, 0, 1, 2}}
                 \cup {Text(1)})
      \cup Pairs("unknown", {Text(511), Text(512), Number(7), Fraction("nan"),
                             Boolean(TRUE), Nested})

\* the files that can be read are taken with members, the others without
Files ==
  [opened : {TRUE}, well_formed : {TRUE}, members : BoundedSeq(Members, MaxMembers)]
    \cup [opened : BOOLEAN, well_formed : BOOLEAN, members : {<<>>}]

-----------------------------------------------------------------------------
CallInit == call = NoCall

ValidateFrameLayout ==
  \E width, height, stride \in SizeT :
    call' = [function |-> "validate_frame_layout",
             width |-> width, height |-> height, stride |-> stride,
             status |-> LayoutStatus(width, height, stride),
             pixel_count |-> PixelCount(width, height)]

GateUpdateCall ==
  \E gate \in ClockGates, detected \in BOOLEAN, now \in Times :
    call' = [function |-> "motion_event_gate_update",
             before |-> gate, detected |-> detected, now |-> now,
             outcome |-> UpdateAt(gate, detected, now)]

Escape ==
  \E source \in BoundedSeq(CharacterClasses, MaxText), size \in 0..MaxSize :
    call' = [function |-> "json_escape", source |-> source, size |-> size,
             bytes |-> Escaped(source, size)]

Start ==
  \E argument \in {"help", "unknown", "config"}, file \in Files, long_max \in LongMaxima :
    call' = [function |-> "main", argument |-> argument, file |-> file,
             long_max |-> long_max, result |-> Starts(argument, file, long_max)]

Return == call # NoCall /\ call' = NoCall

CallNext ==
  \/ call = NoCall /\ (ValidateFrameLayout \/ GateUpdateCall \/ Escape \/ Start)
  \/ Return

Calls == CallInit /\ [][CallNext]_call

-----------------------------------------------------------------------------
\* validate_frame_layout lets a frame pass exactly when it fits the address
\* range, padding between the rows included but none after the last: neither
\* guard refuses a frame that fits, none lets a wrapped product pass.  Then the
\* pixel count is the product, and no row's offset wraps.
LayoutExact ==
  call.function = "validate_frame_layout" =>
    /\ call.status = "ok" <=> Fits(call.width, call.height, call.stride)
    /\ call.status = "ok" =>
         /\ call.pixel_count = call.width * call.height
         /\ \A row \in 0..call.height - 1 :
              RowOffset(row, call.stride) = row * call.stride

\* No clock, however it jumps, makes the gate's unsigned arithmetic differ from
\* whole numbers: it does what EventGate says, and in particular a clock that
\* reads less than the start of a cooldown does not end it.  And the remaining
\* cooldown it reports is a promise: no event comes before that much time has
\* passed, and one that is wanted then comes.
ActsLikeEventGate ==
  call.function = "motion_event_gate_update" =>
    /\ ActsLike(call.before, call.detected, call.now)
    /\ KeepsRemaining(call.before, call.detected, call.now)

\* json_escape stays inside the buffer and writes the JSON of the longest prefix
\* of the text that fits.  A buffer twice as large as the text's own, as
\* status_json_format has for the device name and the error, cuts nothing off.
LongestPrefix ==
  call.function = "json_escape" =>
    /\ EscapesLongestPrefix(call.source, call.size)
    /\ call.size >= 2 * (Len(call.source) + 1) =>
         call.bytes = Append(InJson(call.source), "nul")

LoadedConfig == call.function = "main" /\ call.result.exit = Runs

\* The daemon runs with what the file says, the last word on each field, or the
\* default: no number is narrowed to another that happens to be valid, whatever
\* the width of long, and no other key touches a field.
ConfigIsWhatTheFileSays ==
  LoadedConfig =>
    \A field \in Fields : call.result.config[field] = Says(call.file.members, field)

\* A configuration that gets past validate_config makes no thread refuse its
\* work: no INVALID_ARGUMENT in any sample, no division by zero, no truncated
\* port, no text without its NUL.
AcceptedIsUsable == LoadedConfig => UsableByTheThreads(call.result.config)

=============================================================================
