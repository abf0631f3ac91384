----------------------------- MODULE Configuration -----------------------------
(***************************************************************************)
(* How the process begins: the arguments of main, config_load and          *)
(* validate_config (config.c), as one function from the file to the        *)
(* configuration or the exit code.                                         *)
(*                                                                         *)
(* A configuration file is read member by member.  Of a value only what    *)
(* the parsers tell apart is left: a string is its length; an integer is   *)
(* itself; any other number is a class, as only one field is not an        *)
(* integer; booleans; and what no parser reads (an object, an array, a     *)
(* token that is none).  The widths of int, unsigned int and long are      *)
(* parameters: on the board long is as wide as int, on the developer's     *)
(* machine it is wider.                                                    *)
(***************************************************************************)
EXTENDS Integers, SequencesExt

CONSTANTS INT_MAX, UINT_MAX

ASSUME WidthAssumption == INT_MAX \in Nat /\ UINT_MAX = 2 * INT_MAX + 1

IntegerFields ==
  {"width", "height", "fps_limit", "jpeg_quality", "http_port", "motion_sample_fps",
   "motion_jpeg_scale_denom", "motion_pixel_delta_threshold", "motion_cooldown_ms"}
StringFields == {"device", "event_log"}
Fields == IntegerFields \cup StringFields \cup
            {"motion_enabled", "motion_changed_ratio_threshold"}

\* SENSE_DEVICE_MAX, SENSE_EVENT_PATH_MAX, and the scratch space of skip_value
Capacity == [device |-> 64, event_log |-> 256, unknown |-> 512]

\* nan and inf are written without a sign: "infinite"; -inf is "negative"
RatioClasses == {"nan", "infinite", "negative", "zero", "inside", "one", "above"}

\* the defaults set by config_load; "auto" and "events.jsonl" by their lengths
Defaults ==
  [device |-> 4, width |-> 640, height |-> 480, fps_limit |-> 30, jpeg_quality |-> 75,
   http_port |-> 8080, event_log |-> 12, motion_enabled |-> TRUE, motion_sample_fps |-> 3,
   motion_jpeg_scale_denom |-> 4, motion_pixel_delta_threshold |-> 25,
   motion_changed_ratio_threshold |-> "inside", motion_cooldown_ms |-> 1500]

Runs == -1    \* in place of an exit code: main goes on to its threads
SENSE_EXIT_OK == 0
SENSE_EXIT_USAGE == 2
SENSE_EXIT_CONFIG == 78

-----------------------------------------------------------------------------
(* The parsers: whether they read the value, and what they read.            *)

ReadsString(value, capacity) == value.kind = "string" /\ value.is < capacity

\* strtol stops at a fraction, which no comma follows, and fails beyond long
ReadsInteger(value, long_max) ==
  value.kind = "integer" /\ value.is \in -long_max - 1..long_max

\* strtod also reads an integer, and the words nan and inf
ReadsNumber(value) == value.kind \in {"integer", "fraction"}

RatioOf(value) ==
  IF value.kind = "fraction" THEN value.is
  ELSE IF value.is < 0 THEN "negative" ELSE IF value.is = 0 THEN "zero"
  ELSE IF value.is = 1 THEN "one" ELSE "above"

\* skip_value: a number has to begin with a digit or a minus sign
Skips(value) ==
  \/ ReadsString(value, Capacity.unknown)
  \/ value.kind \in {"integer", "boolean"}
  \/ value.kind = "fraction" /\ value.is \notin {"nan", "infinite"}

\* Mutant: every integer fits.
IntegerFitsField_Any(field, number) == TRUE

\* integer_fits_field
IntegerFitsField(field, number) ==
  IF field = "http_port" THEN number \in -INT_MAX - 1..INT_MAX ELSE number \in 0..UINT_MAX

\* the casts of set_number
NumberSet(field, number) ==
  IF field = "http_port"
    THEN ((number + INT_MAX + 1) % (UINT_MAX + 1)) - (INT_MAX + 1)
    ELSE number % (UINT_MAX + 1)

Readable(member, long_max) ==
  CASE member.key \in IntegerFields ->
         ReadsInteger(member.value, long_max) /\ IntegerFitsField(member.key, member.value.is)
    [] member.key \in StringFields -> ReadsString(member.value, Capacity[member.key])
    [] member.key = "motion_enabled" -> member.value.kind = "boolean"
    [] member.key = "motion_changed_ratio_threshold" -> ReadsNumber(member.value)
    [] OTHER -> Skips(member.value)

\* what a readable member sets its field to
Stored(member) ==
  CASE member.key \in IntegerFields -> NumberSet(member.key, member.value.is)
    [] member.key = "motion_changed_ratio_threshold" -> RatioOf(member.value)
    [] OTHER -> member.value.is

-----------------------------------------------------------------------------
(* validate_config.                                                         *)

\* Mutant: any scale up to 8.
ValidIntegers_AnyScale(config) ==
  /\ config.width \in 1..4096 /\ config.height \in 1..2160
  /\ config.fps_limit \in 1..120 /\ config.jpeg_quality \in 1..100
  /\ 0 < config.http_port /\ config.http_port <= 65535
  /\ config.motion_sample_fps \in 1..30
  /\ config.motion_jpeg_scale_denom \in 1..8
  /\ config.motion_pixel_delta_threshold \in 1..255
  /\ 0 < config.motion_cooldown_ms /\ config.motion_cooldown_ms <= 3600000

ValidIntegers(config) ==
  /\ config.width \in 1..4096 /\ config.height \in 1..2160
  /\ config.fps_limit \in 1..120 /\ config.jpeg_quality \in 1..100
  /\ 0 < config.http_port /\ config.http_port <= 65535
  /\ config.motion_sample_fps \in 1..30
  /\ config.motion_jpeg_scale_denom \in {1, 2, 4, 8}
  /\ config.motion_pixel_delta_threshold \in 1..255
  /\ 0 < config.motion_cooldown_ms /\ config.motion_cooldown_ms <= 3600000

ValidateConfig(config) ==
  /\ ValidIntegers(config)
  /\ config.device # 0 /\ config.event_log # 0
  /\ config.motion_changed_ratio_threshold \notin
       {"nan", "infinite", "negative", "zero", "above"}

-----------------------------------------------------------------------------
(* main and config_load.                                                    *)

\* One turn of the loop of parse_config_json.  A value that does not suit its
\* key ends the reading.
ReadMember(so_far, member, long_max) ==
  CASE ~so_far.read -> so_far
    [] so_far.read /\ ~Readable(member, long_max) -> [so_far EXCEPT !.read = FALSE]
    [] OTHER -> IF member.key \in Fields
                THEN [so_far EXCEPT !.config[member.key] = Stored(member)] ELSE so_far

\* parse_config_json; well_formed says that the brackets, colons and commas around
\* the members are in place.
ParseConfigJson(file, long_max) ==
  LET Turn(so_far, member) == ReadMember(so_far, member, long_max)
      last == FoldLeft(Turn, [config |-> Defaults, read |-> TRUE], file.members)
  IN  [last EXCEPT !.read = @ /\ file.well_formed]

\* config_load; opened says that the file could be opened and read as a whole.
ConfigLoad(file, long_max) ==
  LET parsed == ParseConfigJson(file, long_max)
  IN  [config |-> parsed.config,
       loaded |-> file.opened /\ parsed.read /\ ValidateConfig(parsed.config)]

\* main up to the state it creates
Starts(argument, file, long_max) ==
  LET load == ConfigLoad(file, long_max)
  IN  [config |-> load.config,
       exit |-> CASE argument = "help" -> SENSE_EXIT_OK
                  [] argument = "unknown" -> SENSE_EXIT_USAGE
                  [] argument = "config" /\ ~load.loaded -> SENSE_EXIT_CONFIG
                  [] OTHER -> Runs]

-----------------------------------------------------------------------------
\* what the last word of a file on a field is, in whole numbers
Says(members, field) ==
  LET Has(member) == member.key = field
      i == SelectLastInSeq(members, Has)
  IN  CASE i = 0 -> Defaults[field]
        [] i > 0 /\ field = "motion_changed_ratio_threshold" -> RatioOf(members[i].value)
        [] OTHER -> members[i].value.is

\* config_is_valid of the pipeline, thresholds_are_valid of the detector,
\* scale_is_supported of the decoder, the cooldown of the gate, the interval of
\* the sample clock, the port of the server, and texts that fit with their NUL
UsableByTheThreads(config) ==
  /\ config.motion_jpeg_scale_denom \in {1, 2, 4, 8}
  /\ config.motion_pixel_delta_threshold \in 1..255
  /\ config.motion_changed_ratio_threshold \in {"inside", "one"}
  /\ config.motion_cooldown_ms > 0
  /\ \A field \in StringFields : config[field] \in 1..Capacity[field] - 1
  /\ config.motion_sample_fps > 0 /\ 1000000000 \div config.motion_sample_fps > 0
  /\ config.http_port > 0 /\ config.http_port <= 65535

=============================================================================
