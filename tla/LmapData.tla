------------------------------ MODULE LmapData ------------------------------
(***************************************************************************)
(* The data model of src/src/data.c as the parsers and the renderers see   *)
(* it: which leaves an object has, which texts each setter reads and what  *)
(* it stores, which additions to a list are refused.                       *)
(*                                                                         *)
(* An object is a function from its leaves to sequences: <<>> for a leaf   *)
(* that is not set, <<value>> for one that is, the elements for a list.  A *)
(* value is the text a renderer prints for it.  Texts are taken from a     *)
(* small universe that has, for every setter, a text it reads, a text it   *)
(* normalises or saturates and a text it refuses.                          *)
(***************************************************************************)
EXTENDS Integers, Sequences, SequencesExt, TLC

Texts == {"", "a", "b", "0", "7", "007", "31", "60", "-1", "2^31", "2^32", "2^64", "uuid",
          "true", "false", "enabled", "running", "active", "parallel", "pipelined",
          "*", "january", "march", "monday", "sunday", "+00:00", "Z",
          "noon", "noon+1h", "epoch",
          "<", "&lt;", "a&b"}          \* an entity reference, and a bare ampersand

(* A setter is the function from the texts it reads to what it stores.     *)
Same(T) == [t \in T |-> t]

SetString      == Same(Texts)
SetIdentifier  == Same(Texts \ {""})
SetUuid        == Same({"uuid"})
SetBoolean     == Same({"true", "false"})
SetInt32       == Same({"0", "7", "31", "60", "-1"}) @@ ("007" :> "7") @@ ("" :> "0")
SetUint32      == Same({"0", "7", "31", "60", "2^31"}) @@ ("007" :> "7") @@ ("" :> "0")
(* strtoumax() saturates, and negates a number with a sign modulo 2^64.    *)
SetUint64      == SetUint32 @@ ("2^32" :> "2^32") @@ ("2^64" :> "2^64-1") @@ ("-1" :> "2^64-1")
                            @@ ("2^64-1" :> "2^64-1")
SetTimezone    == Same({"+00:00"}) @@ ("Z" :> "+00:00")
(* Date and time are normalised to the instant; epoch is the instant 0.    *)
SetDateAndTime == Same({"noon", "epoch"}) @@ ("noon+1h" :> "11am") @@ ("11am" :> "11am")
SetInterval    == [t \in {u \in DOMAIN SetUint32 : SetUint32[u] # "0"} |-> SetUint32[t]]
SetRandomSpread == [t \in DOMAIN SetUint32 \ {"2^31"} |-> SetUint32[t]]  \* below RAND_MAX
SetSuppState   == Same({"enabled", "disabled", "active"})
SetExecMode    == Same({"sequential", "parallel", "pipelined"})
SetState       == Same({"enabled", "disabled", "running", "suppressed"})
AddMonth       == Same({"*", "january", "march"})
AddDayOfMonth  == Same({"*", "7", "31"}) @@ ("007" :> "7")
AddDayOfWeek   == Same({"*", "monday", "sunday"})
AddHour        == Same({"*", "0", "7"}) @@ ("007" :> "7") @@ ("" :> "0")
AddMinute      == Same({"*", "0", "7", "31"}) @@ ("007" :> "7") @@ ("" :> "0")
AddSecond      == AddMinute

(* The order in which the renderers go through the bits of a calendar set. *)
BitOrder == <<"january", "march", "monday", "sunday", "0", "7", "31">>

(* A leaf: how it is stored, what sets it, and what a new object has.  A   *)
(* leaf that is rendered only when it was set (a flag, a pointer) is new   *)
(* as <<>>; the others have a value from the start.                        *)
Opt(set)      == [mode |-> "value", set |-> set, kind |-> "", new |-> <<>>]
Val(set, new) == [mode |-> "value", set |-> set, kind |-> "", new |-> <<new>>]
Bits(set)     == [mode |-> "bits", set |-> set, kind |-> "", new |-> <<>>]
Tags          == [mode |-> "tags", set |-> SetString, kind |-> "", new |-> <<>>]
Values        == [mode |-> "values", set |-> SetString, kind |-> "", new |-> <<>>]
Kids(kind)    == [mode |-> "kids", set |-> SetString, kind |-> kind, new |-> <<>>]
Counter       == Val(SetUint32, "0")
Instant       == Val(SetDateAndTime, "epoch")

AgentLeaves == [agent_id |-> Opt(SetUuid), group_id |-> Opt(SetString),
  measurement_point |-> Opt(SetString), report_agent_id |-> Opt(SetBoolean),
  report_group_id |-> Opt(SetBoolean), report_measurement_point |-> Opt(SetBoolean),
  controller_timeout |-> Opt(SetUint32), last_started |-> Instant]
CapabilityLeaves == [version |-> Opt(SetString), tag |-> Tags]
RegistryLeaves == [uri |-> Opt(SetString), role |-> Tags]
OptionLeaves == [id |-> Opt(SetIdentifier), name |-> Opt(SetString), value |-> Opt(SetString)]
SuppLeaves == [name |-> Opt(SetIdentifier), start |-> Opt(SetIdentifier),
  end |-> Opt(SetIdentifier), match |-> Tags, stop_running |-> Opt(SetBoolean),
  state |-> Val(SetSuppState, "enabled")]
EventLeaves == [name |-> Opt(SetIdentifier), type |-> Opt(SetString),
  random_spread |-> Opt(SetRandomSpread), cycle_interval |-> Opt(SetUint32),
  interval |-> Opt(SetInterval), start |-> Opt(SetDateAndTime), end |-> Opt(SetDateAndTime),
  month |-> Bits(AddMonth), day_of_month |-> Bits(AddDayOfMonth),
  day_of_week |-> Bits(AddDayOfWeek), hour |-> Bits(AddHour), minute |-> Bits(AddMinute),
  second |-> Bits(AddSecond), timezone_offset |-> Opt(SetTimezone)]
TaskLeaves == [name |-> Opt(SetIdentifier), version |-> Opt(SetString),
  program |-> Opt(SetString), function |-> Kids("registry"), option |-> Kids("option"),
  tag |-> Tags]
ScheduleLeaves == [name |-> Opt(SetIdentifier), start |-> Opt(SetIdentifier),
  end |-> Opt(SetIdentifier), duration |-> Opt(SetUint64), execution_mode |-> Opt(SetExecMode),
  state |-> Val(SetState, "enabled"), storage |-> Val(SetUint64, "0"),
  invocations |-> Counter, suppressions |-> Counter, overlaps |-> Counter,
  failures |-> Counter, last_invocation |-> Instant,
  tag |-> Tags, suppression_tag |-> Tags, action |-> Kids("action")]
ActionLeaves == [name |-> Opt(SetIdentifier), task |-> Opt(SetString),
  option |-> Kids("option"), destination |-> Tags, tag |-> Tags, suppression_tag |-> Tags,
  state |-> Val(SetState, "enabled"), storage |-> Val(SetUint64, "0"),
  invocations |-> Counter, suppressions |-> Counter, overlaps |-> Counter,
  failures |-> Counter, last_invocation |-> Instant, last_completion |-> Instant,
  last_status |-> Val(SetInt32, "0"), last_message |-> Opt(SetString),
  last_failed_completion |-> Instant, last_failed_status |-> Val(SetInt32, "0"),
  last_failed_message |-> Opt(SetString)]
RowLeaves == [value |-> Values]
TableLeaves == [function |-> Kids("registry"), column |-> Values, row |-> Kids("row")]
ResultLeaves == [schedule |-> Opt(SetIdentifier), action |-> Opt(SetIdentifier),
  task |-> Opt(SetIdentifier), option |-> Kids("option"), tag |-> Tags,
  event |-> Instant, start |-> Instant, end |-> Instant,
  cycle_number |-> Opt(SetString), status |-> Opt(SetInt32), table |-> Kids("table")]

Leaves == [agent |-> AgentLeaves, capability |-> CapabilityLeaves,
  registry |-> RegistryLeaves, option |-> OptionLeaves, supp |-> SuppLeaves,
  event |-> EventLeaves, task |-> TaskLeaves, cap_task |-> TaskLeaves,
  schedule |-> ScheduleLeaves, action |-> ActionLeaves, row |-> RowLeaves,
  table |-> TableLeaves, result |-> ResultLeaves]

New(kind) == [l \in DOMAIN Leaves[kind] |-> Leaves[kind][l].new]

(* The leaf without which an object is refused by the list it is added to, *)
(* and which no two elements of the list share; rows and tables have none. *)
KeyOf == [option |-> "id", registry |-> "uri", action |-> "name", task |-> "name",
          cap_task |-> "name", schedule |-> "name", supp |-> "name", event |-> "name"]

AddKeyed(kind, list, object) ==
  LET key == KeyOf[kind]
  IN /\ object[key] # <<>>
     /\ \A i \in DOMAIN list : list[i][key] # object[key]

AddTag(list, text) == text \notin Range(list)

(* All bits of the set stand for "*" and swallow what is added later.      *)
AddBit(list, value) ==
  IF "*" \in Range(list) \cup {value} THEN <<"*">>
  ELSE SelectSeq(BitOrder, LAMBDA t : t \in Range(list) \cup {value})

(* lmap_schedule_set_end() and lmap_schedule_set_duration(): each clears   *)
(* the other leaf first, also when it then refuses its own text.           *)
ExclusiveEnd(kind, object, leaf) ==  \* mutant: a duration leaves the end in place
  IF kind = "schedule" /\ leaf = "end" THEN [object EXCEPT !.duration = <<>>] ELSE object
Exclusive(kind, object, leaf) ==
  IF kind # "schedule" THEN object
  ELSE IF leaf = "end" THEN [object EXCEPT !.duration = <<>>]
  ELSE IF leaf = "duration" THEN [object EXCEPT !.end = <<>>]
  ELSE object

(* One call of a setter: whether it succeeds, and the object after it.     *)
Put(kind, object, leaf, item) ==
  LET l   == Leaves[kind][leaf]
      was == object[leaf]
      ok  == CASE l.mode = "kids" -> l.kind \in DOMAIN KeyOf => AddKeyed(l.kind, was, item)
               [] l.mode = "tags" -> AddTag(was, item)
               [] OTHER           -> item \in DOMAIN l.set
      now == CASE l.mode = "value" -> <<l.set[item]>>
               [] l.mode = "bits"  -> AddBit(was, l.set[item])
               [] OTHER            -> Append(was, item)
      o   == Exclusive(kind, object, leaf)
  IN [ok |-> ok, object |-> IF ok THEN [o EXCEPT ![leaf] = now] ELSE o]

-----------------------------------------------------------------------------
(* What the setters keep true of an object in whatever order they are      *)
(* called and whatever they refuse.                                        *)

EndXorDuration(kind, object) ==
  kind = "schedule" => object.end = <<>> \/ object.duration = <<>>

Distinct(list) == \A i, j \in DOMAIN list : list[i] = list[j] => i = j

(* Lists of objects are searched by their key; no element is without one.  *)
Keyed(kind, list) ==
  LET key == KeyOf[kind]
  IN /\ \A i \in DOMAIN list : list[i][key] # <<>>
     /\ \A i, j \in DOMAIN list : list[i][key] = list[j][key] => i = j

WellFormed(kind, object) ==
  /\ EndXorDuration(kind, object)
  /\ \A l \in DOMAIN Leaves[kind] :
       /\ Leaves[kind][l].mode = "tags" => Distinct(object[l])
       /\ Leaves[kind][l].mode = "kids" /\ Leaves[kind][l].kind \in DOMAIN KeyOf =>
            Keyed(Leaves[kind][l].kind, object[l])
=============================================================================
