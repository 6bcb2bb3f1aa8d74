---------------------------- MODULE ParserTables ----------------------------
(***************************************************************************)
(* The tables that drive the parsers of src/src/json-io.c and              *)
(* src/src/xml-io.c: which field of an object may set a leaf, as what, and *)
(* in which kind of document.                                              *)
(***************************************************************************)
EXTENDS LmapData

T  == {"T"}          \* YANG_CONFIG_TRUE, PARSE_CONFIG_TRUE
F  == {"F"}          \* YANG_CONFIG_FALSE, PARSE_CONFIG_FALSE
TF == {"T", "F"}
K  == {"K"}          \* YANG_KEY

(* Entries of the parser's tables: the JSON nodes and the YANG flags.      *)
Str(flags)      == [nodes |-> {"string"}, flags |-> flags]
Num(flags)      == [nodes |-> {"int"}, flags |-> flags]
Bool(flags)     == [nodes |-> {"bool"}, flags |-> flags]
StrArray(flags) == [nodes |-> {"strings"}, flags |-> flags]
NumArray(flags) == [nodes |-> {"strings", "ints"}, flags |-> flags]
ObjArray(flags) == [nodes |-> {"objects"}, flags |-> flags]
Object(flags)   == [nodes |-> {"object"}, flags |-> flags]
Empty(flags)    == [nodes |-> {"null"}, flags |-> flags]

JsonOption == [id |-> Str(T), name |-> Str(T), value |-> Str(T)]
JsonRegistry == [uri |-> Str(T), role |-> StrArray(T)]
JsonTask == [name |-> Str(K), program |-> Str(TF), version |-> Str(F), tag |-> StrArray(T),
             option |-> ObjArray(T), function |-> ObjArray(TF)]
JsonCapability == [version |-> Str(F), tag |-> StrArray(F)]
JsonAgent == [agent_id |-> Str(T), group_id |-> Str(T), measurement_point |-> Str(T),
  report_agent_id |-> Bool(T), report_group_id |-> Bool(T),
  report_measurement_point |-> Bool(T), controller_timeout |-> Num(T), last_started |-> Str(F)]
JsonPeriodic == [interval |-> Num(T), start |-> Str(T), end |-> Str(T)]
JsonCalendar == [month |-> StrArray(T), day_of_month |-> NumArray(T),
  day_of_week |-> NumArray(T), hour |-> NumArray(T), minute |-> NumArray(T),
  second |-> NumArray(T), timezone_offset |-> Str(T), start |-> Str(T), end |-> Str(T)]
JsonOneOff == [time |-> Str(T)]
JsonEvent == [name |-> Str(K), random_spread |-> Num(T), cycle_interval |-> Num(T),
  periodic |-> Object(T), calendar |-> Object(T), one_off |-> Object(T),
  immediate |-> Empty(T), startup |-> Empty(T), controller_lost |-> Empty(T),
  controller_connected |-> Empty(T)]
(* Mutant: a configuration leaf listed as operational state.               *)
JsonSuppressionState == [name |-> Str(K), start |-> Str(T), end |-> Str(T),
  match |-> StrArray(T), stop_running |-> Bool(F), state |-> Str(F)]
JsonSuppression == [name |-> Str(K), start |-> Str(T), end |-> Str(T), match |-> StrArray(T),
  stop_running |-> Bool(T), state |-> Str(F)]
JsonAction == [name |-> Str(K), task |-> Str(T), option |-> ObjArray(T),
  destination |-> StrArray(T), tag |-> StrArray(T), suppression_tag |-> StrArray(T),
  state |-> Str(F), storage |-> Str(F), invocations |-> Num(F), suppressions |-> Num(F),
  overlaps |-> Num(F), failures |-> Num(F), last_invocation |-> Str(F),
  last_completion |-> Str(F), last_status |-> Num(F), last_message |-> Str(F),
  last_failed_completion |-> Str(F), last_failed_status |-> Num(F),
  last_failed_message |-> Str(F)]
JsonSchedule == [name |-> Str(K), start |-> Str(T), end |-> Str(T), duration |-> Str(T),
  execution_mode |-> Str(T), tag |-> StrArray(T), suppression_tag |-> StrArray(T),
  action |-> ObjArray(T), state |-> Str(F), storage |-> Str(F), invocations |-> Num(F),
  suppressions |-> Num(F), overlaps |-> Num(F), failures |-> Num(F), last_invocation |-> Str(F)]
JsonRow == [value |-> StrArray({})]
JsonTable == [function |-> ObjArray({}), column |-> StrArray({}), row |-> ObjArray({})]
JsonResult == [schedule |-> Str({}), action |-> Str({}), task |-> Str({}), event |-> Str({}),
  start |-> Str({}), end |-> Str({}), cycle_number |-> Str({}), status |-> Num({}),
  tag |-> StrArray({}), option |-> ObjArray({}), table |-> ObjArray({})]

JsonTab == [option |-> JsonOption, registry |-> JsonRegistry, task |-> JsonTask,
  cap_task |-> JsonTask, capability |-> JsonCapability, agent |-> JsonAgent,
  periodic |-> JsonPeriodic, calendar |-> JsonCalendar, one_off |-> JsonOneOff,
  event |-> JsonEvent, supp |-> JsonSuppression, action |-> JsonAction,
  schedule |-> JsonSchedule, row |-> JsonRow, table |-> JsonTable, result |-> JsonResult]

(* The filter of lookup_jsonmap(); the parsers of reports ask for none.    *)
JsonFiltered(entry, what) ==
  what # {} /\ "K" \notin entry.flags /\ entry.flags \cap what = {}

(* The time of a one-off event is its start.                               *)
LeafOf(key) == IF key = "time" THEN "start" ELSE key

(* What xx_lctrl_tasks(), xx_lcap_tasks() and parse_report_result() make   *)
(* of the flags.                                                           *)
JsonWhat(kind, what) ==
  CASE kind = "task"     -> what \ F
    [] kind = "cap_task" -> what \ T
    [] kind = "result"   -> {}
    [] OTHER             -> what

(* Capabilities and results have a parser for one kind of document only.   *)
StateOnly == {"cap_task", "capability", "result"}

-----------------------------------------------------------------------------
(* XML.  An element has no type, so there are only the flags.              *)

(* Elements that are handled before or without the filter of the table.    *)
Always == {"K"}

XmlAgent == [agent_id |-> T, group_id |-> T, measurement_point |-> T, report_agent_id |-> T,
  report_group_id |-> T, report_measurement_point |-> T, controller_timeout |-> T,
  last_started |-> F]
XmlSuppression == [name |-> T \cup K, start |-> T, end |-> T, match |-> T, stop_running |-> T,
  state |-> F]
XmlOption == [id |-> T, name |-> T, value |-> T]
XmlRegistry == [uri |-> T, role |-> T]
XmlTask == [name |-> T, program |-> T, tag |-> T, option |-> Always, function |-> Always]
XmlCapabilityTask == [name |-> F, version |-> F, program |-> F, function |-> Always]
XmlCapability == [version |-> F, tag |-> F]
XmlPeriodic == [interval |-> T, start |-> T, end |-> T]
XmlCalendar == [month |-> T, day_of_month |-> T, day_of_week |-> T, hour |-> T, minute |-> T,
  second |-> T, timezone_offset |-> T, start |-> T, end |-> T]
XmlOneOff == [time |-> Always]
XmlEvent == [name |-> T \cup K, random_spread |-> T, cycle_interval |-> T, periodic |-> T,
  calendar |-> T, one_off |-> T, immediate |-> T, startup |-> T, controller_lost |-> T,
  controller_connected |-> T]
XmlAction == [name |-> T \cup K, task |-> T, option |-> Always, destination |-> T, tag |-> T,
  suppression_tag |-> T, state |-> F, storage |-> F, invocations |-> F, suppressions |-> F,
  overlaps |-> F, failures |-> F, last_invocation |-> F, last_completion |-> F,
  last_status |-> F, last_message |-> F, last_failed_completion |-> F,
  last_failed_status |-> F, last_failed_message |-> F]
(* Mutant: a counter that a configuration may set.                         *)
XmlScheduleCounter == [name |-> T \cup K, start |-> T, end |-> T, duration |-> T,
  execution_mode |-> T, tag |-> T, suppression_tag |-> T, action |-> Always, state |-> F,
  storage |-> F, invocations |-> F, suppressions |-> F, overlaps |-> F, failures |-> T,
  last_invocation |-> F]
XmlSchedule == [name |-> T \cup K, start |-> T, end |-> T, duration |-> T,
  execution_mode |-> T, tag |-> T, suppression_tag |-> T, action |-> Always, state |-> F,
  storage |-> F, invocations |-> F, suppressions |-> F, overlaps |-> F, failures |-> F,
  last_invocation |-> F]
XmlRow == [value |-> Always]
XmlTable == [row |-> Always, column |-> Always, function |-> Always]
XmlResult == [schedule |-> Always, action |-> Always, task |-> Always, option |-> Always, tag |-> Always,
  event |-> Always, start |-> Always, end |-> Always, cycle_number |-> Always, status |-> Always,
  table |-> Always]

XmlTab == [agent |-> XmlAgent, supp |-> XmlSuppression, option |-> XmlOption,
  registry |-> XmlRegistry, task |-> XmlTask, cap_task |-> XmlCapabilityTask,
  capability |-> XmlCapability, periodic |-> XmlPeriodic, calendar |-> XmlCalendar,
  one_off |-> XmlOneOff, event |-> XmlEvent, action |-> XmlAction, schedule |-> XmlSchedule,
  row |-> XmlRow, table |-> XmlTable, result |-> XmlResult]

(* The filter of every branch of the XML parsers.                          *)
XmlFiltered(flags, what) == flags \cap (what \cup K) = {}

-----------------------------------------------------------------------------
(* Leaves that only a running daemon sets.                                 *)
Operational == {"last_started", "state", "storage", "invocations", "suppressions", "overlaps",
  "failures", "last_invocation", "last_completion", "last_status", "last_message",
  "last_failed_completion", "last_failed_status", "last_failed_message", "version"}

Pristine(kind, object) ==
  \A l \in Operational \cap DOMAIN Leaves[kind] : object[l] = Leaves[kind][l].new
=============================================================================
