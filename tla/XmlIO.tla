------------------------------- MODULE XmlIO --------------------------------
(***************************************************************************)
(* src/src/xml-io.c: what the XML parser does with its table, and the      *)
(* order in which the renderer prints the leaves.                          *)
(*                                                                         *)
(* A document is a sequence of fields, as in JsonIO: an element of XML has *)
(* no type, and a list is one element per item, so only the keys and the   *)
(* items matter here.  The XML parser ignores what the setters return.     *)
(***************************************************************************)
EXTENDS JsonIO

RECURSIVE XmlParse(_, _, _, _, _), XmlElement(_, _, _, _, _)

(* The loop of every parse function over the elements of one object.       *)
XmlParse(table, kind, object, doc, what) ==
  FoldLeft(LAMBDA o, f : XmlElement(table, kind, o, f, what), object, doc)

(* One element: unknown and filtered ones are warned about; the type of an *)
(* event is set before its children are looked at.                         *)
XmlElement(table, kind, object, f, what) ==
  LET item(o, i) ==
        IF f.node # "objects" THEN Put(kind, o, LeafOf(f.key), i).object
        ELSE LET k == Leaves[kind][f.key].kind
             IN Put(kind, o, f.key, XmlParse(k, k, New(k), i, what)).object
      typed == [object EXCEPT !.type = <<f.key>>]
  IN IF f.key \notin DOMAIN XmlTab[table] THEN object
     ELSE IF XmlFiltered(XmlTab[table][f.key], what) THEN object
     ELSE IF f.node = "object" THEN XmlParse(f.key, kind, typed, f.items[1], what)
     ELSE IF f.node = "null" THEN typed
     ELSE FoldLeft(item, object, f.items)

XmlRegistryOut == <<Out("uri", "string", TF), Out("role", "strings", TF)>>
XmlOptionOut == <<Out("id", "string", TF), Out("name", "string", TF), Out("value", "string", TF)>>
XmlAgentOut == <<Out("agent_id", "string", T), Out("group_id", "string", T),
  Out("measurement_point", "string", T), Out("report_agent_id", "bool", T),
  Out("report_group_id", "bool", T), Out("report_measurement_point", "bool", T),
  Out("controller_timeout", "int", T), Time("last_started")>>
XmlActionOut == <<Out("name", "string", TF), Out("task", "string", T),
  Out("destination", "strings", T), Out("option", "objects", T), Out("tag", "strings", T),
  Out("suppression_tag", "strings", T), Out("state", "string", F), Out("storage", "string", F),
  Out("invocations", "int", F), Out("suppressions", "int", F), Out("overlaps", "int", F),
  Out("failures", "int", F), Time("last_invocation"), Time("last_completion"),
  OutIf("last_completion", "last_status", "int"),
  OutIf("last_completion", "last_message", "string"), Time("last_failed_completion"),
  OutIf("last_failed_completion", "last_failed_status", "int"),
  OutIf("last_failed_completion", "last_failed_message", "string")>>
XmlScheduleOut == <<Out("name", "string", TF), Out("start", "string", T),
  Out("end", "string", T), Out("duration", "string", T), Out("execution_mode", "string", T),
  Out("tag", "strings", T), Out("suppression_tag", "strings", T), Out("state", "string", F),
  Out("storage", "string", F), Out("invocations", "int", F), Out("suppressions", "int", F),
  Out("overlaps", "int", F), Out("failures", "int", F), Time("last_invocation"),
  Out("action", "objects", TF)>>
XmlSuppressionOut == <<Out("name", "string", TF), Out("start", "string", T),
  Out("end", "string", T), Out("match", "strings", T), Out("stop_running", "bool", T),
  Out("state", "string", F)>>
XmlTaskOut == <<Out("name", "string", TF), Out("function", "objects", TF),
  Out("version", "string", F), Out("program", "string", TF), Out("option", "objects", T),
  Out("tag", "strings", T)>>
XmlCapabilityOut == <<Out("version", "string", F), Out("tag", "strings", F)>>
XmlPeriodicOut == <<Out("interval", "int", T), Out("start", "string", T), Out("end", "string", T)>>
XmlCalendarOut == <<Out("month", "strings", T), Out("day_of_month", "ints", T),
  Out("day_of_week", "strings", T), Out("hour", "ints", T), Out("minute", "ints", T),
  Out("second", "ints", T), Out("timezone_offset", "string", T), Out("start", "string", T),
  Out("end", "string", T)>>
XmlEventOut == <<Out("name", "string", TF), Out("random_spread", "int", T),
  Out("cycle_interval", "int", T)>>
(* Mutant: the time of a one-off event printed under the leaf's name.      *)
XmlOneOffOutStart == <<Out("start", "string", T)>>
XmlOneOffOut == <<Out("time", "string", T)>>
XmlRowOut == <<Out("value", "strings", TF)>>
XmlTableOut == <<Out("function", "objects", TF), Out("column", "strings", TF),
                 Out("row", "objects", TF)>>
XmlResultOut == <<Out("schedule", "string", TF), Out("action", "string", TF),
  Out("task", "string", TF), Out("option", "objects", TF), Out("tag", "strings", TF),
  Time("event"), Time("start"), Time("end"), Out("cycle_number", "string", TF),
  Out("status", "int", TF), Out("table", "objects", TF)>>

XmlOut == [registry |-> XmlRegistryOut, option |-> XmlOptionOut, agent |-> XmlAgentOut,
  action |-> XmlActionOut, schedule |-> XmlScheduleOut, supp |-> XmlSuppressionOut,
  task |-> XmlTaskOut, cap_task |-> XmlTaskOut, capability |-> XmlCapabilityOut,
  periodic |-> XmlPeriodicOut, calendar |-> XmlCalendarOut, one_off |-> XmlOneOffOut,
  event |-> XmlEventOut, row |-> XmlRowOut, table |-> XmlTableOut, result |-> XmlResultOut]

(* xmlNewChild() reads the content it is given: an entity reference stands *)
(* for its character, and a reference that does not end is an error which  *)
(* leaves the element empty.  (xmlNewTextChild() would write it as it is.) *)
(* All other texts, "<" too, are escaped when the document is printed.     *)
XmlRefs == ("&lt;" :> "<") @@ ("a&b" :> "")

XmlRender(kind, object, what) == Render(XmlOut, XmlRefs, kind, kind, object, what)
=============================================================================
