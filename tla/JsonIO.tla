------------------------------- MODULE JsonIO -------------------------------
(***************************************************************************)
(* src/src/json-io.c: what the JSON parser does with its table, and the    *)
(* order in which the renderer prints the leaves.                          *)
(*                                                                         *)
(* A document is a sequence of fields [key, node, items].  A node is the   *)
(* JSON type of the field: "string", "int", "bool", an array "strings",    *)
(* "ints" or "objects", one "object", or "null" for the empty ones ([null],*)
(* [] and {}).  The items are texts, or documents where the node holds     *)
(* objects.                                                                *)
(***************************************************************************)
EXTENDS ParserTables

RECURSIVE JsonParse(_, _, _, _, _), JsonField(_, _, _, _, _)

(* The loop of every parse function over the fields of one JSON object: it *)
(* starts from an error, which an object without fields leaves in place,   *)
(* and stops at the first field that fails.  The fields of the object are  *)
(* found in table, the object they are set in is of the given kind.        *)
JsonParse(table, kind, object, doc, what) ==
  IF doc = <<>> THEN [ok |-> FALSE, object |-> object]
  ELSE FoldLeft(LAMBDA r, f : IF r.ok THEN JsonField(table, kind, r.object, f, what) ELSE r,
                [ok |-> TRUE, object |-> object], doc)

(* lookup_jsonmap() and the handler it calls for one field.                *)
JsonField(table, kind, object, f, what) ==
  LET skip   == [ok |-> TRUE, object |-> object]
      reject == [ok |-> FALSE, object |-> object]
      item(r, i) ==          \* one element of an array, or the field itself
        IF ~r.ok THEN r
        ELSE IF f.node # "objects" THEN Put(kind, r.object, LeafOf(f.key), i)
        ELSE LET k == Leaves[kind][f.key].kind
                 c == JsonParse(k, k, New(k), i, what)
             IN IF c.ok THEN Put(kind, r.object, f.key, c.object) ELSE reject
      typed(r) == IF r.ok THEN [r EXCEPT !.object.type = <<f.key>>] ELSE r
  IN IF f.key \notin DOMAIN JsonTab[table] THEN skip
     ELSE LET entry == JsonTab[table][f.key]
          IN IF f.node \notin entry.nodes THEN reject
             ELSE IF JsonFiltered(entry, what) THEN skip
             ELSE IF f.node = "object" THEN typed(JsonParse(f.key, kind, object, f.items[1], what))
             ELSE IF f.node = "null" THEN typed(skip)
             ELSE FoldLeft(item, skip, f.items)

(* Entries of the renderer: a leaf under its key, as this node, under      *)
(* these flags; a leaf with a guard also needs a non-zero instant there.   *)
Out(key, node, flags) == [key |-> key, leaf |-> LeafOf(key), node |-> node, flags |-> flags,
                          guard |-> ""]
OutIf(guard, key, node) == [Out(key, node, F) EXCEPT !.guard = guard]
Time(key) == OutIf(key, key, "string")

JsonOptionOut == <<Out("id", "string", TF), Out("name", "string", TF), Out("value", "string", TF)>>
JsonRegistryOut == <<Out("uri", "string", TF), Out("role", "strings", TF)>>
JsonRowOut == <<Out("value", "strings", TF)>>
JsonTableOut == <<Out("function", "objects", TF), Out("column", "strings", TF),
                  Out("row", "objects", TF)>>
JsonResultOut == <<Out("schedule", "string", TF), Out("action", "string", TF),
  Out("task", "string", TF), Out("option", "objects", TF), Out("tag", "strings", TF),
  Time("event"), Time("start"), Time("end"), Out("cycle_number", "string", TF),
  Out("status", "int", TF), Out("table", "objects", TF)>>
JsonAgentOut == <<Out("agent_id", "string", T), Out("group_id", "string", T),
  Out("measurement_point", "string", T), Out("report_agent_id", "bool", T),
  Out("report_group_id", "bool", T), Out("report_measurement_point", "bool", T),
  Out("controller_timeout", "int", T), Time("last_started")>>
JsonActionOut == <<Out("name", "string", TF), Out("task", "string", T),
  Out("option", "objects", T), Out("destination", "strings", T), Out("tag", "strings", T),
  Out("suppression_tag", "strings", T), Out("state", "string", F), Out("storage", "string", F),
  Out("invocations", "int", F), Out("suppressions", "int", F), Out("overlaps", "int", F),
  Out("failures", "int", F), Time("last_invocation"), Time("last_completion"),
  OutIf("last_completion", "last_status", "int"),
  OutIf("last_completion", "last_message", "string"), Time("last_failed_completion"),
  OutIf("last_failed_completion", "last_failed_status", "int"),
  OutIf("last_failed_completion", "last_failed_message", "string")>>
(* Mutant: the duration printed as a number, not as a string.              *)
JsonScheduleOutNumber == <<Out("name", "string", TF), Out("start", "string", T),
  Out("end", "string", T), Out("duration", "int", T), Out("execution_mode", "string", T),
  Out("tag", "strings", T), Out("suppression_tag", "strings", T), Out("state", "string", F),
  Out("storage", "string", F), Out("invocations", "int", F), Out("suppressions", "int", F),
  Out("overlaps", "int", F), Out("failures", "int", F), Time("last_invocation"),
  Out("action", "objects", TF)>>
JsonScheduleOut == <<Out("name", "string", TF), Out("start", "string", T),
  Out("end", "string", T), Out("duration", "string", T), Out("execution_mode", "string", T),
  Out("tag", "strings", T), Out("suppression_tag", "strings", T), Out("state", "string", F),
  Out("storage", "string", F), Out("invocations", "int", F), Out("suppressions", "int", F),
  Out("overlaps", "int", F), Out("failures", "int", F), Time("last_invocation"),
  Out("action", "objects", TF)>>
JsonSuppressionOut == <<Out("name", "string", TF), Out("start", "string", T),
  Out("end", "string", T), Out("match", "strings", T), Out("stop_running", "bool", T),
  Out("state", "string", F)>>
JsonTaskOut == <<Out("name", "string", TF), Out("function", "objects", TF),
  Out("version", "string", F), Out("program", "string", TF), Out("option", "objects", T),
  Out("tag", "strings", T)>>
JsonCapabilityOut == <<Out("version", "string", F), Out("tag", "strings", F)>>
JsonPeriodicOut == <<Out("interval", "int", T), Out("start", "string", T), Out("end", "string", T)>>
JsonCalendarOut == <<Out("month", "strings", T), Out("day_of_month", "ints", T),
  Out("day_of_week", "strings", T), Out("hour", "ints", T), Out("minute", "ints", T),
  Out("second", "ints", T), Out("timezone_offset", "string", T), Out("start", "string", T),
  Out("end", "string", T)>>
JsonOneOffOut == <<Out("time", "string", T)>>
JsonEventOut == <<Out("name", "string", TF), Out("random_spread", "int", T),
  Out("cycle_interval", "int", T)>>

JsonOut == [option |-> JsonOptionOut, registry |-> JsonRegistryOut, row |-> JsonRowOut,
  table |-> JsonTableOut, result |-> JsonResultOut, agent |-> JsonAgentOut,
  action |-> JsonActionOut, schedule |-> JsonScheduleOut, supp |-> JsonSuppressionOut,
  task |-> JsonTaskOut, cap_task |-> JsonTaskOut, capability |-> JsonCapabilityOut,
  periodic |-> JsonPeriodicOut, calendar |-> JsonCalendarOut, one_off |-> JsonOneOffOut,
  event |-> JsonEventOut]

RECURSIVE Render(_, _, _, _, _, _)

(* The fields of one object in the order of a table: a leaf that is set,   *)
(* whose flags are asked for and whose guard is not the instant 0.  refs   *)
(* has the texts that the library does not write as they are.              *)
Render(tables, refs, table, kind, object, what) ==
  LET shown(e) == /\ object[e.leaf] # <<>> /\ e.flags \cap what # {}
                  /\ e.guard = "" \/ object[e.guard] # <<"epoch">>
      write(t) == IF t \in DOMAIN refs THEN refs[t] ELSE t
      items(e) == IF e.node # "objects"
                  THEN [i \in DOMAIN object[e.leaf] |-> write(object[e.leaf][i])]
                  ELSE [i \in DOMAIN object[e.leaf] |->
                          Render(tables, refs, Leaves[kind][e.leaf].kind, Leaves[kind][e.leaf].kind,
                                 object[e.leaf][i], what)]
      field(e) == [key |-> e.key, node |-> e.node, items |-> items(e)]
      shownSeq == SelectSeq(tables[table], shown)
      leaves   == [i \in DOMAIN shownSeq |-> field(shownSeq[i])]
      type     == object.type[1]
  IN IF table # "event" \/ "T" \notin what \/ object.type = <<>> THEN leaves
     ELSE Append(leaves, IF type \in DOMAIN tables
            THEN [key |-> type, node |-> "object",
                  items |-> <<Render(tables, refs, type, kind, object, what)>>]
            ELSE [key |-> type, node |-> "null", items |-> <<>>])

(* json-c escapes every text it writes.                                    *)
NoRefs == <<>>

JsonRender(kind, object, what) == Render(JsonOut, NoRefs, kind, kind, object, what)
=============================================================================
