----------------------------- MODULE Documents ------------------------------
(***************************************************************************)
(* One object of a configuration, state or report document read field by   *)
(* field by the parser of each format, and what the two renderers make of  *)
(* the object at every point.  The document is arbitrary: a step appends a *)
(* field of any kind, with texts its setter reads, changes or refuses, and *)
(* with the JSON nodes such a text can be written as.                      *)
(***************************************************************************)
EXTENDS XmlIO, FiniteSets

CONSTANTS
  Kinds,      \* the kinds of objects that are read
  MaxFields   \* bound on the fields after the name

VARIABLES
  kind, what, \* the object's kind; T for a configuration, TF for state
  doc,        \* the fields read so far
  json,       \* JSON: whether no field failed, and the object
  xml         \* XML: the object

vars == <<kind, what, doc, json, xml>>

Text(key, node, text)  == [key |-> key, node |-> node, items |-> <<text>>]
List(key, node, items) == [key |-> key, node |-> node, items |-> items]

(* Texts a leaf is tried with, and the JSON nodes a text can be written as *)
Samples(set) ==
  IF "a" \in DOMAIN set THEN {"", "a"} \cup IF "" \in DOMAIN set THEN {"&lt;"} ELSE {}
  ELSE IF "007" \in DOMAIN set THEN {"007", "0", "2^31", "2^64"}
  ELSE {"b"} \cup (DOMAIN set \cap {"uuid", "true", "running", "active", "parallel", "Z",
                                    "noon+1h", "epoch"})
Nodes(text) ==
  {"string"} \cup (IF text \in {"007", "0", "2^31", "2^64"} THEN {"int"} ELSE {})
             \cup (IF text = "true" THEN {"bool"} ELSE {})

(* Elements of lists of objects: named and unnamed ones, and an empty one. *)
Elements ==
  LET o1 == <<Text("id", "string", "a")>>
      o2 == <<Text("id", "string", "b"), Text("value", "string", "a&b")>>
  IN [option   |-> {o1, o2, <<Text("value", "string", "a")>>},
      registry |-> {<<Text("uri", "string", "a"), List("role", "strings", <<"a", "b">>)>>,
                    <<List("role", "strings", <<"a">>)>>},
      action   |-> {<<Text("name", "string", "a"), List("option", "objects", <<o1>>),
                      Text("last_completion", "string", "noon"), Text("last_status", "int", "7")>>,
                    <<Text("name", "string", "b"), Text("state", "string", "running")>>,
                    <<Text("task", "string", "a")>>},
      row      |-> {<<List("value", "strings", <<"a", "">>)>>, <<>>},
      table    |-> {<<List("column", "strings", <<"a", "a">>),
                      List("row", "objects", << <<List("value", "strings", <<"a", "b">>)>> >>)>>,
                    <<>>}]

(* The fields for one leaf of an object.                                   *)
LeafFields(key, leaf) ==
  CASE leaf.mode = "value" -> UNION {{Text(key, n, t) : n \in Nodes(t)} : t \in Samples(leaf.set)}
    [] leaf.mode = "bits" ->
         {List(key, n, s) : n \in {"strings", "ints"},
            s \in {<<"7">>, <<"7", "0">>, <<"31", "7">>, <<"march", "january">>, <<"7", "*">>}}
    [] leaf.mode = "kids" ->
         {List(key, "objects", s) : s \in UNION {[1..n -> Elements[leaf.kind]] : n \in 1..2}}
    [] OTHER -> {List(key, "strings", s) : s \in {<<"a&b">>, <<"b", "a">>, <<"a", "a">>}}

(* The contents of the sub-objects of an event.                            *)
SubFields(sub) ==
  UNION {LeafFields(key, EventLeaves[LeafOf(key)]) : key \in DOMAIN JsonTab[sub]}
SubDocs(sub) == {<<>>} \cup {<<f>> : f \in SubFields(sub)}

Fields(k) ==
  UNION {LeafFields(key, Leaves[k][key]) : key \in DOMAIN Leaves[k] \ {"type"}}
  \cup {Text("unknown", "string", "a")}
  \cup IF k # "event" THEN {}
       ELSE {List(sub, "object", <<d>>) : sub \in {"one_off"}, d \in SubDocs("one_off")}
            \cup {List(sub, "object", <<d>>) : sub \in {"periodic"}, d \in SubDocs("periodic")}
            \cup {List(sub, "object", <<d>>) : sub \in {"calendar"}, d \in SubDocs("calendar")}
            \cup {List(e, "null", <<>>) : e \in {"immediate", "startup", "controller_lost",
                                                 "controller_connected"}}

(* Built once: the fields of every kind.                                   *)
FieldsOf == [k \in Kinds |-> Fields(k)]

Keys(d) == {d[i].key : i \in DOMAIN d}

Init ==
  /\ kind \in Kinds
  /\ what \in {w \in {T, TF} : kind \in StateOnly => w = TF}
  /\ doc = <<>>
  /\ json = [ok |-> TRUE, object |-> New(kind)]
  /\ xml = New(kind)

(* One more field: both parsers look it up in their tables.                *)
Field(f) ==
  /\ f.key \notin Keys(doc)
  /\ f.key = "name" => doc = <<>>
  /\ Cardinality(Keys(doc) \ {"name"}) < MaxFields
  /\ doc' = Append(doc, f)
  /\ json' = IF json.ok THEN JsonField(kind, kind, json.object, f, JsonWhat(kind, what)) ELSE json
  /\ xml' = XmlElement(kind, kind, xml, f, what)
  /\ UNCHANGED <<kind, what>>

Next == \E f \in FieldsOf[kind] : Field(f)

Spec == Init /\ [][Next]_vars

-----------------------------------------------------------------------------

(* The object reached the lmap: a list takes only an object with its key.  *)
Listed(object) == kind \in DOMAIN KeyOf => object[KeyOf[kind]] # <<>>

JsonReads == doc # <<>> /\ json.ok /\ Listed(json.object)

(* Whatever the JSON parser accepts, the XML parser reads from the same    *)
(* document as the same object: the two tables of every kind, with their   *)
(* filters, setters and refusals, agree.                                   *)
FormatsAgree == JsonReads => xml = json.object

(* An object that a rendering can express: no status or message of a       *)
(* completion that never happened, no leaves of an event type that was     *)
(* replaced by another one.                                                *)
Expressible(object) ==
  /\ kind = "action" =>
       /\ object.last_completion = <<"epoch">> =>
            object.last_status = <<"0">> /\ object.last_message = <<>>
       /\ object.last_failed_completion = <<"epoch">> =>
            object.last_failed_status = <<"0">> /\ object.last_failed_message = <<>>
  /\ kind = "event" => Keys(doc) \subseteq {object.type[i] : i \in DOMAIN object.type}
                                     \cup {"name", "random_spread", "cycle_interval", "unknown"}

(* What the JSON parser accepted survives the JSON renderer: the printed   *)
(* document is accepted again and gives the same object.                   *)
JsonRoundTrip ==
  LET printed == JsonRender(kind, json.object, what)
  IN JsonReads /\ Expressible(json.object) /\ printed # <<>> =>
       JsonParse(kind, kind, New(kind), printed, JsonWhat(kind, what))
         = [ok |-> TRUE, object |-> json.object]

(* XML, whose parser accepts every document: the printed object is read    *)
(* back as it was exactly if none of its texts has an '&' in it.  A text   *)
(* that has one (the URL of an option, say) is read back as another text,  *)
(* or its leaf is lost, since render_leaf() leaves it unescaped.           *)
XmlRoundTrip ==
  LET printed  == XmlRender(kind, xml, what)
      verbatim == Render(XmlOut, NoRefs, kind, kind, xml, what)
  IN Expressible(xml) =>
       (XmlParse(kind, kind, New(kind), printed, what) = xml <=> printed = verbatim)

(* A configuration never sets operational state, in either format, also    *)
(* not in the actions of a schedule.                                       *)
ConfigSetsNoState ==
  what = T => \A object \in {json.object, xml} :
    /\ Pristine(kind, object)
    /\ kind = "schedule" =>
         \A i \in DOMAIN object.action : Pristine("action", object.action[i])

(* Whatever the fields and their order, and whatever texts are refused, a  *)
(* parser leaves an object with an end or a duration, never both, and with *)
(* lists that hold no tag and no key twice.                                *)
ObjectsWellFormed ==
  \A object \in {json.object, xml} :
    /\ WellFormed(kind, object)
    /\ kind = "schedule" =>
         \A i \in DOMAIN object.action : WellFormed("action", object.action[i])
=============================================================================
