--------------------------- MODULE LmapDataProofs ---------------------------
(***************************************************************************)
(* What the parsers of both formats make of the objects of one document,   *)
(* for documents of any size, nesting and texts.  The parsers are          *)
(* recursive (JsonIO, XmlIO); here they are taken apart into their calls:  *)
(* every object starts as New(kind), and a field either is skipped, or is  *)
(* refused, or calls one setter with a text or with an object that was     *)
(* read before.  The variable read collects what can come out: for each    *)
(* kind of object the pairs of objects the two parsers have made of the    *)
(* same fields, and whether JSON has accepted all of them.                 *)
(***************************************************************************)
EXTENDS ParserTables, TLAPS

CONSTANT Items   \* the texts the setters are called with

VARIABLES
  top,    \* the kind of the object the document describes
  what,   \* T for a configuration, TF for state
  read    \* [kind -> set of [ok, json, xml]]

vars == <<top, what, read>>

(* The objects that are found inside an object.                            *)
Parts == [agent |-> {"agent"}, capability |-> {"capability"}, registry |-> {"registry"},
  option |-> {"option"}, supp |-> {"supp"}, event |-> {"event"},
  task |-> {"task", "registry", "option"}, cap_task |-> {"cap_task", "registry", "option"},
  schedule |-> {"schedule", "action", "option"}, action |-> {"action", "option"},
  result |-> {"result", "option", "table", "registry", "row"}]

(* The tables in which the fields of an object are looked up.              *)
TablesOf(k) == {k} \cup (IF k = "event" THEN {"periodic", "calendar", "one_off"} ELSE {})

(* The fields that pass the filter.                                        *)
JsonKeys(table, w) == {key \in DOMAIN JsonTab[table] : ~JsonFiltered(JsonTab[table][key], w)}
XmlKeys(table, w)  == {key \in DOMAIN XmlTab[table] : ~XmlFiltered(XmlTab[table][key], w)}

(* The fields that set a leaf, and those that give an event its type.      *)
LeafKeys(k, table) == {key \in DOMAIN JsonTab[table] \cup DOMAIN XmlTab[table] :
                         LeafOf(key) \in DOMAIN Leaves[k]}
EventTypes == DOMAIN JsonEvent \ DOMAIN EventLeaves

(* What a leaf can be set to: a text, or an object with its history.       *)
Given(leaf) == IF leaf.mode = "kids" THEN read[leaf.kind]
               ELSE {[ok |-> TRUE, json |-> i, xml |-> i] : i \in Items}

Adds(k, r) == /\ read' = [read EXCEPT ![k] = @ \cup {r}]
              /\ UNCHANGED <<top, what>>

(* The XML parser at a field, and the three things the JSON parser can do. *)
XmlAt(k, r, table, key, c) ==
  IF key \in XmlKeys(table, what) THEN Put(k, r.xml, LeafOf(key), c.xml).object ELSE r.xml

JsonRefuses(k, r, table, key, c) ==
  Adds(k, [ok |-> FALSE, json |-> r.json, xml |-> XmlAt(k, r, table, key, c)])

JsonSkips(k, r, table, key, c) ==
  /\ key \notin JsonKeys(table, JsonWhat(top, what))
  /\ Adds(k, [ok |-> r.ok, json |-> r.json, xml |-> XmlAt(k, r, table, key, c)])

JsonSets(k, r, table, key, c) ==
  /\ r.ok /\ c.ok /\ key \in JsonKeys(table, JsonWhat(top, what))
  /\ LET p == Put(k, r.json, LeafOf(key), c.json)
     IN Adds(k, [ok |-> p.ok, json |-> p.object, xml |-> XmlAt(k, r, table, key, c)])

Field == \E k \in Parts[top] : \E r \in read[k], table \in TablesOf(k) :
  \E key \in LeafKeys(k, table) : \E c \in Given(Leaves[k][LeafOf(key)]) :
    \/ JsonRefuses(k, r, table, key, c)
    \/ JsonSkips(k, r, table, key, c)
    \/ JsonSets(k, r, table, key, c)

(* The type of an event.  JSON sets it behind the fields of the type, XML  *)
(* before them; lemma TypeCommutes is why one order is enough.             *)
Typed(object, t) == [object EXCEPT !.type = <<t>>]
EventType == \E k \in Parts[top] \cap {"event"} : \E r \in read[k], t \in EventTypes :
  \/ Adds(k, [ok |-> FALSE, json |-> r.json, xml |-> Typed(r.xml, t)])
  \/ Adds(k, [ok |-> r.ok, json |-> Typed(r.json, t), xml |-> Typed(r.xml, t)])

Init ==
  /\ top \in DOMAIN Parts
  /\ what \in {w \in {T, TF} : top \in StateOnly => w = TF}
  /\ read = [k \in Parts[top] |-> {[ok |-> TRUE, json |-> New(k), xml |-> New(k)]}]

Spec == Init /\ [][Field \/ EventType]_vars

-----------------------------------------------------------------------------
(* The properties                                                          *)

(* The leaves that hold any number of elements.                            *)
Lists == {"tags", "values", "kids"}

(* The objects of a kind that a list can hold.                             *)
Built(k) == {r.json : r \in read[k]} \cup {r.xml : r \in read[k]}

Elements(leaf) == IF leaf.mode = "kids" THEN Built(leaf.kind) ELSE Items

(* The leaves of an object, and what its lists hold.                       *)
Shape(k, object) ==
  /\ object = [l \in DOMAIN Leaves[k] |-> object[l]]
  /\ \A l \in DOMAIN Leaves[k] :
       Leaves[k][l].mode \in Lists => object[l] \in Seq(Elements(Leaves[k][l]))

(* Every object that is read is well-formed and so, because its lists hold *)
(* objects that were read, is every object inside it, at any depth.        *)
AllWellFormed == \A k \in Parts[top] : \A object \in Built(k) :
  Shape(k, object) /\ WellFormed(k, object)

(* A configuration sets no operational state, at any depth.                *)
NoStateSet == what = T => \A k \in Parts[top] : \A object \in Built(k) : Pristine(k, object)

(* What JSON accepts as a whole, XML reads as the same object.             *)
SameObject == \A r \in read[top] : r.ok => r.json = r.xml

-----------------------------------------------------------------------------
(* The tables of leaves                                                    *)

(* The two leaves of a schedule that exclude each other are no lists.      *)
LEMMA ScheduleTable ==
  /\ {"end", "duration"} \subseteq DOMAIN Leaves["schedule"]
  /\ Leaves["schedule"]["end"].new = <<>>
  /\ Leaves["schedule"]["end"].mode = "value"
  /\ Leaves["schedule"]["duration"].mode = "value"
  BY DEF Leaves, ScheduleLeaves, Opt

(* Nor is the type of an event, which is no operational state either.      *)
LEMMA EventTable ==
  /\ "type" \in DOMAIN Leaves["event"] /\ Leaves["event"]["type"].mode = "value"
  /\ "type" \notin Operational
  BY DEF Leaves, EventLeaves, Opt, Operational

(* A list of a new object is empty.                                        *)
StartsEmpty(leaf) == leaf.mode \in Lists => leaf.new = <<>>

(* So it is for every list of every kind of object.                        *)
LEMMA ListsStartEmpty ==
  ASSUME NEW k \in DOMAIN Leaves, NEW l \in DOMAIN Leaves[k]
  PROVE  StartsEmpty(Leaves[k][l])
<1>1. /\ \A set : StartsEmpty(Opt(set)) /\ StartsEmpty(Bits(set))
      /\ \A set, new : StartsEmpty(Val(set, new))
      /\ \A name : StartsEmpty(Kids(name))
      /\ StartsEmpty(Tags) /\ StartsEmpty(Values)
  BY DEF StartsEmpty, Lists, Opt, Bits, Val, Kids, Tags, Values
<1>2. StartsEmpty(Counter) /\ StartsEmpty(Instant)
  BY <1>1 DEF Counter, Instant
<1> DEFINE All(f) == \A x \in DOMAIN f : StartsEmpty(f[x])
<1>3. All(AgentLeaves) /\ All(CapabilityLeaves) /\ All(RegistryLeaves)
  BY <1>1, <1>2 DEF AgentLeaves, CapabilityLeaves, RegistryLeaves
<1>4. All(OptionLeaves) /\ All(SuppLeaves) /\ All(EventLeaves)
  BY <1>1, <1>2 DEF OptionLeaves, SuppLeaves, EventLeaves
<1>5. All(TaskLeaves) /\ All(ScheduleLeaves)
  BY <1>1, <1>2 DEF TaskLeaves, ScheduleLeaves
<1>6. All(ActionLeaves) /\ All(RowLeaves) /\ All(TableLeaves) /\ All(ResultLeaves)
  BY <1>1, <1>2 DEF ActionLeaves, RowLeaves, TableLeaves, ResultLeaves
<1> HIDE DEF All
<1>7. All(Leaves[k])
  BY <1>3, <1>4, <1>5, <1>6 DEF Leaves
<1> QED
  BY <1>7 DEF All

(* The parts of an object are kinds of objects.                            *)
LEMMA PartsAreKinds ==
  ASSUME NEW t \in DOMAIN Parts
  PROVE  t \in Parts[t] /\ Parts[t] \subseteq DOMAIN Leaves
  BY DEF Parts, Leaves

(* The leaf holds no objects, or objects of one of the kinds.              *)
HoldsOnly(leaf, kinds) == leaf.mode = "kids" => leaf.kind \in kinds

(* The lists of an object and of its parts hold only its parts.            *)
LEMMA PartsClosed ==
  ASSUME NEW t \in DOMAIN Parts, NEW k \in Parts[t], NEW l \in DOMAIN Leaves[k]
  PROVE  HoldsOnly(Leaves[k][l], Parts[t])
<1>1. /\ \A set, kinds : HoldsOnly(Opt(set), kinds) /\ HoldsOnly(Bits(set), kinds)
      /\ \A set, new, kinds : HoldsOnly(Val(set, new), kinds)
      /\ \A name, kinds : name \in kinds => HoldsOnly(Kids(name), kinds)
      /\ \A kinds : HoldsOnly(Tags, kinds) /\ HoldsOnly(Values, kinds)
  BY DEF HoldsOnly, Opt, Bits, Val, Kids, Tags, Values
<1>2. \A kinds : HoldsOnly(Counter, kinds) /\ HoldsOnly(Instant, kinds)
  BY <1>1 DEF Counter, Instant
<1> DEFINE All(f, kinds) == \A x \in DOMAIN f : HoldsOnly(f[x], kinds)
<1>3. /\ All(AgentLeaves, {}) /\ All(CapabilityLeaves, {}) /\ All(RegistryLeaves, {})
      /\ All(OptionLeaves, {}) /\ All(SuppLeaves, {}) /\ All(RowLeaves, {})
  BY <1>1, <1>2 DEF AgentLeaves, CapabilityLeaves, RegistryLeaves, OptionLeaves, SuppLeaves,
                    RowLeaves
<1>4. All(EventLeaves, {})
  BY <1>1, <1>2 DEF EventLeaves
<1>5. All(TaskLeaves, {"registry", "option"}) /\ All(TableLeaves, {"registry", "row"})
  BY <1>1, <1>2 DEF TaskLeaves, TableLeaves
<1>6. All(ScheduleLeaves, {"action"})
  BY <1>1, <1>2 DEF ScheduleLeaves
<1>7. All(ActionLeaves, {"option"})
  BY <1>1, <1>2 DEF ActionLeaves
<1>8. All(ResultLeaves, {"option", "table"})
  BY <1>1, <1>2 DEF ResultLeaves
<1>9. \A f, A, B : All(f, A) /\ A \subseteq B => All(f, B)
  BY DEF HoldsOnly
<1> HIDE DEF All
<1>10. All(Leaves[k], Parts[t])
  BY <1>3, <1>4, <1>5, <1>6, <1>7, <1>8, <1>9 DEF Leaves, Parts
<1> QED
  BY <1>10 DEF All

(* The only other objects in a task besides its options are registries.    *)
LEMMA TaskFunctions ==
  ASSUME NEW l \in DOMAIN TaskLeaves, l # "option"
  PROVE  HoldsOnly(TaskLeaves[l], {"registry"})
<1>1. /\ \A set : HoldsOnly(Opt(set), {"registry"})
      /\ HoldsOnly(Kids("registry"), {"registry"}) /\ HoldsOnly(Tags, {"registry"})
  BY DEF HoldsOnly, Opt, Kids, Tags
<1> QED
  BY <1>1 DEF TaskLeaves

-----------------------------------------------------------------------------
(* One call of a setter                                                    *)

(* What is appended to a list is at its end, behind what was there.        *)
LEMMA Appended ==
  ASSUME NEW S, NEW list \in Seq(S), NEW item \in S
  PROVE  /\ Append(list, item) \in Seq(S)
         /\ DOMAIN Append(list, item) = DOMAIN list \cup {Len(list) + 1}
         /\ Len(list) + 1 \notin DOMAIN list
         /\ Append(list, item)[Len(list) + 1] = item
         /\ \A i \in DOMAIN list : Append(list, item)[i] = list[i]
  OBVIOUS

(* A tag that is accepted is not in the list.                              *)
LEMMA TagAdded ==
  ASSUME NEW S, NEW list \in Seq(S), NEW item \in S, Distinct(list), AddTag(list, item)
  PROVE  Distinct(Append(list, item))
<1>1. \A i \in DOMAIN list : list[i] # item
  BY DEF AddTag, Range
<1> QED
  BY <1>1, Appended DEF Distinct

(* An object that is accepted has a key that none in the list has.         *)
LEMMA ObjectAdded ==
  ASSUME NEW S, NEW list \in Seq(S), NEW item \in S, NEW k, Keyed(k, list),
         AddKeyed(k, list, item)
  PROVE  Keyed(k, Append(list, item))
  BY Appended DEF AddKeyed, Keyed

(* The leaf that excludes the one that is set is cleared; the others stay. *)
LEMMA ExclusiveEffect ==
  ASSUME NEW k \in DOMAIN Leaves, NEW object, Shape(k, object),
         NEW leaf \in DOMAIN Leaves[k]
  PROVE  LET o == Exclusive(k, object, leaf)
         IN /\ o = [l \in DOMAIN Leaves[k] |-> o[l]]
            /\ \A l \in DOMAIN Leaves[k] :
                 l \notin {"end", "duration"} \/ Leaves[k][l].mode \in Lists => o[l] = object[l]
            /\ k = "schedule" =>
                 /\ leaf = "end" => o.duration = <<>>
                 /\ leaf = "duration" => o.end = <<>>
                 /\ leaf \notin {"end", "duration"} =>
                      o.end = object.end /\ o.duration = object.duration
<1>1. CASE k # "schedule" \/ leaf \notin {"end", "duration"}
  BY <1>1 DEF Exclusive, Shape
<1>2. CASE k = "schedule" /\ leaf \in {"end", "duration"}
  BY <1>2, ScheduleTable DEF Exclusive, Shape, Lists
<1> QED
  BY <1>1, <1>2

(* What a setter may change: its leaf, and the one it excludes.  What it   *)
(* appends to a list is what it was given, if the list takes it.           *)
LEMMA PutEffect ==
  ASSUME NEW k \in DOMAIN Leaves, NEW object, Shape(k, object),
         NEW leaf \in DOMAIN Leaves[k], NEW item
  PROVE  LET o   == Exclusive(k, object, leaf)
             new == Put(k, object, leaf, item).object
             l   == Leaves[k][leaf]
         IN /\ new = [x \in DOMAIN Leaves[k] |-> new[x]]
            /\ \A x \in DOMAIN Leaves[k] : x # leaf => new[x] = o[x]
            /\ l.mode \in Lists =>
                 \/ new[leaf] = object[leaf]
                 \/ /\ new[leaf] = Append(object[leaf], item)
                    /\ l.mode = "tags" => AddTag(object[leaf], item)
                    /\ l.mode = "kids" /\ l.kind \in DOMAIN KeyOf =>
                         AddKeyed(l.kind, object[leaf], item)
<1> DEFINE l   == Leaves[k][leaf]
           was == object[leaf]
           o   == Exclusive(k, object, leaf)
           new == Put(k, object, leaf, item).object
<1>1. /\ o = [x \in DOMAIN Leaves[k] |-> o[x]]
      /\ l.mode \in Lists => o[leaf] = was
  BY ExclusiveEffect
<1> DEFINE Accepted ==
             /\ l.mode = "tags" => AddTag(was, item)
             /\ l.mode = "kids" /\ l.kind \in DOMAIN KeyOf => AddKeyed(l.kind, was, item)
           Outcome(v) == /\ new = [o EXCEPT ![leaf] = v]
                         /\ l.mode \in Lists => v = Append(was, item)
                         /\ Accepted
<1>2. new = o \/ \E v : Outcome(v)
  BY DEF Put, Lists
<1> HIDE DEF o, Outcome, new, Accepted, l, was
<1>3. CASE new = o
  BY <1>1, <1>3 DEF l, o, new, was
<1>4. CASE new # o
  <2>1. PICK v : Outcome(v)
    BY <1>2, <1>4
  <2>2. new = [x \in DOMAIN Leaves[k] |-> IF x = leaf THEN v ELSE o[x]]
    BY <2>1, <1>1 DEF Outcome
  <2>3. /\ new = [x \in DOMAIN Leaves[k] |-> new[x]]
        /\ \A x \in DOMAIN Leaves[k] : x # leaf => new[x] = o[x]
        /\ new[leaf] = v
    BY <2>2
  <2> QED
    BY <2>1, <2>3 DEF Outcome, Accepted, l, o, new, was
<1> QED
  BY <1>3, <1>4

(* A setter keeps the object well-formed, also when it refuses its item.   *)
LEMMA PutKeeps ==
  ASSUME NEW k \in DOMAIN Leaves, NEW object, Shape(k, object), WellFormed(k, object),
         NEW leaf \in DOMAIN Leaves[k], NEW item \in Elements(Leaves[k][leaf])
  PROVE  LET new == Put(k, object, leaf, item).object
         IN Shape(k, new) /\ WellFormed(k, new)
<1> DEFINE new  == Put(k, object, leaf, item).object
           o    == Exclusive(k, object, leaf)
<1>1. /\ new = [x \in DOMAIN Leaves[k] |-> new[x]]
      /\ \A x \in DOMAIN Leaves[k] : x # leaf => new[x] = o[x]
  BY PutEffect
<1>2. LET l == Leaves[k][leaf]
      IN l.mode \in Lists =>
           \/ new[leaf] = object[leaf]
           \/ /\ new[leaf] = Append(object[leaf], item)
              /\ l.mode = "tags" => AddTag(object[leaf], item)
              /\ l.mode = "kids" /\ l.kind \in DOMAIN KeyOf =>
                   AddKeyed(l.kind, object[leaf], item)
  BY PutEffect
<1>3. \A x \in DOMAIN Leaves[k] : Leaves[k][x].mode \in Lists => o[x] = object[x]
  BY ExclusiveEffect
<1>4. k = "schedule" => /\ leaf = "end" => o.duration = <<>>
                        /\ leaf = "duration" => o.end = <<>>
                        /\ leaf \notin {"end", "duration"} =>
                             o.end = object.end /\ o.duration = object.duration
  BY ExclusiveEffect
<1> HIDE DEF new, o
<1>5. ASSUME NEW x \in DOMAIN Leaves[k], Leaves[k][x].mode \in Lists
      PROVE  /\ new[x] \in Seq(Elements(Leaves[k][x]))
             /\ Leaves[k][x].mode = "tags" => Distinct(new[x])
             /\ Leaves[k][x].mode = "kids" /\ Leaves[k][x].kind \in DOMAIN KeyOf =>
                  Keyed(Leaves[k][x].kind, new[x])
  <2> DEFINE E == Elements(Leaves[k][x])
  <2>1. /\ object[x] \in Seq(E)
        /\ Leaves[k][x].mode = "tags" => Distinct(object[x])
        /\ Leaves[k][x].mode = "kids" /\ Leaves[k][x].kind \in DOMAIN KeyOf =>
             Keyed(Leaves[k][x].kind, object[x])
    BY <1>5 DEF Shape, WellFormed
  <2>2. CASE new[x] = object[x]
    BY <2>1, <2>2
  <2>3. CASE new[x] # object[x]
    <3>1. x = leaf
      BY <2>3, <1>1, <1>3, <1>5
    <3>2. /\ new[x] = Append(object[x], item)
          /\ Leaves[k][x].mode = "tags" => AddTag(object[x], item)
          /\ Leaves[k][x].mode = "kids" /\ Leaves[k][x].kind \in DOMAIN KeyOf =>
               AddKeyed(Leaves[k][x].kind, object[x], item)
      BY <2>3, <3>1, <1>2, <1>5
    <3>3. item \in E
      BY <3>1
    <3> HIDE DEF E
    <3>4. Append(object[x], item) \in Seq(E)
      BY <2>1, <3>3, Appended
    <3>5. Leaves[k][x].mode = "tags" => Distinct(Append(object[x], item))
      BY <2>1, <3>2, <3>3, TagAdded
    <3>6. Leaves[k][x].mode = "kids" /\ Leaves[k][x].kind \in DOMAIN KeyOf =>
             Keyed(Leaves[k][x].kind, Append(object[x], item))
      BY <2>1, <3>2, <3>3, ObjectAdded
    <3> QED
      BY <3>2, <3>4, <3>5, <3>6 DEF E
  <2> QED
    BY <2>2, <2>3
<1>6. Shape(k, new)
  BY <1>1, <1>5 DEF Shape
<1>7. EndXorDuration(k, new)
  <2> SUFFICES ASSUME k = "schedule"
               PROVE  new.end = <<>> \/ new.duration = <<>>
    BY DEF EndXorDuration
  <2>1. {"end", "duration"} \subseteq DOMAIN Leaves[k]
    BY ScheduleTable
  <2>2. CASE leaf = "end"
    BY <2>1, <2>2, <1>1, <1>4
  <2>3. CASE leaf = "duration"
    BY <2>1, <2>3, <1>1, <1>4
  <2>4. CASE leaf \notin {"end", "duration"}
    BY <2>1, <2>4, <1>1, <1>4 DEF WellFormed, EndXorDuration
  <2> QED
    BY <2>2, <2>3, <2>4
<1>8. WellFormed(k, new)
  BY <1>5, <1>7 DEF WellFormed, Lists
<1> QED
  BY <1>6, <1>8 DEF new

(* A setter of a leaf that is not operational state sets none.             *)
LEMMA PutKeepsPristine ==
  ASSUME NEW k \in DOMAIN Leaves, NEW object, Shape(k, object), Pristine(k, object),
         NEW leaf \in DOMAIN Leaves[k], leaf \notin Operational, NEW item
  PROVE  Pristine(k, Put(k, object, leaf, item).object)
<1> DEFINE new == Put(k, object, leaf, item).object
           o   == Exclusive(k, object, leaf)
<1>1. /\ new = [x \in DOMAIN Leaves[k] |-> new[x]]
      /\ \A x \in DOMAIN Leaves[k] : x # leaf => new[x] = o[x]
  BY PutEffect
<1>2. \A x \in DOMAIN Leaves[k] : x \notin {"end", "duration"} => o[x] = object[x]
  BY ExclusiveEffect
<1>3. Operational \cap {"end", "duration"} = {}
  BY DEF Operational
<1> HIDE DEF new, o
<1>4. \A x \in Operational \cap DOMAIN Leaves[k] : new[x] = object[x]
  BY <1>1, <1>2, <1>3
<1> QED
  BY <1>4 DEF Pristine, new

(* The type of an event is in no list, and is no operational state.        *)
LEMMA TypedKeeps ==
  ASSUME NEW object, NEW t, Shape("event", object), WellFormed("event", object)
  PROVE  /\ Shape("event", Typed(object, t))
         /\ WellFormed("event", Typed(object, t))
         /\ Pristine("event", object) => Pristine("event", Typed(object, t))
<1> DEFINE new == Typed(object, t)
           D   == DOMAIN Leaves["event"]
<1>1. /\ new = [x \in D |-> new[x]]
      /\ \A x \in D : x # "type" => new[x] = object[x]
  BY EventTable DEF Typed, Shape
<1>2. \A x \in D : Leaves["event"][x].mode \in Lists => new[x] = object[x]
  BY <1>1, EventTable DEF Lists
<1> HIDE DEF new
<1>3. Shape("event", new)
  BY <1>1, <1>2 DEF Shape
<1>4. WellFormed("event", new)
  BY <1>2 DEF WellFormed, EndXorDuration, Lists
<1>5. Pristine("event", object) => Pristine("event", new)
  BY <1>1, EventTable DEF Pristine
<1> QED
  BY <1>3, <1>4, <1>5 DEF new

(* Setting a leaf of an event and setting its type can change places: it   *)
(* does not matter that one parser sets the type first and the other last. *)
LEMMA TypeCommutes ==
  ASSUME NEW object, Shape("event", object), NEW t, NEW item,
         NEW leaf \in DOMAIN Leaves["event"] \ {"type"}
  PROVE  LET late  == Put("event", object, leaf, item)
             early == Put("event", Typed(object, t), leaf, item)
         IN early.ok = late.ok /\ early.object = Typed(late.object, t)
<1> DEFINE D  == DOMAIN Leaves["event"]
           to == Typed(object, t)
<1>1. /\ object = [x \in D |-> object[x]]
      /\ to = [x \in D |-> IF x = "type" THEN <<t>> ELSE object[x]]
  BY EventTable DEF Shape, Typed
<1>2. to[leaf] = object[leaf]
  BY <1>1
<1>3. \A ob : Exclusive("event", ob, leaf) = ob
  BY DEF Exclusive
<1> DEFINE l   == Leaves["event"][leaf]
           was == object[leaf]
           ok  == CASE l.mode = "kids" -> l.kind \in DOMAIN KeyOf => AddKeyed(l.kind, was, item)
                    [] l.mode = "tags" -> AddTag(was, item)
                    [] OTHER           -> item \in DOMAIN l.set
           now == CASE l.mode = "value" -> <<l.set[item]>>
                    [] l.mode = "bits"  -> AddBit(was, l.set[item])
                    [] OTHER            -> Append(was, item)
<1>4. /\ Put("event", object, leaf, item)
           = [ok |-> ok, object |-> IF ok THEN [object EXCEPT ![leaf] = now] ELSE object]
      /\ Put("event", to, leaf, item)
           = [ok |-> ok, object |-> IF ok THEN [to EXCEPT ![leaf] = now] ELSE to]
  BY <1>2, <1>3 DEF Put
<1> HIDE DEF ok, now
<1>5. [to EXCEPT ![leaf] = now] = Typed([object EXCEPT ![leaf] = now], t)
  BY <1>1 DEF Typed
<1> QED
  BY <1>4, <1>5

-----------------------------------------------------------------------------
(* The tables of the parsers                                               *)

(* A field that would set operational state is for state documents only.   *)
JsonGuards(table) == \A key \in DOMAIN table :
  LeafOf(key) \in Operational => table[key].flags = F
XmlGuards(table) == \A key \in DOMAIN table :
  LeafOf(key) \in Operational => table[key] = F

(* This holds in every table of the JSON parser.                           *)
LEMMA JsonTablesGuard ==
  ASSUME NEW t \in DOMAIN JsonTab
  PROVE  JsonGuards(JsonTab[t])
<1>1. /\ \A f : Str(f).flags = f /\ Num(f).flags = f /\ Bool(f).flags = f
      /\ \A f : StrArray(f).flags = f /\ NumArray(f).flags = f /\ ObjArray(f).flags = f
      /\ \A f : Object(f).flags = f /\ Empty(f).flags = f
  BY DEF Str, Num, Bool, StrArray, NumArray, ObjArray, Object, Empty
<1>2. /\ JsonGuards(JsonOption) /\ JsonGuards(JsonRegistry) /\ JsonGuards(JsonTask)
      /\ JsonGuards(JsonCapability) /\ JsonGuards(JsonAgent)
  BY <1>1 DEF JsonGuards, LeafOf, Operational, JsonOption, JsonRegistry, JsonTask,
              JsonCapability, JsonAgent
<1>3. /\ JsonGuards(JsonPeriodic) /\ JsonGuards(JsonCalendar) /\ JsonGuards(JsonOneOff)
      /\ JsonGuards(JsonEvent) /\ JsonGuards(JsonSuppression)
  BY <1>1 DEF JsonGuards, LeafOf, Operational, JsonPeriodic, JsonCalendar, JsonOneOff,
              JsonEvent, JsonSuppression
<1>4. JsonGuards(JsonAction) /\ JsonGuards(JsonSchedule)
  BY <1>1 DEF JsonGuards, LeafOf, Operational, JsonAction, JsonSchedule
<1>5. JsonGuards(JsonRow) /\ JsonGuards(JsonTable) /\ JsonGuards(JsonResult)
  BY <1>1 DEF JsonGuards, LeafOf, Operational, JsonRow, JsonTable, JsonResult
<1> QED
  BY <1>2, <1>3, <1>4, <1>5 DEF JsonTab

(* And in every table of the XML parser.                                   *)
LEMMA XmlTablesGuard ==
  ASSUME NEW t \in DOMAIN XmlTab
  PROVE  XmlGuards(XmlTab[t])
<1>1. /\ XmlGuards(XmlAgent) /\ XmlGuards(XmlSuppression) /\ XmlGuards(XmlOption)
      /\ XmlGuards(XmlRegistry) /\ XmlGuards(XmlTask) /\ XmlGuards(XmlCapabilityTask)
      /\ XmlGuards(XmlCapability)
  BY DEF XmlGuards, LeafOf, Operational, XmlAgent, XmlSuppression, XmlOption, XmlRegistry,
         XmlTask, XmlCapabilityTask, XmlCapability
<1>2. /\ XmlGuards(XmlPeriodic) /\ XmlGuards(XmlCalendar) /\ XmlGuards(XmlOneOff)
      /\ XmlGuards(XmlEvent)
  BY DEF XmlGuards, LeafOf, Operational, XmlPeriodic, XmlCalendar, XmlOneOff, XmlEvent
<1>3. XmlGuards(XmlAction) /\ XmlGuards(XmlSchedule)
  BY DEF XmlGuards, LeafOf, Operational, XmlAction, XmlSchedule
<1>4. XmlGuards(XmlRow) /\ XmlGuards(XmlTable) /\ XmlGuards(XmlResult)
  BY DEF XmlGuards, LeafOf, Operational, XmlRow, XmlTable, XmlResult
<1> QED
  BY <1>1, <1>2, <1>3, <1>4 DEF XmlTab

(* Every kind of object has its tables in both formats.                    *)
LEMMA TablesExist ==
  ASSUME NEW t \in DOMAIN Parts, NEW k \in Parts[t], NEW table \in TablesOf(k)
  PROVE  table \in DOMAIN JsonTab /\ table \in DOMAIN XmlTab
  BY DEF Parts, TablesOf, JsonTab, XmlTab

(* The filters of a configuration let no field pass that sets operational  *)
(* state.                                                                  *)
LEMMA ConfigFilter ==
  ASSUME NEW t \in DOMAIN Parts, NEW k \in Parts[t], NEW table \in TablesOf(k),
         NEW key \in JsonKeys(table, T) \cup XmlKeys(table, T)
  PROVE  LeafOf(key) \notin Operational
<1>1. T # {} /\ F \cap T = {} /\ F \cap (T \cup K) = {} /\ "K" \notin F
  BY DEF T, F, K
<1>2. CASE key \in JsonKeys(table, T)
  BY <1>1, <1>2, TablesExist, JsonTablesGuard DEF JsonKeys, JsonFiltered, JsonGuards
<1>3. CASE key \in XmlKeys(table, T)
  BY <1>1, <1>3, TablesExist, XmlTablesGuard DEF XmlKeys, XmlFiltered, XmlGuards
<1> QED
  BY <1>2, <1>3

(* The two filters let the same fields of a table pass.                    *)
SameKeys(json, xml, wj, wx) ==
  {key \in DOMAIN json : ~JsonFiltered(json[key], wj)}
    = {key \in DOMAIN xml : ~XmlFiltered(xml[key], wx)}

(* The flags of the tables under the flags a parser is called with.        *)
LEMMA JsonFilters ==
  ASSUME NEW e
  PROVE  /\ e.flags = K => ~JsonFiltered(e, T) /\ ~JsonFiltered(e, F) /\ ~JsonFiltered(e, TF)
         /\ e.flags = T => ~JsonFiltered(e, T) /\ JsonFiltered(e, F) /\ ~JsonFiltered(e, TF)
         /\ e.flags = F => JsonFiltered(e, T) /\ ~JsonFiltered(e, F) /\ ~JsonFiltered(e, TF)
         /\ e.flags = TF => ~JsonFiltered(e, T) /\ ~JsonFiltered(e, F) /\ ~JsonFiltered(e, TF)
         /\ ~JsonFiltered(e, {})
  BY DEF JsonFiltered, T, F, TF, K

(* The same for the elements of XML.                                       *)
LEMMA XmlFilters ==
  /\ ~XmlFiltered(T, T) /\ ~XmlFiltered(T, TF)
  /\ XmlFiltered(F, T) /\ ~XmlFiltered(F, TF)
  /\ ~XmlFiltered(T \cup K, T) /\ ~XmlFiltered(T \cup K, TF)
  /\ ~XmlFiltered(Always, T) /\ ~XmlFiltered(Always, TF)
  BY DEF XmlFiltered, T, F, TF, K, Always

(* The flags of an entry are the ones it is given.                         *)
LEMMA EntryFlags ==
  ASSUME NEW f
  PROVE  /\ Str(f).flags = f /\ Num(f).flags = f /\ Bool(f).flags = f
         /\ StrArray(f).flags = f /\ NumArray(f).flags = f /\ ObjArray(f).flags = f
         /\ Object(f).flags = f /\ Empty(f).flags = f
  BY DEF Str, Num, Bool, StrArray, NumArray, ObjArray, Object, Empty

(* Flags of an entry and of an element that mean the same.                 *)
SameFlags(f, g) == \/ f = K /\ g = T \cup K
                   \/ f = T /\ g \in {T, Always}
                   \/ f = F /\ g = F

(* Tables of the same keys with such flags let the same fields pass.       *)
LEMMA SameFlagsPass ==
  ASSUME NEW j, NEW x, DOMAIN j = DOMAIN x,
         \A key \in DOMAIN j : SameFlags(j[key].flags, x[key])
  PROVE  SameKeys(j, x, T, T) /\ SameKeys(j, x, TF, TF)
<1>1. ASSUME NEW key \in DOMAIN j, NEW w \in {T, TF}
      PROVE  JsonFiltered(j[key], w) <=> XmlFiltered(x[key], w)
  <2>1. CASE j[key].flags = K /\ x[key] = T \cup K
    BY <1>1, <2>1, JsonFilters, XmlFilters
  <2>2. CASE j[key].flags = T /\ x[key] \in {T, Always}
    BY <1>1, <2>2, JsonFilters, XmlFilters
  <2>3. CASE j[key].flags = F /\ x[key] = F
    BY <1>1, <2>3, JsonFilters, XmlFilters
  <2> QED
    BY <2>1, <2>2, <2>3 DEF SameFlags
<1> QED
  BY <1>1 DEF SameKeys

(* The tables of one document agree: what the flags let pass in JSON, they *)
(* let pass in XML, for the object and for every object inside it, except  *)
(* in the functions of the task of a capability.                           *)
LEMMA TablesAgree ==
  ASSUME NEW t \in DOMAIN Parts, NEW w \in {T, TF}, t \in StateOnly => w = TF,
         NEW k \in Parts[t], NEW table \in TablesOf(k), t = "cap_task" => k = t
  PROVE  JsonKeys(table, JsonWhat(t, w)) = XmlKeys(table, w)
<1> DEFINE Alike(j, x) == SameKeys(j, x, T, T) /\ SameKeys(j, x, TF, TF)
<1>1. Alike(JsonAgent, XmlAgent)
  BY EntryFlags, SameFlagsPass DEF SameFlags, JsonAgent, XmlAgent
<1>2. Alike(JsonSuppression, XmlSuppression)
  BY EntryFlags, SameFlagsPass DEF SameFlags, JsonSuppression, XmlSuppression
<1>3. Alike(JsonSchedule, XmlSchedule)
  BY EntryFlags, SameFlagsPass DEF SameFlags, JsonSchedule, XmlSchedule
<1>4. Alike(JsonAction, XmlAction)
  BY EntryFlags, SameFlagsPass DEF SameFlags, JsonAction, XmlAction
<1>5. Alike(JsonEvent, XmlEvent)
  BY EntryFlags, SameFlagsPass DEF SameFlags, JsonEvent, XmlEvent
<1>6. Alike(JsonPeriodic, XmlPeriodic)
  BY EntryFlags, SameFlagsPass DEF SameFlags, JsonPeriodic, XmlPeriodic
<1>7. Alike(JsonCalendar, XmlCalendar)
  BY EntryFlags, SameFlagsPass DEF SameFlags, JsonCalendar, XmlCalendar
<1>8. Alike(JsonOneOff, XmlOneOff)
  BY EntryFlags, SameFlagsPass DEF SameFlags, JsonOneOff, XmlOneOff
<1>9. /\ Alike(JsonOption, XmlOption)
      /\ SameKeys(JsonOption, XmlOption, T, TF) /\ SameKeys(JsonOption, XmlOption, {}, TF)
  <2>1. Alike(JsonOption, XmlOption)
    BY EntryFlags, SameFlagsPass DEF SameFlags, JsonOption, XmlOption
  <2> QED
    BY <2>1, EntryFlags, JsonFilters, XmlFilters DEF SameKeys, JsonOption, XmlOption
<1>10. /\ Alike(JsonRegistry, XmlRegistry)
       /\ SameKeys(JsonRegistry, XmlRegistry, T, TF)
       /\ SameKeys(JsonRegistry, XmlRegistry, {}, TF)
  <2>1. Alike(JsonRegistry, XmlRegistry)
    BY EntryFlags, SameFlagsPass DEF SameFlags, JsonRegistry, XmlRegistry
  <2> QED
    BY <2>1, EntryFlags, JsonFilters, XmlFilters DEF SameKeys, JsonRegistry, XmlRegistry
<1>11. SameKeys(JsonTask, XmlTask, T, T) /\ SameKeys(JsonTask, XmlTask, T, TF)
  BY EntryFlags, JsonFilters, XmlFilters DEF SameKeys, JsonTask, XmlTask
<1>12. SameKeys(JsonTask, XmlCapabilityTask, F, TF)
  BY EntryFlags, JsonFilters, XmlFilters DEF SameKeys, JsonTask, XmlCapabilityTask
<1>13. SameKeys(JsonCapability, XmlCapability, TF, TF)
  BY EntryFlags, JsonFilters, XmlFilters DEF SameKeys, JsonCapability, XmlCapability
<1>14. /\ SameKeys(JsonRow, XmlRow, {}, TF) /\ SameKeys(JsonTable, XmlTable, {}, TF)
       /\ SameKeys(JsonResult, XmlResult, {}, TF)
  BY EntryFlags, JsonFilters, XmlFilters
     DEF SameKeys, JsonRow, XmlRow, JsonTable, XmlTable, JsonResult, XmlResult
<1>15. SameKeys(JsonTab[table], XmlTab[table], JsonWhat(t, w), w)
  <2> HIDE DEF Alike
  <2>1. CASE t = "task"
    <3>1. JsonWhat(t, w) = T
      BY <2>1 DEF JsonWhat, T, F, TF
    <3>2. k \in {"task", "registry", "option"} /\ table = k
      BY <2>1 DEF Parts, TablesOf
    <3> QED
      BY <3>1, <3>2, <1>9, <1>10, <1>11 DEF Alike, JsonTab, XmlTab
  <2>2. CASE t = "cap_task"
    <3>1. JsonWhat(t, w) = F /\ w = TF
      BY <2>2 DEF JsonWhat, T, F, TF, StateOnly
    <3>2. table = "cap_task"
      BY <2>2 DEF TablesOf
    <3> QED
      BY <3>1, <3>2, <1>12 DEF JsonTab, XmlTab
  <2>3. CASE t = "result"
    <3>1. JsonWhat(t, w) = {} /\ w = TF
      BY <2>3 DEF JsonWhat, StateOnly
    <3>2. k \in {"result", "option", "table", "registry", "row"} /\ table = k
      BY <2>3 DEF Parts, TablesOf
    <3> QED
      BY <3>1, <3>2, <1>9, <1>10, <1>14 DEF JsonTab, XmlTab
  <2>4. CASE t = "capability"
    <3>1. JsonWhat(t, w) = TF /\ w = TF
      BY <2>4 DEF JsonWhat, StateOnly
    <3>2. table = "capability"
      BY <2>4 DEF Parts, TablesOf
    <3> QED
      BY <3>1, <3>2, <1>13 DEF JsonTab, XmlTab
  <2>5. CASE t \notin {"task", "cap_task", "result", "capability"}
    <3>1. JsonWhat(t, w) = w
      BY <2>5 DEF JsonWhat
    <3>2. table \in {"agent", "registry", "option", "supp", "event", "periodic", "calendar",
                     "one_off", "schedule", "action"}
      BY <2>5 DEF Parts, TablesOf
    <3>3. Alike(JsonTab[table], XmlTab[table])
      BY <3>2, <1>1, <1>2, <1>3, <1>4, <1>5, <1>6, <1>7, <1>8, <1>9, <1>10 DEF JsonTab, XmlTab
    <3> QED
      BY <3>1, <3>3 DEF Alike
  <2> QED
    BY <2>1, <2>2, <2>3, <2>4, <2>5
<1> QED
  BY <1>15 DEF SameKeys, JsonKeys, XmlKeys

-----------------------------------------------------------------------------
(* The steps of the parsers                                                *)

(* The document, and the kinds of objects in it.                           *)
TypeOK ==
  /\ top \in DOMAIN Parts /\ what \in {T, TF}
  /\ top \in StateOnly => what = TF
  /\ read = [k \in Parts[top] |-> read[k]]

(* What JSON accepted, XML has read the same, also inside the object.  The *)
(* functions of the task of a capability are the exception: JSON filters   *)
(* their fields, so none has the key without which no list takes it.       *)
Agreement ==
  /\ \A k \in Parts[top] : \A r \in read[k] :
       (top = "cap_task" => k = top) /\ r.ok => r.json = r.xml
  /\ top = "cap_task" => \A r \in read["registry"] : r.json["uri"] = <<>>

(* The pairs that were read are all kept, and one is added.                *)
LEMMA AddsOne ==
  ASSUME TypeOK, NEW k \in Parts[top], NEW n, Adds(k, n)
  PROVE  /\ TypeOK' /\ top' = top /\ what' = what
         /\ \A x \in Parts[top] : read'[x] = read[x] \cup (IF x = k THEN {n} ELSE {})
  BY DEF TypeOK, Adds

(* Lists of objects that were read stay lists of such objects.             *)
LEMMA ShapeStays ==
  ASSUME TypeOK, NEW k \in Parts[top], NEW n, Adds(k, n),
         NEW x \in Parts[top], NEW object, Shape(x, object)
  PROVE  Shape(x, object)'
<1>1. \A y \in Parts[top] : Built(y) \subseteq Built(y)'
  BY AddsOne DEF Built
<1>2. ASSUME NEW l \in DOMAIN Leaves[x]
      PROVE  Elements(Leaves[x][l]) \subseteq Elements(Leaves[x][l])'
  BY <1>1, PartsClosed DEF Elements, HoldsOnly, TypeOK
<1>3. \A A, B : A \subseteq B => Seq(A) \subseteq Seq(B)
  OBVIOUS
<1>4. ASSUME NEW l \in DOMAIN Leaves[x], Leaves[x][l].mode \in Lists
      PROVE  object[l] \in Seq(Elements(Leaves[x][l]))'
  <2> DEFINE A == Elements(Leaves[x][l])
             B == Elements(Leaves[x][l])'
  <2>1. object[l] \in Seq(A)
    BY <1>4 DEF Shape
  <2>2. A \subseteq B
    BY <1>2
  <2> HIDE DEF A, B
  <2>3. object[l] \in Seq(B)
    BY <2>1, <2>2, <1>3
  <2> QED
    BY <2>3 DEF B
<1> QED
  BY <1>4 DEF Shape

(* A sound object: what the parsers keep true of each one they read.       *)
Sound(k, object) ==
  /\ Shape(k, object) /\ WellFormed(k, object)
  /\ what = T => Pristine(k, object)

(* If the pair that is added is sound, all still are.                      *)
LEMMA AllStaySound ==
  ASSUME TypeOK, AllWellFormed, NoStateSet, NEW k \in Parts[top], NEW n, Adds(k, n),
         Sound(k, n.json), Sound(k, n.xml)
  PROVE  TypeOK' /\ AllWellFormed' /\ NoStateSet'
<1>1. /\ TypeOK' /\ top' = top /\ what' = what
      /\ \A x \in Parts[top] : read'[x] = read[x] \cup (IF x = k THEN {n} ELSE {})
  BY AddsOne
<1>2. ASSUME NEW x \in Parts[top], NEW object \in Built(x)'
      PROVE  /\ Shape(x, object)' /\ WellFormed(x, object)
             /\ what = T => Pristine(x, object)
  <2>1. object \in Built(x) \/ (x = k /\ object \in {n.json, n.xml})
    BY <1>1 DEF Built
  <2>2. Sound(x, object)
    BY <2>1 DEF AllWellFormed, NoStateSet, Sound
  <2>3. Shape(x, object)'
    BY <2>2, ShapeStays DEF Sound
  <2> QED
    BY <2>2, <2>3 DEF Sound
<1>3. AllWellFormed'
  BY <1>1, <1>2 DEF AllWellFormed
<1>4. NoStateSet'
  BY <1>1, <1>2 DEF NoStateSet
<1> QED
  BY <1>1, <1>3, <1>4

(* The objects of a pair that was read are sound.                          *)
LEMMA ReadIsSound ==
  ASSUME AllWellFormed, NoStateSet, NEW k \in Parts[top], NEW r \in read[k]
  PROVE  Sound(k, r.json) /\ Sound(k, r.xml)
  BY DEF AllWellFormed, NoStateSet, Built, Sound

(* What a field gives a leaf is one of the elements the leaf can have.     *)
LEMMA GivenIsElement ==
  ASSUME NEW leaf, NEW c \in Given(leaf)
  PROVE  c.json \in Elements(leaf) /\ c.xml \in Elements(leaf)
  BY DEF Given, Elements, Built

(* In a configuration both parsers filter with the same flags.             *)
LEMMA ConfigWhat ==
  ASSUME TypeOK, what = T
  PROVE  JsonWhat(top, what) = T
<1>1. T # TF
  BY DEF T, TF
<1>2. top \notin {"cap_task", "result"}
  BY <1>1 DEF TypeOK, StateOnly
<1> QED
  BY <1>2 DEF JsonWhat, T, F

(* A setter that a filter lets pass makes a sound object of a sound one.   *)
LEMMA PutIsSound ==
  ASSUME TypeOK, NEW k \in Parts[top], NEW table \in TablesOf(k), NEW key,
         LeafOf(key) \in DOMAIN Leaves[k],
         key \in JsonKeys(table, JsonWhat(top, what)) \cup XmlKeys(table, what),
         NEW object, Sound(k, object), NEW item \in Elements(Leaves[k][LeafOf(key)])
  PROVE  Sound(k, Put(k, object, LeafOf(key), item).object)
<1>1. k \in DOMAIN Leaves
  BY PartsAreKinds DEF TypeOK
<1>2. what = T => LeafOf(key) \notin Operational
  BY ConfigWhat, ConfigFilter DEF TypeOK
<1> DEFINE leaf == LeafOf(key)
           new  == Put(k, object, leaf, item).object
<1>3. Shape(k, new) /\ WellFormed(k, new)
  BY <1>1, PutKeeps DEF Sound
<1>4. what = T => Pristine(k, new)
  BY <1>1, <1>2, PutKeepsPristine DEF Sound
<1> QED
  BY <1>3, <1>4 DEF Sound

(* So the XML parser makes a sound object of a sound one.                  *)
LEMMA XmlIsSound ==
  ASSUME TypeOK, AllWellFormed, NoStateSet, NEW k \in Parts[top], NEW r \in read[k],
         NEW table \in TablesOf(k), NEW key \in LeafKeys(k, table),
         NEW c \in Given(Leaves[k][LeafOf(key)])
  PROVE  Sound(k, XmlAt(k, r, table, key, c))
<1>1. Sound(k, r.xml) /\ LeafOf(key) \in DOMAIN Leaves[k]
  BY ReadIsSound DEF LeafKeys
<1>2. c.xml \in Elements(Leaves[k][LeafOf(key)])
  BY GivenIsElement
<1>3. CASE key \in XmlKeys(table, what)
  BY <1>1, <1>2, <1>3, PutIsSound DEF XmlAt
<1>4. CASE key \notin XmlKeys(table, what)
  BY <1>1, <1>4 DEF XmlAt
<1> QED
  BY <1>3, <1>4

(* What one field adds: two sound objects, and the same one if JSON has    *)
(* accepted everything.                                                    *)
LEMMA FieldAdds ==
  ASSUME TypeOK, AllWellFormed, NoStateSet, Agreement,
         NEW k \in Parts[top], NEW r \in read[k], NEW table \in TablesOf(k),
         NEW key \in LeafKeys(k, table), NEW c \in Given(Leaves[k][LeafOf(key)]),
         \/ JsonRefuses(k, r, table, key, c)
         \/ JsonSkips(k, r, table, key, c)
         \/ JsonSets(k, r, table, key, c)
  PROVE  \E n : /\ Adds(k, n) /\ Sound(k, n.json) /\ Sound(k, n.xml)
                /\ (top = "cap_task" => k = top) /\ n.ok => n.json = n.xml
                /\ top = "cap_task" /\ k = "registry" => n.json["uri"] = <<>>
<1> DEFINE x    == XmlAt(k, r, table, key, c)
           p    == Put(k, r.json, LeafOf(key), c.json)
           wj   == JsonWhat(top, what)
           leaf == Leaves[k][LeafOf(key)]
<1>1. Sound(k, x) /\ Sound(k, r.json)
  BY XmlIsSound, ReadIsSound
<1>2. (top = "cap_task" => k = top) => JsonKeys(table, wj) = XmlKeys(table, what)
  BY TablesAgree DEF TypeOK
<1>3. /\ (top = "cap_task" => k = top) /\ r.ok => r.json = r.xml
      /\ top = "cap_task" /\ k = "registry" => r.json["uri"] = <<>>
  BY DEF Agreement
<1>4. LeafOf(key) \in DOMAIN Leaves[k]
  BY DEF LeafKeys
<1>5. CASE JsonRefuses(k, r, table, key, c)
  <2> DEFINE n == [ok |-> FALSE, json |-> r.json, xml |-> x]
  <2>1. Adds(k, n)
    BY <1>5 DEF JsonRefuses
  <2>2. n.json = r.json /\ n.xml = x /\ n.ok = FALSE
    OBVIOUS
  <2> HIDE DEF n, x
  <2> QED
    BY <1>1, <1>3, <2>1, <2>2
<1>6. CASE JsonSkips(k, r, table, key, c)
  <2> DEFINE n == [ok |-> r.ok, json |-> r.json, xml |-> x]
  <2>1. Adds(k, n) /\ key \notin JsonKeys(table, wj)
    BY <1>6 DEF JsonSkips
  <2>2. n.json = r.json /\ n.xml = x /\ n.ok = r.ok
    OBVIOUS
  <2>3. (top = "cap_task" => k = top) => x = r.xml
    BY <2>1, <1>2 DEF XmlAt
  <2> HIDE DEF n, x
  <2> QED
    BY <1>1, <1>3, <2>1, <2>2, <2>3
<1>7. CASE JsonSets(k, r, table, key, c)
  <2> DEFINE n == [ok |-> p.ok, json |-> p.object, xml |-> x]
  <2>1. Adds(k, n) /\ r.ok /\ c.ok /\ key \in JsonKeys(table, wj)
    BY <1>7 DEF JsonSets
  <2>2. n.json = p.object /\ n.xml = x /\ n.ok = p.ok
    OBVIOUS
  <2>3. Sound(k, p.object)
    BY <1>1, <1>4, <2>1, PutIsSound, GivenIsElement
  <2>4. ~(top = "cap_task" /\ k = "registry")
    <3> SUFFICES ASSUME top = "cap_task", k = "registry"
                 PROVE  FALSE
      OBVIOUS
    <3>1. what = TF /\ table = "registry"
      BY DEF TypeOK, StateOnly, TablesOf
    <3>2. wj = F
      BY <3>1 DEF JsonWhat, T, F, TF
    <3>3. \A y \in DOMAIN JsonRegistry : JsonRegistry[y].flags = T
      BY EntryFlags DEF JsonRegistry
    <3>4. JsonKeys("registry", F) = {}
      BY <3>3, JsonFilters DEF JsonKeys, JsonTab
    <3> QED
      BY <2>1, <3>1, <3>2, <3>4
  <2>5. ASSUME top = "cap_task" => k = top, p.ok
        PROVE  c.json = c.xml
    <3>1. CASE leaf.mode # "kids"
      BY <3>1 DEF Given
    <3>2. CASE leaf.mode = "kids"
      <4>1. leaf.kind \in Parts[top] /\ c \in read[leaf.kind]
        BY <1>4, <3>2, PartsClosed DEF HoldsOnly, TypeOK, Given
      <4>2. CASE top # "cap_task"
        BY <4>1, <4>2, <2>1 DEF Agreement
      <4>3. CASE top = "cap_task"
        <5>1. what = TF /\ k = "cap_task" /\ table = "cap_task"
          BY <4>3, <2>5 DEF TypeOK, StateOnly, TablesOf
        <5>2. wj = F
          BY <4>3, <5>1 DEF JsonWhat, T, F, TF
        <5>3. JsonFiltered(JsonTask["option"], F)
          BY EntryFlags, JsonFilters DEF JsonTask
        <5>4. key # "option" /\ key \in DOMAIN JsonTask
          BY <2>1, <5>1, <5>2, <5>3 DEF JsonKeys, JsonTab
        <5>5. leaf = TaskLeaves[key] /\ key # "time" /\ key \in DOMAIN TaskLeaves
          BY <5>1, <5>4 DEF LeafOf, JsonTask, Leaves, TaskLeaves
        <5>6. leaf.kind = "registry"
          BY <3>2, <5>4, <5>5, TaskFunctions DEF HoldsOnly
        <5>7. c.json["uri"] = <<>>
          BY <4>1, <4>3, <5>6 DEF Agreement
        <5>8. "registry" \in DOMAIN KeyOf /\ KeyOf["registry"] = "uri"
          BY DEF KeyOf
        <5>9. ~AddKeyed("registry", r.json[LeafOf(key)], c.json)
          BY <5>7, <5>8 DEF AddKeyed
        <5>10. ~p.ok
          BY <3>2, <5>6, <5>8, <5>9 DEF Put
        <5> QED
          BY <2>5, <5>10
      <4> QED
        BY <4>2, <4>3
    <3> QED
      BY <3>1, <3>2
  <2>6. ASSUME top = "cap_task" => k = top, p.ok
        PROVE  p.object = x
    <3>1. r.json = r.xml /\ c.json = c.xml /\ key \in XmlKeys(table, what)
      BY <1>2, <1>3, <2>1, <2>5, <2>6
    <3> QED
      BY <3>1 DEF XmlAt
  <2> HIDE DEF n, x, p
  <2> QED
    BY <1>1, <2>1, <2>2, <2>3, <2>4, <2>6
<1> QED
  BY <1>5, <1>6, <1>7

(* The invariant                                                           *)
Inv == TypeOK /\ AllWellFormed /\ NoStateSet /\ Agreement

(* A new pair that agrees leaves all of them in agreement.                 *)
LEMMA AgreementStays ==
  ASSUME TypeOK, Agreement, NEW k \in Parts[top], NEW n, Adds(k, n),
         (top = "cap_task" => k = top) /\ n.ok => n.json = n.xml,
         top = "cap_task" /\ k = "registry" => n.json["uri"] = <<>>
  PROVE  Agreement'
<1>1. /\ top' = top
      /\ \A x \in Parts[top] : read'[x] = read[x] \cup (IF x = k THEN {n} ELSE {})
  BY AddsOne
<1>2. top = "cap_task" => "registry" \in Parts[top]
  BY DEF Parts
<1> QED
  BY <1>1, <1>2 DEF Agreement

(* Each field keeps the invariant.                                         *)
LEMMA FieldStep ==
  ASSUME Inv, Field
  PROVE  Inv'
<1>1. PICK k \in Parts[top] : \E r \in read[k], table \in TablesOf(k) :
        \E key \in LeafKeys(k, table) : \E c \in Given(Leaves[k][LeafOf(key)]) :
          \/ JsonRefuses(k, r, table, key, c)
          \/ JsonSkips(k, r, table, key, c)
          \/ JsonSets(k, r, table, key, c)
  BY DEF Field
<1>2. PICK n : /\ Adds(k, n) /\ Sound(k, n.json) /\ Sound(k, n.xml)
               /\ (top = "cap_task" => k = top) /\ n.ok => n.json = n.xml
               /\ top = "cap_task" /\ k = "registry" => n.json["uri"] = <<>>
  BY <1>1, FieldAdds DEF Inv
<1>3. TypeOK' /\ AllWellFormed' /\ NoStateSet'
  BY <1>2, AllStaySound DEF Inv
<1>4. Agreement'
  BY <1>2, AgreementStays DEF Inv
<1> QED
  BY <1>3, <1>4 DEF Inv

(* So does the type of an event.                                           *)
LEMMA EventTypeStep ==
  ASSUME Inv, EventType
  PROVE  Inv'
<1> DEFINE Step(k, r, t) ==
      \/ Adds(k, [ok |-> FALSE, json |-> r.json, xml |-> Typed(r.xml, t)])
      \/ Adds(k, [ok |-> r.ok, json |-> Typed(r.json, t), xml |-> Typed(r.xml, t)])
<1>0. PICK k \in Parts[top] \cap {"event"} : \E r \in read[k], t \in EventTypes : Step(k, r, t)
  BY DEF EventType
<1>1. PICK r \in read[k], t \in EventTypes : Step(k, r, t)
  BY <1>0
<1>2. k = "event" /\ k \in Parts[top] /\ top # "cap_task"
  BY DEF Parts
<1>3. Sound(k, r.json) /\ Sound(k, r.xml)
  BY <1>2, ReadIsSound DEF Inv
<1>4. Sound(k, Typed(r.json, t)) /\ Sound(k, Typed(r.xml, t))
  BY <1>2, <1>3, TypedKeeps DEF Sound
<1>5. r.ok => r.json = r.xml
  BY <1>2 DEF Inv, Agreement
<1>6. \E n : /\ Adds(k, n) /\ Sound(k, n.json) /\ Sound(k, n.xml)
             /\ n.ok => n.json = n.xml
  <2> DEFINE a == [ok |-> FALSE, json |-> r.json, xml |-> Typed(r.xml, t)]
             b == [ok |-> r.ok, json |-> Typed(r.json, t), xml |-> Typed(r.xml, t)]
  <2>1. /\ a.ok = FALSE /\ a.json = r.json /\ a.xml = Typed(r.xml, t)
        /\ b.ok = r.ok /\ b.json = Typed(r.json, t) /\ b.xml = Typed(r.xml, t)
    OBVIOUS
  <2>2. Adds(k, a) \/ Adds(k, b)
    BY <1>1
  <2> HIDE DEF a, b
  <2> QED
    BY <1>3, <1>4, <1>5, <2>1, <2>2
<1>7. PICK n : /\ Adds(k, n) /\ Sound(k, n.json) /\ Sound(k, n.xml)
               /\ n.ok => n.json = n.xml
  BY <1>6
<1>8. TypeOK' /\ AllWellFormed' /\ NoStateSet'
  BY <1>2, <1>7, AllStaySound DEF Inv
<1>9. Agreement'
  BY <1>2, <1>7, AgreementStays DEF Inv
<1> QED
  BY <1>8, <1>9 DEF Inv

(* A new object has empty lists, no end, and no state that was set.        *)
LEMMA NewIsSound ==
  ASSUME NEW k \in DOMAIN Leaves
  PROVE  Sound(k, New(k))
<1>1. /\ New(k) = [l \in DOMAIN Leaves[k] |-> New(k)[l]]
      /\ \A l \in DOMAIN Leaves[k] : New(k)[l] = Leaves[k][l].new
  BY DEF New
<1>2. \A l \in DOMAIN Leaves[k] : Leaves[k][l].mode \in Lists => New(k)[l] = <<>>
  BY <1>1, ListsStartEmpty DEF StartsEmpty
<1>3. Shape(k, New(k))
  <2>1. \A S : <<>> \in Seq(S)
    OBVIOUS
  <2> QED
    BY <1>1, <1>2, <2>1 DEF Shape
<1>4. EndXorDuration(k, New(k))
  BY <1>1, ScheduleTable DEF EndXorDuration
<1>5. WellFormed(k, New(k))
  BY <1>2, <1>4 DEF WellFormed, Lists, Distinct, Keyed
<1>6. Pristine(k, New(k))
  BY <1>1 DEF Pristine
<1> QED
  BY <1>3, <1>5, <1>6 DEF Sound

(* All objects are new at the start.                                       *)
LEMMA InitInv ==
  ASSUME Init
  PROVE  Inv
<1>1. TypeOK
  BY DEF Init, TypeOK
<1>2. \A k \in Parts[top] : \A r \in read[k] : r.json = New(k) /\ r.xml = New(k)
  BY DEF Init
<1>3. \A k \in Parts[top] : \A object \in Built(k) : object = New(k)
  BY <1>2 DEF Built
<1>4. \A k \in Parts[top] : k \in DOMAIN Leaves
  BY <1>1, PartsAreKinds DEF TypeOK
<1>5. \A k \in Parts[top] : \A object \in Built(k) : Sound(k, object)
  BY <1>3, <1>4, NewIsSound
<1>6. AllWellFormed /\ NoStateSet
  BY <1>5 DEF AllWellFormed, NoStateSet, Sound
<1>7. New("registry")["uri"] = <<>>
  BY DEF New, Leaves, RegistryLeaves, Opt
<1>8. top = "cap_task" => "registry" \in Parts[top]
  BY DEF Parts
<1>9. Agreement
  BY <1>2, <1>7, <1>8 DEF Agreement
<1> QED
  BY <1>1, <1>6, <1>9 DEF Inv

(* The invariant holds of every document that is being read.               *)
LEMMA Invariance == Spec => []Inv
<1>1. Inv /\ [Field \/ EventType]_vars => Inv'
  <2>1. CASE Field
    BY <2>1, FieldStep
  <2>2. CASE EventType
    BY <2>2, EventTypeStep
  <2>3. CASE Inv /\ UNCHANGED vars
    <3>1. top' = top /\ what' = what /\ read' = read
      BY <2>3 DEF vars
    <3>2. \A k : Built(k)' = Built(k)
      BY <3>1 DEF Built
    <3>3. \A k, object : Shape(k, object) => Shape(k, object)'
      BY <3>2 DEF Shape, Elements
    <3>4. TypeOK' /\ Agreement'
      BY <2>3, <3>1 DEF Inv, TypeOK, Agreement
    <3>5. AllWellFormed' /\ NoStateSet'
      BY <2>3, <3>1, <3>2, <3>3 DEF Inv, AllWellFormed, NoStateSet
    <3> QED
      BY <3>4, <3>5 DEF Inv
  <2> QED
    BY <2>1, <2>2, <2>3
<1> QED
  BY <1>1, InitInv, PTL DEF Spec

(* Whatever fields a document has, in whatever order, nested how deep, and *)
(* whatever texts the setters of data.c refuse: in neither format does the *)
(* parser leave a schedule with an end and a duration, a tag or a key      *)
(* twice in a list, or an object without its key in a list that is         *)
(* searched by it, in the object or in any object inside it.               *)
THEOREM ParsersKeepWellFormed == Spec => []AllWellFormed
<1>1. Inv => AllWellFormed
  BY DEF Inv
<1> QED
  BY <1>1, Invariance, PTL

(* No configuration, in whichever format, sets a counter, a state or any   *)
(* other leaf that only the running daemon sets, at any depth: the filter  *)
(* flags of all tables of json-io.c and xml-io.c see to it.                *)
THEOREM ConfigurationsSetNoState == Spec => []NoStateSet
<1>1. Inv => NoStateSet
  BY DEF Inv
<1> QED
  BY <1>1, Invariance, PTL

(* A document that the JSON parser accepts as a whole is read by the XML   *)
(* parser as the same object, however the fields are nested: the tables,   *)
(* filters and setters of the two agree.                                   *)
THEOREM AcceptedInBothFormats == Spec => []SameObject
<1>1. Inv => SameObject
  BY PartsAreKinds DEF Inv, TypeOK, Agreement, SameObject
<1> QED
  BY <1>1, Invariance, PTL
=============================================================================
