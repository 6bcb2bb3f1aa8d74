------------------------------ MODULE MCConfig ------------------------------
(***************************************************************************)
(* Config with two files in the configured path, with up to two objects    *)
(* and one, and a file with one in the capability path.  The objects are   *)
(* from a set in which names are defined twice, references may dangle and  *)
(* schedules refer to each other.                                          *)
(***************************************************************************)
EXTENDS Config, TLC

CONSTANTS f1, f2, f3

MCPaths == <<{f1, f2}, {f3}>>

Event(name, ok)     == [list |-> "events", object |-> [name |-> name, ok |-> ok]]
Task(name, program) == [list |-> "tasks", object |-> [name |-> name, program |-> program]]
Supp(name, start)   == [list |-> "supps", object |-> [name |-> name, start |-> start, end |-> "e1"]]
Schedule(name, start, dests) ==
  [list |-> "schedules",
   object |-> [name |-> name, start |-> start, end |-> Null,
               actions |-> {[task |-> "t1", destinations |-> dests]}]]
AgentLeaf(leaf, value) == [list |-> "agent", leaf |-> leaf, value |-> value]

MCEntries == {
  Event("e1", TRUE), Event("e1", FALSE), Event("e2", TRUE), Event(Null, TRUE),
  Task("t1", "prog"), Task("t1", Null),
  Supp("p1", "e2"), Supp("p1", Null),
  Schedule("s1", "e1", {}), Schedule("s1", Null, {}), Schedule("s2", "e1", {"s1"}),
  AgentLeaf("agent_id", "id"), AgentLeaf("report_agent_id", TRUE),
  AgentLeaf("report_agent_id", FALSE)}

Docs(n) == {<<Broken>>} \cup UNION {[1..k -> MCEntries] : k \in 0..n}

MCConfigs ==
  {f1 :> d1 @@ f2 :> d2 @@ f3 :> d3 : d1 \in Docs(2), d2 \in Docs(1), d3 \in Docs(1)}
=============================================================================
