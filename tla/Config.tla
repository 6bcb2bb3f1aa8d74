------------------------------- MODULE Config -------------------------------
(***************************************************************************)
(* How a configuration comes together: read_config() goes through the      *)
(* configured paths and then the capability path, the parsers go through   *)
(* the files of a path in the order of readdir(), every object of a file   *)
(* is added to its list of struct lmap (src/src/data.c), and lmap_valid()  *)
(* judges the result.  What one object is read as is the subject of        *)
(* Documents; here a file is the sequence of the objects in it.            *)
(***************************************************************************)
EXTENDS Integers, Sequences

CONSTANTS
  Null,    \* a leaf that is not set
  Paths,   \* the sequence of paths, each a set of files; the capability path is last
  Configs, \* the possible contents of the files
  Broken   \* in a file: what the parser cannot read

Lists  == {"schedules", "supps", "tasks", "events"}

(* The leaves of the agent that have a leaf saying whether to report them. *)
ReportOf == [agent_id |-> "report_agent_id", group_id |-> "report_group_id",
             measurement_point |-> "report_measurement_point"]
Leaves == DOMAIN ReportOf \cup {ReportOf[a] : a \in DOMAIN ReportOf}

Files == UNION {Paths[i] : i \in DOMAIN Paths}

Elements(s) == {s[i] : i \in DOMAIN s}

(* A file holds objects for the lists, and leaves of the agent.            *)
IsEntry(e) ==
  \/ e = Broken
  \/ e # Broken /\ e.list \in Lists
  \/ e # Broken /\ e.list = "agent" /\ e.leaf \in Leaves /\ e.value # Null

ASSUME ConfigAssumption ==
  /\ Paths \in Seq(SUBSET Files) /\ Paths # <<>> /\ Null # TRUE
  /\ \A c \in Configs : \A f \in Files :
       c[f] \in Seq(Elements(c[f])) /\ \A e \in Elements(c[f]) : IsEntry(e)

VARIABLES
  docs,    \* the contents of the files
  lists,   \* the lists of struct lmap
  agent,   \* the leaves of struct agent
  path,    \* the path being read
  unread,  \* its files that readdir() has not returned yet
  rest,    \* what is left of the file being read
  at       \* "read", and then how read_config() and lmap_valid() end

vars == <<docs, lists, agent, path, unread, rest, at>>

Init ==
  /\ docs \in Configs
  /\ lists = [l \in Lists |-> <<>>]
  /\ agent = [a \in Leaves |-> Null]
  /\ path = 1 /\ unread = Paths[1]
  /\ rest = <<>> /\ at = "read"

(* The next file of the path, in the order of readdir().                   *)
OpenFile(f) ==
  /\ at = "read" /\ rest = <<>> /\ f \in unread
  /\ unread' = unread \ {f}
  /\ rest' = docs[f]
  /\ UNCHANGED <<docs, lists, agent, path, at>>

(* Mutant of Named: only the head of the list is compared with.            *)
NamedAtHead(list, name) == list # <<>> /\ list[1].name = name

(* A list that has an object of this name: lmap_find_event(),              *)
(* lmap_find_task(), lmap_find_schedule() and the loops of lmap_add_...(). *)
Named(list, name) == \E i \in DOMAIN list : list[i].name = name

(* lmap_add_schedule(), lmap_add_supp(), lmap_add_task(), lmap_add_event():*)
(* an object without a name and a second one of a name are refused, which  *)
(* none of the parsers takes notice of.                                    *)
Added(list, object) ==
  IF object.name = Null \/ Named(list, object.name) THEN list ELSE Append(list, object)

(* The next object of the file.                                            *)
AddObject ==
  /\ at = "read" /\ rest # <<>> /\ Head(rest) # Broken /\ Head(rest).list \in Lists
  /\ lists' = [lists EXCEPT ![Head(rest).list] = Added(@, Head(rest).object)]
  /\ rest' = Tail(rest)
  /\ UNCHANGED <<docs, agent, path, unread, at>>

(* The next leaf of the agent, which takes the place of an earlier one.    *)
SetAgent ==
  /\ at = "read" /\ rest # <<>> /\ Head(rest) # Broken /\ Head(rest).list = "agent"
  /\ agent' = [agent EXCEPT ![Head(rest).leaf] = Head(rest).value]
  /\ rest' = Tail(rest)
  /\ UNCHANGED <<docs, lists, path, unread, at>>

(* A file that cannot be read ends read_config(), which frees the lmap.    *)
Fail ==
  /\ at = "read" /\ rest # <<>> /\ Head(rest) = Broken
  /\ lists' = [l \in Lists |-> <<>>]
  /\ agent' = [a \in Leaves |-> Null]
  /\ rest' = <<>> /\ unread' = {} /\ at' = "failed"
  /\ UNCHANGED <<docs, path>>

(* The next of the configured paths; the capability path is the last.      *)
NextPath ==
  /\ at = "read" /\ rest = <<>> /\ unread = {} /\ path < Len(Paths)
  /\ path' = path + 1 /\ unread' = Paths[path + 1]
  /\ UNCHANGED <<docs, lists, agent, rest, at>>

(***************************************************************************)
(* lmap_valid().  Validation of a single event is in Events.               *)
(***************************************************************************)
AgentValid == \A a \in DOMAIN ReportOf : agent[ReportOf[a]] = TRUE => agent[a] # Null

SuppValid(s) ==
  /\ s.start # Null => Named(lists.events, s.start)
  /\ s.end # Null => Named(lists.events, s.end)

TaskValid(t) == t.program # Null

ActionValid(a) ==
  /\ a.task # Null /\ Named(lists.tasks, a.task)
  /\ \A d \in a.destinations : Named(lists.schedules, d)

ScheduleValid(s) ==
  /\ s.start # Null /\ Named(lists.events, s.start)
  /\ s.end # Null => Named(lists.events, s.end)
  /\ \A a \in s.actions : ActionValid(a)

(* Mutant of LmapValid: a verdict that only the last schedule decides.     *)
LmapValidLast ==
  /\ AgentValid
  /\ \A i \in DOMAIN lists.supps : SuppValid(lists.supps[i])
  /\ \A i \in DOMAIN lists.tasks : TaskValid(lists.tasks[i])
  /\ \A i \in DOMAIN lists.events : lists.events[i].ok
  /\ lists.schedules # <<>> => ScheduleValid(lists.schedules[Len(lists.schedules)])

LmapValid ==
  /\ AgentValid
  /\ \A i \in DOMAIN lists.supps : SuppValid(lists.supps[i])
  /\ \A i \in DOMAIN lists.tasks : TaskValid(lists.tasks[i])
  /\ \A i \in DOMAIN lists.events : lists.events[i].ok
  /\ \A i \in DOMAIN lists.schedules : ScheduleValid(lists.schedules[i])

Validate ==
  /\ at = "read" /\ rest = <<>> /\ unread = {} /\ path = Len(Paths)
  /\ at' = IF LmapValid THEN "valid" ELSE "invalid"
  /\ UNCHANGED <<docs, lists, agent, path, unread, rest>>

Next ==
  \/ \E f \in unread : OpenFile(f)
  \/ AddObject \/ SetAgent \/ Fail \/ NextPath \/ Validate

Spec == Init /\ [][Next]_vars

-----------------------------------------------------------------------------

(* No two objects of a list have the same name and none is without one,    *)
(* however the definitions are spread over files and in whatever order     *)
(* these are read: the name by which events, tasks and destinations are    *)
(* referred to means one object.                                           *)
UniqueNames ==
  \A l \in Lists : \A i \in DOMAIN lists[l] :
    /\ lists[l][i].name # Null
    /\ \A j \in DOMAIN lists[l] : lists[l][i].name = lists[l][j].name => i = j

(* What the files define, whichever order they are read in.                *)
Entries == UNION {Elements(docs[f]) : f \in Files}
Defined(l) == {e.object : e \in {x \in Entries \ {Broken} : x.list = l}}
NamedIn(l) == {o \in Defined(l) : o.name # Null}
Agent == {e \in Entries \ {Broken} : e.list = "agent"}

(* No file contradicts another one, or itself.                             *)
NoConflict ==
  /\ \A l \in Lists : \A o, p \in NamedIn(l) : o.name = p.name => o = p
  /\ \A r, q \in Agent : r.leaf = q.leaf => r = q

(* The verdict on a set of definitions.                                    *)
Consistent ==
  LET has(l, name) == \E o \in NamedIn(l) : o.name = name
      event(name)  == name = Null \/ has("events", name)
  IN /\ \A a \in DOMAIN ReportOf :
          (\E r \in Agent : r.leaf = ReportOf[a] /\ r.value = TRUE)
            => \E r \in Agent : r.leaf = a
     /\ \A o \in NamedIn("events") : o.ok
     /\ \A o \in NamedIn("tasks") : o.program # Null
     /\ \A o \in NamedIn("supps") : event(o.start) /\ event(o.end)
     /\ \A o \in NamedIn("schedules") :
          /\ o.start # Null /\ event(o.start) /\ event(o.end)
          /\ \A a \in o.actions : has("tasks", a.task) /\ \A d \in a.destinations : has("schedules", d)

(* The order in which readdir() returns the files does not matter: all     *)
(* names that are defined somewhere are defined in the end; and unless two *)
(* definitions of one name differ, the lists hold just what the files      *)
(* define and the verdict is that on the set of all definitions.           *)
OrderIrrelevant ==
  at \in {"valid", "invalid"} =>
    /\ \A l \in Lists : {o.name : o \in Elements(lists[l])} = {o.name : o \in NamedIn(l)}
    /\ NoConflict =>
         /\ \A l \in Lists : Elements(lists[l]) = NamedIn(l)
         /\ at = "valid" <=> Consistent
=============================================================================
