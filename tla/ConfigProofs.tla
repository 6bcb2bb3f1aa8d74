---------------------------- MODULE ConfigProofs ----------------------------
(***************************************************************************)
(* Proofs about Config, for any number of paths and files and any contents *)
(* of the files.                                                           *)
(*                                                                         *)
(* The inductive invariant follows every entry of every file: as long as   *)
(* the configuration is read, an entry is either still to come (in the     *)
(* rest of the open file, in a file of the path that readdir() has not     *)
(* returned, or in a later path) or it has left its mark: an object has    *)
(* its name in its list, a leaf of the agent is set.                       *)
(***************************************************************************)
EXTENDS Config, SequenceTheorems, TLAPS

IsSeq(s) == s \in Seq(Elements(s))

(* A sequence is a sequence of its elements.                               *)
LEMMA SeqOfElements ==
  ASSUME NEW S, NEW s \in Seq(S)
  PROVE  s \in Seq(Elements(s))
<1>1. s \in [1..Len(s) -> S] /\ Len(s) \in Nat /\ DOMAIN s = 1..Len(s)
  BY LenProperties
<1>2. s \in [1..Len(s) -> Elements(s)]
  BY <1>1 DEF Elements
<1> HIDE DEF Elements
<1> QED
  BY <1>1, <1>2, SeqDef

(* What appending to a sequence does to its elements.                      *)
LEMMA AppendFacts ==
  ASSUME NEW s, IsSeq(s), NEW x
  PROVE  /\ IsSeq(Append(s, x))
         /\ Len(s) \in Nat /\ DOMAIN s = 1..Len(s)
         /\ DOMAIN Append(s, x) = 1..(Len(s) + 1)
         /\ \A i \in 1..Len(s) : Append(s, x)[i] = s[i]
         /\ Append(s, x)[Len(s) + 1] = x
         /\ Elements(Append(s, x)) = Elements(s) \cup {x}
<1> DEFINE S == Elements(s) \cup {x}
<1>1. s \in Seq(S)
  BY DEF IsSeq
<1>2. Append(s, x) \in Seq(S)
  BY <1>1
<1>3. /\ Len(s) \in Nat /\ DOMAIN s = 1..Len(s)
      /\ DOMAIN Append(s, x) = 1..(Len(s) + 1)
      /\ \A i \in 1..Len(s) : Append(s, x)[i] = s[i]
      /\ Append(s, x)[Len(s) + 1] = x
  BY <1>1
<1>4. Elements(Append(s, x)) = S
  BY <1>3 DEF Elements
<1> QED
  BY <1>2, <1>3, <1>4 DEF IsSeq

(* What taking the head off a sequence does to its elements.               *)
LEMMA TailFacts ==
  ASSUME NEW s, IsSeq(s), s # <<>>
  PROVE  /\ IsSeq(Tail(s))
         /\ Head(s) \in Elements(s)
         /\ Elements(s) = Elements(Tail(s)) \cup {Head(s)}
<1>1. s \in Seq(Elements(s))
  BY DEF IsSeq
<1>2. /\ Len(s) \in Nat /\ Len(s) > 0 /\ DOMAIN s = 1..Len(s)
      /\ Head(s) = s[1]
      /\ Tail(s) \in Seq(Elements(s)) /\ Len(Tail(s)) = Len(s) - 1
      /\ DOMAIN Tail(s) = 1..(Len(s) - 1)
      /\ \A i \in 1..(Len(s) - 1) : Tail(s)[i] = s[i + 1]
  BY <1>1
<1>3. Elements(s) \subseteq Elements(Tail(s)) \cup {Head(s)}
  <2> SUFFICES ASSUME NEW i \in 1..Len(s), i # 1
               PROVE  s[i] \in Elements(Tail(s))
    BY <1>2 DEF Elements
  <2>1. i - 1 \in 1..(Len(s) - 1) /\ (i - 1) + 1 = i
    BY <1>2
  <2> QED
    BY <2>1, <1>2 DEF Elements
<1>4. Elements(Tail(s)) \cup {Head(s)} \subseteq Elements(s)
  <2>1. \A i \in 1..(Len(s) - 1) : i + 1 \in 1..Len(s)
    BY <1>2
  <2> QED
    BY <2>1, <1>2 DEF Elements
<1>5. Tail(s) \in Seq(Elements(Tail(s)))
  BY <1>2, SeqOfElements
<1> QED
  BY <1>2, <1>3, <1>4, <1>5 DEF IsSeq, Elements

-----------------------------------------------------------------------------

(* A file that readdir() has still to return, and an entry still to come.  *)
Unread(f)  == f \in unread \/ \E j \in DOMAIN Paths : j > path /\ f \in Paths[j]
Pending(e) == e \in Elements(rest) \/ \E f \in Files : Unread(f) /\ e \in Elements(docs[f])

Typed ==
  /\ docs \in Configs
  /\ path \in DOMAIN Paths /\ unread \subseteq Files
  /\ IsSeq(rest) /\ Elements(rest) \subseteq Entries
  /\ DOMAIN lists = Lists /\ lists = [l \in Lists |-> lists[l]]
  /\ \A l \in Lists : IsSeq(lists[l])
  /\ DOMAIN agent = Leaves /\ agent = [a \in Leaves |-> agent[a]]

(* The mark an entry has left.                                             *)
Marked(e) ==
  /\ e.list \in Lists => e.object.name = Null \/ Named(lists[e.list], e.object.name)
  /\ e.list = "agent" => agent[e.leaf] # Null

Followed == at = "read" => \A e \in Entries : Pending(e) \/ (e # Broken /\ Marked(e))

(* Nothing comes from anywhere but the files.                              *)
Sourced ==
  /\ \A l \in Lists : Elements(lists[l]) \subseteq NamedIn(l)
  /\ \A a \in Leaves : agent[a] # Null => \E r \in Agent : r.leaf = a /\ r.value = agent[a]

IInv == Typed /\ UniqueNames /\ Sourced /\ Followed /\ OrderIrrelevant

-----------------------------------------------------------------------------

LEMMA EmptyFacts == IsSeq(<<>>) /\ Elements(<<>>) = {}
  BY DEF IsSeq, Elements

(* Files are in some path, and hold sequences of entries.                  *)
LEMMA FileFacts ==
  ASSUME docs \in Configs, NEW f \in Files
  PROVE  /\ IsSeq(docs[f])
         /\ Elements(docs[f]) \subseteq Entries
         /\ \E j \in DOMAIN Paths : f \in Paths[j]
  BY ConfigAssumption DEF IsSeq, Entries, Files

LEMMA EntryFacts ==
  ASSUME docs \in Configs, NEW e \in Entries, e # Broken
  PROVE  \/ e.list \in Lists
         \/ e.list = "agent" /\ e.leaf \in Leaves /\ e.value # Null
  BY ConfigAssumption DEF Entries, IsEntry

LEMMA PathFacts ==
  /\ Len(Paths) \in Nat /\ Len(Paths) > 0 /\ DOMAIN Paths = 1..Len(Paths)
  /\ \A j \in DOMAIN Paths : Paths[j] \subseteq Files
<1>1. Paths \in Seq(SUBSET Files) /\ Paths # <<>>
  BY ConfigAssumption
<1> QED
  BY <1>1 DEF Files

LEMMA InitInv == Init => IInv
<1> SUFFICES ASSUME Init PROVE IInv
  OBVIOUS
<1>1. docs \in Configs /\ path = 1 /\ unread = Paths[1] /\ rest = <<>> /\ at = "read"
  BY DEF Init
<1>2. lists = [l \in Lists |-> <<>>] /\ agent = [a \in Leaves |-> Null]
  BY DEF Init
<1>3. Typed
  BY <1>1, <1>2, PathFacts, EmptyFacts DEF Typed
<1>4. UniqueNames
  BY <1>2 DEF UniqueNames
<1>5. Sourced
  BY <1>2, EmptyFacts DEF Sourced
<1>6. Followed
  <2> SUFFICES ASSUME NEW e \in Entries PROVE Pending(e)
    BY DEF Followed
  <2>1. PICK f \in Files : e \in Elements(docs[f])
    BY DEF Entries
  <2>2. PICK j \in DOMAIN Paths : f \in Paths[j]
    BY <1>1, FileFacts
  <2>3. j = 1 \/ j > 1
    BY PathFacts
  <2> QED
    BY <2>1, <2>2, <2>3, <1>1 DEF Pending, Unread
<1>7. OrderIrrelevant
  BY <1>1 DEF OrderIrrelevant
<1> QED
  BY <1>3, <1>4, <1>5, <1>6, <1>7 DEF IInv

-----------------------------------------------------------------------------

(* The sets that are defined by the files alone do not change.             *)
LEMMA SourceFacts ==
  ASSUME docs' = docs
  PROVE  /\ Entries' = Entries /\ Agent' = Agent
         /\ \A l : NamedIn(l)' = NamedIn(l)
         /\ NoConflict' = NoConflict /\ Consistent' = Consistent
<1>1. Entries' = Entries
  BY DEF Entries
<1>2. Agent' = Agent /\ \A l : Defined(l)' = Defined(l)
  BY <1>1 DEF Agent, Defined
<1>3. \A l : NamedIn(l)' = NamedIn(l)
  BY <1>2 DEF NamedIn
<1> QED
  BY <1>1, <1>2, <1>3 DEF NoConflict, Consistent

LEMMA OpenFileInv ==
  ASSUME IInv, NEW f \in unread, OpenFile(f)
  PROVE  IInv'
<1> USE DEF IInv
<1>1. /\ docs' = docs /\ lists' = lists /\ agent' = agent /\ path' = path /\ at' = at
      /\ at = "read" /\ rest = <<>> /\ rest' = docs[f] /\ unread' = unread \ {f}
  BY DEF OpenFile
<1>2. f \in Files /\ docs \in Configs
  BY DEF Typed
<1>3. Typed'
  BY <1>1, <1>2, FileFacts, SourceFacts DEF Typed, IsSeq
<1>4. UniqueNames' /\ Sourced'
  BY <1>1, SourceFacts DEF UniqueNames, Sourced
<1>5. Followed'
  <2> SUFFICES ASSUME NEW e \in Entries, ~(e # Broken /\ Marked(e))' PROVE Pending(e)'
    BY <1>1, SourceFacts DEF Followed
  <2>1. Pending(e)
    BY <1>1 DEF Followed, Marked, Named
  <2>2. PICK g \in Files : Unread(g) /\ e \in Elements(docs[g])
    BY <2>1, <1>1, EmptyFacts DEF Pending
  <2>3. CASE g = f
    BY <2>2, <2>3, <1>1 DEF Pending
  <2>4. CASE g # f
    BY <2>2, <2>4, <1>1 DEF Pending, Unread
  <2> QED
    BY <2>3, <2>4
<1>6. OrderIrrelevant'
  BY <1>1 DEF OrderIrrelevant
<1> QED
  BY <1>3, <1>4, <1>5, <1>6

LEMMA AddObjectInv ==
  ASSUME IInv, AddObject
  PROVE  IInv'
<1> USE DEF IInv
<1> DEFINE h == Head(rest)
           k == h.list
           o == h.object
<1>1. /\ docs' = docs /\ agent' = agent /\ path' = path /\ unread' = unread /\ at' = at
      /\ at = "read" /\ rest # <<>> /\ rest' = Tail(rest) /\ h # Broken /\ k \in Lists
      /\ lists' = [lists EXCEPT ![k] = Added(@, o)]
  BY DEF AddObject
<1>2. /\ IsSeq(Tail(rest)) /\ h \in Elements(rest)
      /\ Elements(rest) = Elements(Tail(rest)) \cup {h}
  BY <1>1, TailFacts DEF Typed
<1>3. h \in Entries
  BY <1>2 DEF Typed
<1> HIDE DEF h
<1>4. /\ lists'[k] = Added(lists[k], o)
      /\ \A l \in Lists \ {k} : lists'[l] = lists[l]
      /\ DOMAIN lists' = Lists /\ lists' = [l \in Lists |-> lists'[l]]
  BY <1>1 DEF Typed
<1>5. IsSeq(lists[k])
  BY <1>1 DEF Typed
<1>6. CASE o.name = Null \/ Named(lists[k], o.name)
  <2>1. lists' = lists
    BY <1>6, <1>1, <1>4 DEF Added, Typed
  <2>2. Typed'
    BY <2>1, <1>1, <1>2, SourceFacts DEF Typed, IsSeq
  <2>3. UniqueNames' /\ Sourced'
    BY <2>1, <1>1, SourceFacts DEF UniqueNames, Sourced
  <2>4. Followed'
    <3> SUFFICES ASSUME NEW e \in Entries, ~(e # Broken /\ Marked(e))' PROVE Pending(e)'
      BY <1>1, SourceFacts DEF Followed
    <3>1. Pending(e)
      BY <2>1, <1>1 DEF Followed, Marked, Named
    <3>2. e # h
      BY <2>1, <1>1, <1>6 DEF Marked, Named, Lists
    <3> QED
      BY <3>1, <3>2, <1>1, <1>2 DEF Pending, Unread
  <2>5. OrderIrrelevant'
    BY <1>1 DEF OrderIrrelevant
  <2> QED
    BY <2>2, <2>3, <2>4, <2>5
<1>7. CASE ~(o.name = Null \/ Named(lists[k], o.name))
  <2>1. lists'[k] = Append(lists[k], o)
    BY <1>7, <1>4 DEF Added
  <2>2. /\ IsSeq(lists'[k])
        /\ Len(lists[k]) \in Nat /\ DOMAIN lists[k] = 1..Len(lists[k])
        /\ DOMAIN lists'[k] = 1..(Len(lists[k]) + 1)
        /\ \A i \in 1..Len(lists[k]) : lists'[k][i] = lists[k][i]
        /\ lists'[k][Len(lists[k]) + 1] = o
        /\ Elements(lists'[k]) = Elements(lists[k]) \cup {o}
    BY <2>1, <1>5, AppendFacts
  <2>3. Typed'
    <3>1. \A l \in Lists : IsSeq(lists'[l])
      BY <2>2, <1>4 DEF Typed
    <3> QED
      BY <3>1, <1>1, <1>2, <1>4, SourceFacts DEF Typed
  <2>4. UniqueNames'
    <3>1. \A i \in 1..Len(lists[k]) : lists[k][i].name # Null /\ lists[k][i].name # o.name
      BY <1>1, <1>7, <2>2 DEF UniqueNames, Named
    <3>2. \A i \in DOMAIN lists'[k] :
            /\ lists'[k][i].name # Null
            /\ \A j \in DOMAIN lists'[k] : lists'[k][i].name = lists'[k][j].name => i = j
      <4> SUFFICES ASSUME NEW i \in 1..(Len(lists[k]) + 1)
                   PROVE  /\ lists'[k][i].name # Null
                          /\ \A j \in 1..(Len(lists[k]) + 1) :
                                lists'[k][i].name = lists'[k][j].name => i = j
        BY <2>2
      <4>1. CASE i = Len(lists[k]) + 1
        BY <4>1, <3>1, <2>2, <1>7
      <4>2. CASE i \in 1..Len(lists[k])
        <5>1. \A j \in 1..Len(lists[k]) : lists[k][i].name = lists[k][j].name => i = j
          BY <4>2, <2>2, <1>1 DEF UniqueNames
        <5>2. lists'[k][i] = lists[k][i] /\ lists[k][i].name # Null /\ lists[k][i].name # o.name
          BY <4>2, <3>1, <2>2
        <5>3. \A j \in 1..(Len(lists[k]) + 1) : j \in 1..Len(lists[k]) \/ j = Len(lists[k]) + 1
          BY <2>2
        <5> HIDE DEF k, o
        <5> QED
          BY <5>1, <5>2, <5>3, <2>2
      <4> QED
        BY <4>1, <4>2, <2>2
    <3> QED
      BY <3>2, <1>4 DEF UniqueNames
  <2>5. Sourced'
    <3>1. o \in NamedIn(k)
      BY <1>1, <1>3, <1>7 DEF NamedIn, Defined
    <3> QED
      BY <3>1, <2>2, <1>1, <1>4, SourceFacts DEF Sourced
  <2>6. Followed'
    <3> SUFFICES ASSUME NEW e \in Entries, ~(e # Broken /\ Marked(e))' PROVE Pending(e)'
      BY <1>1, SourceFacts DEF Followed
    <3>1. \A l \in Lists : \A name : Named(lists[l], name) => Named(lists'[l], name)
      BY <2>2, <1>4 DEF Named
    <3>2. Pending(e)
      BY <3>1, <1>1 DEF Followed, Marked
    <3>3. Named(lists'[k], o.name)
      BY <2>2 DEF Named
    <3>4. e # h
      BY <3>3, <1>1 DEF Marked, Lists
    <3> QED
      BY <3>2, <3>4, <1>1, <1>2 DEF Pending, Unread
  <2>7. OrderIrrelevant'
    BY <1>1 DEF OrderIrrelevant
  <2> QED
    BY <2>3, <2>4, <2>5, <2>6, <2>7
<1> QED
  BY <1>6, <1>7

LEMMA SetAgentInv ==
  ASSUME IInv, SetAgent
  PROVE  IInv'
<1> USE DEF IInv
<1> DEFINE h == Head(rest)
<1>1. /\ docs' = docs /\ lists' = lists /\ path' = path /\ unread' = unread /\ at' = at
      /\ at = "read" /\ rest # <<>> /\ rest' = Tail(rest) /\ h # Broken /\ h.list = "agent"
      /\ agent' = [agent EXCEPT ![h.leaf] = h.value]
  BY DEF SetAgent
<1>2. /\ IsSeq(Tail(rest)) /\ h \in Elements(rest)
      /\ Elements(rest) = Elements(Tail(rest)) \cup {h}
  BY <1>1, TailFacts DEF Typed
<1>3. h \in Entries
  BY <1>2 DEF Typed
<1> HIDE DEF h
<1>4. h.leaf \in Leaves /\ h.value # Null
  BY <1>1, <1>3, EntryFacts DEF Typed, Lists
<1>5. /\ agent'[h.leaf] = h.value
      /\ \A a \in Leaves \ {h.leaf} : agent'[a] = agent[a]
      /\ DOMAIN agent' = Leaves /\ agent' = [a \in Leaves |-> agent'[a]]
  BY <1>1, <1>4 DEF Typed
<1>6. Typed'
  BY <1>1, <1>2, <1>5, SourceFacts DEF Typed
<1>7. UniqueNames'
  BY <1>1 DEF UniqueNames
<1>8. Sourced'
  <2>1. h \in Agent
    BY <1>1, <1>3 DEF Agent
  <2> QED
    BY <2>1, <1>1, <1>5, SourceFacts DEF Sourced
<1>9. Followed'
  <2> SUFFICES ASSUME NEW e \in Entries, ~(e # Broken /\ Marked(e))' PROVE Pending(e)'
    BY <1>1, SourceFacts DEF Followed
  <2>1. e # h
    BY <1>1, <1>4, <1>5 DEF Marked, Lists
  <2>2. CASE Pending(e)
    BY <2>1, <2>2, <1>1, <1>2 DEF Pending, Unread
  <2>3. CASE e # Broken /\ Marked(e)
    <3>1. e.list = "agent" => e.leaf \in Leaves
      BY <2>3, EntryFacts DEF Typed, Lists
    <3>2. e.list = "agent" => agent'[e.leaf] # Null
      BY <3>1, <2>3, <1>4, <1>5 DEF Marked
    <3> QED
      BY <3>2, <2>3, <1>1 DEF Marked
  <2> QED
    BY <2>2, <2>3, <1>1 DEF Followed
<1>10. OrderIrrelevant'
  BY <1>1 DEF OrderIrrelevant
<1> QED
  BY <1>6, <1>7, <1>8, <1>9, <1>10

LEMMA FailInv ==
  ASSUME IInv, Fail
  PROVE  IInv'
<1> USE DEF IInv
<1>1. /\ docs' = docs /\ path' = path /\ rest' = <<>> /\ unread' = {} /\ at' = "failed"
      /\ lists' = [l \in Lists |-> <<>>] /\ agent' = [a \in Leaves |-> Null]
  BY DEF Fail
<1>2. Typed'
  BY <1>1, EmptyFacts, SourceFacts DEF Typed
<1>3. UniqueNames' /\ Sourced'
  BY <1>1, EmptyFacts DEF UniqueNames, Sourced
<1>4. Followed' /\ OrderIrrelevant'
  BY <1>1 DEF Followed, OrderIrrelevant
<1> QED
  BY <1>2, <1>3, <1>4

LEMMA NextPathInv ==
  ASSUME IInv, NextPath
  PROVE  IInv'
<1> USE DEF IInv
<1>1. /\ docs' = docs /\ lists' = lists /\ agent' = agent /\ rest' = rest /\ at' = at
      /\ at = "read" /\ unread = {} /\ path < Len(Paths)
      /\ path' = path + 1 /\ unread' = Paths[path + 1]
  BY DEF NextPath
<1>2. path \in 1..Len(Paths) /\ path + 1 \in DOMAIN Paths
  BY <1>1, PathFacts DEF Typed
<1>3. Typed'
  BY <1>1, <1>2, PathFacts, SourceFacts DEF Typed
<1>4. UniqueNames' /\ Sourced'
  BY <1>1, SourceFacts DEF UniqueNames, Sourced
<1>5. Followed'
  <2> SUFFICES ASSUME NEW e \in Entries, Pending(e) PROVE Pending(e)'
    BY <1>1, SourceFacts DEF Followed, Marked, Named
  <2>1. CASE e \in Elements(rest)
    BY <2>1, <1>1 DEF Pending
  <2>2. CASE \E f \in Files : Unread(f) /\ e \in Elements(docs[f])
    <3>1. PICK f \in Files : Unread(f) /\ e \in Elements(docs[f])
      BY <2>2
    <3>2. PICK j \in DOMAIN Paths : j > path /\ f \in Paths[j]
      BY <3>1, <1>1 DEF Unread
    <3>3. j = path + 1 \/ j > path + 1
      BY <3>2, <1>2, PathFacts
    <3> QED
      BY <3>1, <3>2, <3>3, <1>1 DEF Pending, Unread
  <2> QED
    BY <2>1, <2>2 DEF Pending
<1>6. OrderIrrelevant'
  BY <1>1 DEF OrderIrrelevant
<1> QED
  BY <1>3, <1>4, <1>5, <1>6

(* The verdict of lmap_valid() on lists that hold what the files define.   *)
LEMMA VerdictFacts ==
  ASSUME Typed, Sourced, NoConflict,
         \A l \in Lists : Elements(lists[l]) = NamedIn(l),
         \A r \in Agent : agent[r.leaf] = r.value /\ r.value # Null
  PROVE  LmapValid <=> Consistent
<1> DEFINE has(l, name) == \E o \in NamedIn(l) : o.name = name
           event(name)  == name = Null \/ has("events", name)
<1>1. \A l \in Lists : \A name : Named(lists[l], name) <=> has(l, name)
  <2> SUFFICES ASSUME NEW l \in Lists, NEW name PROVE Named(lists[l], name) <=> has(l, name)
    OBVIOUS
  <2>1. Elements(lists[l]) = NamedIn(l)
    OBVIOUS
  <2> QED
    BY <2>1 DEF Named, Elements
<1>2. "events" \in Lists /\ "tasks" \in Lists /\ "supps" \in Lists /\ "schedules" \in Lists
  BY DEF Lists
<1>3. AgentValid <=> \A a \in DOMAIN ReportOf :
                       (\E r \in Agent : r.leaf = ReportOf[a] /\ r.value = TRUE)
                         => \E r \in Agent : r.leaf = a
  <2> SUFFICES ASSUME NEW a \in DOMAIN ReportOf
               PROVE  /\ agent[ReportOf[a]] = TRUE <=>
                            \E r \in Agent : r.leaf = ReportOf[a] /\ r.value = TRUE
                      /\ agent[a] # Null <=> \E r \in Agent : r.leaf = a
    BY DEF AgentValid
  <2>1. a \in Leaves /\ ReportOf[a] \in Leaves
    BY DEF Leaves
  <2>2. TRUE # Null
    BY ConfigAssumption
  <2>3. ASSUME NEW b \in Leaves, NEW v, v # Null
        PROVE  agent[b] = v <=> \E r \in Agent : r.leaf = b /\ r.value = v
    BY <2>3 DEF Sourced
  <2>4. agent[a] # Null <=> \E r \in Agent : r.leaf = a
    BY <2>1 DEF Sourced
  <2>5. agent[ReportOf[a]] = TRUE <=> \E r \in Agent : r.leaf = ReportOf[a] /\ r.value = TRUE
    BY <2>1, <2>2, <2>3, Zenon
  <2> QED
    BY <2>4, <2>5
<1>4. (\A i \in DOMAIN lists.supps : SuppValid(lists.supps[i]))
        <=> \A o \in NamedIn("supps") : event(o.start) /\ event(o.end)
  <2>1. \A s : SuppValid(s) <=> event(s.start) /\ event(s.end)
    BY <1>1, <1>2 DEF SuppValid
  <2>2. Elements(lists.supps) = NamedIn("supps")
    BY <1>2
  <2> HIDE DEF event
  <2> QED
    BY <2>1, <2>2 DEF Elements
<1>5. (\A i \in DOMAIN lists.tasks : TaskValid(lists.tasks[i]))
        <=> \A o \in NamedIn("tasks") : o.program # Null
  <2>1. Elements(lists.tasks) = NamedIn("tasks")
    BY <1>2
  <2> QED
    BY <2>1 DEF TaskValid, Elements
<1>6. (\A i \in DOMAIN lists.events : lists.events[i].ok) <=> \A o \in NamedIn("events") : o.ok
  <2>1. Elements(lists.events) = NamedIn("events")
    BY <1>2
  <2> QED
    BY <2>1 DEF Elements
<1>7. (\A i \in DOMAIN lists.schedules : ScheduleValid(lists.schedules[i]))
        <=> \A o \in NamedIn("schedules") :
              /\ o.start # Null /\ event(o.start) /\ event(o.end)
              /\ \A a \in o.actions : has("tasks", a.task)
                                     /\ \A d \in a.destinations : has("schedules", d)
  <2>1. \A o \in NamedIn("tasks") : o.name # Null
    BY DEF NamedIn
  <2>2. \A a : ActionValid(a) <=> /\ has("tasks", a.task)
                                  /\ \A d \in a.destinations : has("schedules", d)
    BY <2>1, <1>1, <1>2 DEF ActionValid
  <2>3. \A s : ScheduleValid(s) <=>
              /\ s.start # Null /\ event(s.start) /\ event(s.end)
              /\ \A a \in s.actions : has("tasks", a.task)
                                     /\ \A d \in a.destinations : has("schedules", d)
    BY <2>2, <1>1, <1>2 DEF ScheduleValid
  <2>4. Elements(lists.schedules) = NamedIn("schedules")
    BY <1>2
  <2> HIDE DEF event, has
  <2> QED
    BY <2>3, <2>4 DEF Elements
<1> QED
  BY <1>3, <1>4, <1>5, <1>6, <1>7 DEF LmapValid, Consistent

LEMMA ValidateInv ==
  ASSUME IInv, Validate
  PROVE  IInv'
<1> USE DEF IInv
<1>1. /\ docs' = docs /\ lists' = lists /\ agent' = agent /\ path' = path /\ unread' = unread
      /\ rest' = rest /\ at = "read" /\ rest = <<>> /\ unread = {} /\ path = Len(Paths)
      /\ at' = IF LmapValid THEN "valid" ELSE "invalid"
  BY DEF Validate
<1>2. Typed' /\ UniqueNames' /\ Sourced' /\ Followed'
  BY <1>1, SourceFacts DEF Typed, UniqueNames, Sourced, Followed
<1>3. \A e \in Entries : e # Broken /\ Marked(e)
  <2>1. \A e : ~Pending(e)
    BY <1>1, EmptyFacts, PathFacts DEF Pending, Unread
  <2> QED
    BY <2>1, <1>1 DEF Followed
<1>4. \A l \in Lists : \A o \in NamedIn(l) : Named(lists[l], o.name)
  BY <1>3 DEF NamedIn, Defined, Marked
<1>5. \A l \in Lists : {o.name : o \in Elements(lists[l])} = {o.name : o \in NamedIn(l)}
  <2> SUFFICES ASSUME NEW l \in Lists
               PROVE  {o.name : o \in Elements(lists[l])} = {o.name : o \in NamedIn(l)}
    OBVIOUS
  <2>1. \A o \in NamedIn(l) : \E p \in Elements(lists[l]) : p.name = o.name
    BY <1>4 DEF Named, Elements
  <2>2. Elements(lists[l]) \subseteq NamedIn(l)
    BY DEF Sourced
  <2> QED
    BY <2>1, <2>2
<1>6. ASSUME NoConflict
      PROVE  /\ \A l \in Lists : Elements(lists[l]) = NamedIn(l)
             /\ LmapValid <=> Consistent
  <2>1. \A l \in Lists : Elements(lists[l]) = NamedIn(l)
    <3> SUFFICES ASSUME NEW l \in Lists, NEW o \in NamedIn(l) PROVE o \in Elements(lists[l])
      BY DEF Sourced
    <3>1. PICK p \in Elements(lists[l]) : p.name = o.name
      BY <1>4 DEF Named, Elements
    <3>2. p \in NamedIn(l)
      BY DEF Sourced
    <3> QED
      BY <3>1, <3>2, <1>6 DEF NoConflict
  <2>2. \A r \in Agent : agent[r.leaf] = r.value /\ r.value # Null
    <3> SUFFICES ASSUME NEW r \in Agent PROVE agent[r.leaf] = r.value /\ r.value # Null
      OBVIOUS
    <3>1. r \in Entries /\ r # Broken /\ r.list = "agent"
      BY DEF Agent
    <3>2. r.leaf \in Leaves /\ r.value # Null
      BY <3>1, EntryFacts DEF Typed, Lists
    <3>3. agent[r.leaf] # Null
      BY <3>1, <1>3 DEF Marked
    <3>4. PICK q \in Agent : q.leaf = r.leaf /\ q.value = agent[r.leaf]
      BY <3>2, <3>3 DEF Sourced
    <3> QED
      BY <3>2, <3>4, <1>6 DEF NoConflict
  <2> QED
    BY <2>1, <2>2, <1>6, VerdictFacts
<1>7. OrderIrrelevant'
  BY <1>1, <1>5, <1>6, SourceFacts DEF OrderIrrelevant
<1> QED
  BY <1>2, <1>7

LEMMA NextInv == IInv /\ [Next]_vars => IInv'
<1> SUFFICES ASSUME IInv, [Next]_vars PROVE IInv'
  OBVIOUS
<1>1. CASE \E f \in unread : OpenFile(f)
  BY <1>1, OpenFileInv
<1>2. CASE AddObject
  BY <1>2, AddObjectInv
<1>3. CASE SetAgent
  BY <1>3, SetAgentInv
<1>4. CASE Fail
  BY <1>4, FailInv
<1>5. CASE NextPath
  BY <1>5, NextPathInv
<1>6. CASE Validate
  BY <1>6, ValidateInv
<1>7. CASE UNCHANGED vars
  <2>1. /\ docs' = docs /\ lists' = lists /\ agent' = agent /\ path' = path
        /\ unread' = unread /\ rest' = rest /\ at' = at
    BY <1>7 DEF vars
  <2>2. Typed' /\ UniqueNames' /\ Sourced'
    BY <2>1, SourceFacts DEF IInv, Typed, UniqueNames, Sourced
  <2>3. Followed' /\ OrderIrrelevant'
    <3>1. \A e : Pending(e)' <=> Pending(e)
      BY <2>1 DEF Pending, Unread
    <3>2. \A e : Marked(e)' <=> Marked(e)
      BY <2>1 DEF Marked
    <3>3. Followed'
      BY <3>1, <3>2, <2>1, SourceFacts DEF IInv, Followed
    <3> QED
      BY <3>3, <2>1, SourceFacts DEF IInv, OrderIrrelevant
  <2> QED
    BY <2>2, <2>3 DEF IInv
<1> QED
  BY <1>1, <1>2, <1>3, <1>4, <1>5, <1>6, <1>7 DEF Next

LEMMA Inductive == Spec => []IInv
  BY InitInv, NextInv, PTL DEF Spec

(* Names are unique in every list, for any files in any order              *)
(* (lmap_add_schedule() and its siblings).                                 *)
THEOREM NamesUnique == Spec => []UniqueNames
<1>1. IInv => UniqueNames
  BY DEF IInv
<1> QED
  BY <1>1, Inductive, PTL

(* No order of readdir() loses a name, and configurations whose files do   *)
(* not contradict each other are judged as the set of what they define     *)
(* (read_config() and lmap_valid()).                                       *)
THEOREM OrderDoesNotMatter == Spec => []OrderIrrelevant
<1>1. IInv => OrderIrrelevant
  BY DEF IInv
<1> QED
  BY <1>1, Inductive, PTL
=============================================================================
