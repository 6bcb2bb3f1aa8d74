------------------------------ MODULE Results -------------------------------
(***************************************************************************)
(* The contents of a result: what the daemon records about a run of an     *)
(* action in the .meta file, what the task leaves in the .data file, and   *)
(* what 'lmapctl report' reads back from both (src/src/csv.c, and the      *)
(* meta, read_table() and read_result() functions of src/src/workspace.c). *)
(*                                                                         *)
(* A file is a sequence of the characters of module Csv.  A key, a time or *)
(* a number counts as one plain character, since nothing looks inside of   *)
(* it.  A leaf is <<>> for NULL and <<text>> otherwise.                    *)
(***************************************************************************)
EXTENDS Csv, SequencesExt, FiniteSets

CONSTANTS
  Runs      \* pairs of what the schedule, action and task of a run are
            \* configured with, and the table the task measures: a sequence
            \* of rows, which are sequences of fields

VARIABLES
  phase,      \* "forked", "running", "exited", "result", "table", "done"
  conf,       \* the configuration of the run
  table,      \* the table of the task
  status,     \* the exit status, once recorded
  meta, data, \* what is left to read of the two files
  eof,        \* feof() of the file being read
  res, opt,   \* read_result(): the result and the option being read
  tab, inrow, \* read_table(): the rows so far, whether the last one is open
  reported    \* whether lmap_add_result() was reached

vars == <<phase, conf, table, status, meta, data, eof, res, opt, tab, inrow, reported>>

-----------------------------------------------------------------------------
(* Writing: append() and csv_append_key_value().                           *)

Doubled(field) == FlattenSeq([i \in DOMAIN field |-> Put(field[i])])

AppendField(field) ==
  IF NeedQuote(field) THEN <<"q">> \o Doubled(field) \o <<"q">> ELSE field

KeyValue(key, leaf) ==
  IF leaf = <<>> THEN <<>> ELSE <<key, "d">> \o AppendField(leaf[1]) \o <<"n">>

-----------------------------------------------------------------------------
(* Reading: csv_next() and csv_next_key_value().                           *)

RECURSIVE Scan(_, _)
Scan(s, r) == IF r.more THEN Scan(s, Turn(s, r)) ELSE r

(* An empty buffer was never allocated: the field is NULL.                 *)
CsvNext(s) ==
  LET r == Scan(s, Start)
  IN [leaf |-> IF r.buf = <<>> THEN <<>> ELSE <<r.buf>>,
      rest |-> SubSeq(s, r.at, Len(s)), eof |-> r.eof]

(* NULL fields before the key are skipped; the value may be NULL.          *)
RECURSIVE CsvNextKeyValue(_)
CsvNextKeyValue(s) ==
  LET k == CsvNext(s)
      v == CsvNext(k.rest)
  IN IF k.leaf # <<>> THEN [key |-> k.leaf, value |-> v.leaf, rest |-> v.rest, eof |-> v.eof]
     ELSE IF k.eof    THEN [key |-> <<>>, value |-> <<>>, rest |-> <<>>, eof |-> TRUE]
     ELSE CsvNextKeyValue(k.rest)

-----------------------------------------------------------------------------
(* The two files.                                                          *)

Records(key, leaves) == FlattenSeq([i \in DOMAIN leaves |-> KeyValue(key, <<leaves[i]>>)])

OptionRecords(options) ==
  FlattenSeq([i \in DOMAIN options |->
    KeyValue("option-id", <<options[i].id>>) \o KeyValue("option-name", options[i].name)
      \o KeyValue("option-value", options[i].value)])

(* lmapd_workspace_action_meta_add_start()                                 *)
MetaStart(c) ==
  KeyValue("magic", <<<<"lmapd", "s", "version">>>>)
  \o KeyValue("schedule", <<c.schedule>>) \o KeyValue("action", <<c.action>>)
  \o KeyValue("task", <<c.task>>)
  \o OptionRecords(c.task_options) \o OptionRecords(c.action_options)
  \o Records("tag", c.task_tags) \o Records("tag", c.schedule_tags)
  \o Records("tag", c.action_tags)
  \o KeyValue("event", <<<<"t0">>>>) \o KeyValue("start", <<<<"t1">>>>)
  \o KeyValue("cycle-number", c.cycle)

(* lmapd_workspace_action_meta_add_end()                                   *)
MetaEnd(st) == KeyValue("end", <<<<"t2">>>>) \o KeyValue("status", <<<<st>>>>)

(* A task that writes its table the way csv.c does: csv_start() for the    *)
(* first field of a row, csv_append() for the others, csv_end().           *)
RowText(row) ==
  FlattenSeq([i \in DOMAIN row |-> (IF i = 1 THEN <<>> ELSE <<"d">>) \o AppendField(row[i])])
    \o <<"n">>
TableText(t) == FlattenSeq([i \in DOMAIN t |-> RowText(t[i])])

-----------------------------------------------------------------------------
(* lmap_result_new(), and what a record does to the result: the identifier *)
(* setters take every text, the numbers those that are numbers, a tag that *)
(* is already there is ignored.                                            *)
NewResult == [schedule |-> <<>>, action |-> <<>>, task |-> <<>>, options |-> <<>>,
              tags |-> <<>>, event |-> "epoch", start |-> "epoch", end |-> "epoch",
              cycle_number |-> <<>>, status |-> <<>>]

IsNumber(text) == Len(text) = 1 /\ text[1] \in {"t0", "t1", "t2", "0", "1"}

AddOption(options, o) ==
  IF o = <<>> \/ (\E i \in DOMAIN options : options[i].id = o[1].id) THEN options
  ELSE Append(options, o[1])

AddTag(tags, text) == IF text \in Range(tags) THEN tags ELSE Append(tags, text)

Record(r, key, text) ==
  CASE key = "schedule"     -> [r EXCEPT !.schedule = <<text>>]
    [] key = "action"       -> [r EXCEPT !.action = <<text>>]
    [] key = "task"         -> [r EXCEPT !.task = <<text>>]
    [] key = "option-id"    -> [r EXCEPT !.options = AddOption(r.options, opt)]
    [] key = "tag"          -> [r EXCEPT !.tags = AddTag(r.tags, text)]
    [] key = "cycle-number" -> [r EXCEPT !.cycle_number = <<text>>]
    [] key = "status" /\ IsNumber(text) -> [r EXCEPT !.status = <<text[1]>>]
    [] key \in {"event", "start", "end"} /\ IsNumber(text) -> [r EXCEPT ![key] = text[1]]
    [] OTHER                -> r

(* The option that is being read: begun by its id, added when the next one *)
(* begins or the file ends.                                                *)
OptionAfter(o, key, text) ==
  CASE key = "option-id"                  -> <<[id |-> text, name |-> <<>>, value |-> <<>>]>>
    [] key = "option-name" /\ o # <<>>    -> <<[o[1] EXCEPT !.name = <<text>>]>>
    [] key = "option-value" /\ o # <<>>   -> <<[o[1] EXCEPT !.value = <<text>>]>>
    [] OTHER                              -> o

TableValid(t) == \A i \in DOMAIN t : Len(t[i]) = Len(t[1])

ResultValid(r, t) == r.schedule # <<>> /\ r.action # <<>> /\ TableValid(t)

-----------------------------------------------------------------------------

Init ==
  /\ phase = "forked"
  /\ \E run \in Runs : conf = run[1] /\ table = run[2]
  /\ status = <<>> /\ meta = <<>> /\ data = <<>> /\ eof = FALSE
  /\ res = NewResult /\ opt = <<>> /\ tab = <<>> /\ inrow = FALSE /\ reported = FALSE

(* The forked child, before it executes the task's program.                *)
AddStart ==
  /\ phase = "forked"
  /\ phase' = "running"
  /\ meta' = MetaStart(conf)
  /\ UNCHANGED <<conf, table, status, data, eof, res, opt, tab, inrow, reported>>

(* The task's program; its standard output is the .data file.              *)
WriteData ==
  /\ phase = "running"
  /\ phase' = "exited"
  /\ data' = TableText(table)
  /\ UNCHANGED <<conf, table, status, meta, eof, res, opt, tab, inrow, reported>>

(* lmapd_cleanup() records the end and ignores a failure to do so; the     *)
(* pair of files then is moved to a queue and found there by read_results. *)
AddEnd(st) ==
  /\ phase = "exited"
  /\ phase' = "result"
  /\ status' = <<st>>
  /\ meta' = meta \o MetaEnd(st)
  /\ UNCHANGED <<conf, table, data, eof, res, opt, tab, inrow, reported>>

EndFails ==
  /\ phase = "exited"
  /\ phase' = "result"
  /\ UNCHANGED <<conf, table, status, meta, data, eof, res, opt, tab, inrow, reported>>

(* One turn of the loop of read_result().                                  *)
ReadRecord ==
  /\ phase = "result" /\ ~eof
  /\ LET kv   == CsvNextKeyValue(meta)
         used == kv.key # <<>> /\ kv.value # <<>> /\ Len(kv.key[1]) = 1
     IN /\ meta' = kv.rest
        /\ eof' = kv.eof
        /\ res' = IF used THEN Record(res, kv.key[1][1], kv.value[1]) ELSE res
        /\ opt' = IF used THEN OptionAfter(opt, kv.key[1][1], kv.value[1]) ELSE opt
  /\ UNCHANGED <<phase, conf, table, status, data, tab, inrow, reported>>

ReadResultDone ==
  /\ phase = "result" /\ eof
  /\ phase' = "table"
  /\ eof' = FALSE
  /\ res' = [res EXCEPT !.options = AddOption(res.options, opt)]
  /\ opt' = <<>>
  /\ UNCHANGED <<conf, table, status, meta, data, tab, inrow, reported>>

(* One turn of the loop of read_table(): a NULL field ends the row.        *)
ReadField ==
  /\ phase = "table" /\ ~eof
  /\ LET f == CsvNext(data)
     IN /\ data' = f.rest
        /\ eof' = f.eof
        /\ inrow' = (f.leaf # <<>> \/ (f.eof /\ inrow))
        /\ tab' = IF f.leaf = <<>> THEN tab
                  ELSE IF inrow THEN [tab EXCEPT ![Len(tab)] = @ \o f.leaf]
                  ELSE Append(tab, f.leaf)
  /\ UNCHANGED <<phase, conf, table, status, meta, res, opt, reported>>

(* The table is added and the result validated; an invalid one is dropped. *)
ReadTableDone ==
  /\ phase = "table" /\ eof
  /\ phase' = "done"
  /\ reported' = ResultValid(res, tab)
  /\ UNCHANGED <<conf, table, status, meta, data, eof, res, opt, tab, inrow>>

Next ==
  \/ AddStart
  \/ WriteData
  \/ \E st \in {"0", "1"} : AddEnd(st)
  \/ EndFails
  \/ ReadRecord
  \/ ReadResultDone
  \/ ReadField
  \/ ReadTableDone

Spec == Init /\ [][Next]_vars

-----------------------------------------------------------------------------

(* csv_next() loses the quotes a text begins with, and takes a text of     *)
(* nothing else, like an empty one, for NULL.                              *)
RECURSIVE Kept(_)
Kept(text) == IF text # <<>> /\ Head(text) = "q" THEN Kept(Tail(text)) ELSE text
KeptLeaf(leaf) == IF leaf = <<>> \/ Kept(leaf[1]) = <<>> THEN <<>> ELSE <<Kept(leaf[1])>>
KeptOptions(options) ==
  [i \in DOMAIN options |-> [id |-> Kept(options[i].id), name |-> KeptLeaf(options[i].name),
                             value |-> KeptLeaf(options[i].value)]]
KeptTags(tags) ==
  SelectSeq([i \in DOMAIN tags |-> Kept(tags[i])], LAMBDA t : t # <<>>)

Options(c) == c.task_options \o c.action_options
AllTags(c) == c.task_tags \o c.schedule_tags \o c.action_tags

(* All texts of a configuration, and those that name something.            *)
NamesOf(c) == {c.schedule, c.action, c.task} \cup {o.id : o \in Range(Options(c))}
TextsOf(c) ==
  NamesOf(c) \cup Range(AllTags(c))
    \cup UNION {Range(o.name) \cup Range(o.value) : o \in Range(Options(c))}

Recorded(c) ==
  [schedule |-> KeptLeaf(<<c.schedule>>), action |-> KeptLeaf(<<c.action>>),
   task |-> KeptLeaf(<<c.task>>),
   options |-> FoldLeft(LAMBDA l, o : AddOption(l, <<o>>), <<>>, KeptOptions(Options(c))),
   tags |-> FoldLeft(AddTag, <<>>, KeptTags(AllTags(c))),
   event |-> "t0", start |-> "t1", end |-> IF status = <<>> THEN "epoch" ELSE "t2",
   cycle_number |-> c.cycle, status |-> status]

(* What read_result() makes of the .meta file is what was recorded about   *)
(* the run, whatever delimiters, spaces and quotes the texts hold, also if *)
(* the end could not be recorded: at most the quotes a text begins with    *)
(* are lost, and a damaged text never damages another record.  Only a      *)
(* newline in a text, or a name of nothing but quotes, can do more.        *)
MetaReadBack ==
  /\ phase \in {"table", "done"}
  /\ \A t \in TextsOf(conf) : "n" \notin Range(t)
  /\ \A t \in NamesOf(conf) : Kept(t) # <<>>
  => res = Recorded(conf)

(* A field that survives: not empty, no newline, no quote at the beginning *)
PlainField(f) == f # <<>> /\ f[1] # "q" /\ "n" \notin Range(f)

(* Exactly the tables that survive: a field in quotes at the end of a row  *)
(* takes the newline along, which only the last row can do without.        *)
Survives(t) ==
  /\ \A i \in DOMAIN t : \A j \in DOMAIN t[i] : PlainField(t[i][j])
  /\ \A i \in DOMAIN t : i < Len(t) => ~NeedQuote(Last(t[i]))

(* What read_table() makes of the .data file is the table of the task if   *)
(* and only if the fields survive csv.c; and a result whose rows are then  *)
(* equally long and whose names were read is part of the report.           *)
TableReadBack ==
  phase = "done" =>
    /\ tab = table <=> Survives(table)
    /\ Survives(table) /\ TableValid(table) /\ res.schedule # <<>> /\ res.action # <<>>
         => reported
=============================================================================
