----------------------------- MODULE MCResults ------------------------------
(***************************************************************************)
(* Small instances of Results: all combinations of awkward texts in the    *)
(* configuration with a plain table, and all small tables of awkward       *)
(* fields with a plain configuration.                                      *)
(***************************************************************************)
EXTENDS Results

Plain == <<"p">>

(* Every special character alone, first, in the middle and last.           *)
Awkward == {<<>>, <<"p">>, <<"q">>, <<"q", "p">>, <<"p", "q">>, <<"p", "q", "o">>,
            <<"p", "d">>, <<"s", "p">>, <<"p", "n", "o">>}

Option(id, name, value) == [id |-> id, name |-> name, value |-> value]
PlainConf == [schedule |-> Plain, action |-> Plain, task |-> Plain, task_options |-> <<>>,
              action_options |-> <<>>, task_tags |-> <<>>, schedule_tags |-> <<>>,
              action_tags |-> <<>>, cycle |-> <<>>]

Ids == {<<"p">>, <<"q", "p">>, <<"d", "p">>, <<"q">>}

AwkwardConfs ==
  {[PlainConf EXCEPT !.schedule = s, !.action = <<"o">>, !.cycle = c, !.task_tags = <<t>>,
                     !.schedule_tags = <<Plain>>, !.action_tags = u,
                     !.task_options = <<Option(i, <<>>, <<v>>)>>, !.action_options = a] :
     s \in {<<"p">>, <<"q", "s">>}, c \in {<<>>, <<<<"cycle">>>>}, t \in {<<"p">>, <<"q", "p">>},
     u \in {<<>>, <<<<"o", "d">>>>}, i \in Ids, v \in Awkward,
     a \in {<<>>} \cup {<<Option(j, <<<<"q", "o">>>>, w)>> : j \in Ids, w \in {<<>>, <<<<"s">>>>}}}

Rows == {<<f>> : f \in Awkward} \cup {<<f, g>> : f, g \in Awkward}
SmallTables == {<<>>} \cup {<<r>> : r \in Rows} \cup {<<r, s>> : r, s \in Rows}

MCRuns == (AwkwardConfs \X {<<<<Plain>>>>}) \cup ({PlainConf} \X SmallTables)
=============================================================================
