---------------------------- MODULE MCSheetGate ----------------------------
(***************************************************************************)
(* Instances of SheetGate for TLC: two gateways, hosts a.x, b.x and c.y, an *)
(* exact cell, a wildcard over both, a blank one, and a name nginx refuses. *)
(***************************************************************************)
EXTENDS SheetGate

Hosts == {"a.x", "b.x", "c.y"}
Cells == {"a.x", "*.x", "", "too-long.x"}
Patterns == [c \in Cells |-> CASE c = "a.x" -> {"a.x"} [] c = "*.x" -> {"a.x", "b.x"}
                               [] c = "too-long.x" -> {} [] c = "" -> Hosts]
Paths == {<<>>, <<"api">>, <<"api", "v1">>}

Row(name, gateway, host, path) ==
    [name |-> name, gateway |-> gateway, host |-> host, path |-> path,
     service |-> "web", valid |-> TRUE]

Rows == {Row("r1", "", "", <<>>), Row("r2", "g1", "a.x", <<"api">>),
         Row("r2", "", "*.x", <<"api">>), Row("r3", "", "a.x", <<"api">>),
         Row("r3", "g1", "", <<"api", "v1">>), Row("r1", "g1", "too-long.x", <<>>),
         [Row("r3", "g1", "", <<>>) EXCEPT !.valid = FALSE]}

\* A sheet with no routes yet, and one with two.
Sheets == {[gateways |-> <<"g1">>, routes |-> <<>>],
           [gateways |-> <<"g1">>,
            routes |-> <<Row("r1", "", "", <<>>), Row("r2", "g1", "a.x", <<"api">>)>>]}
=============================================================================
