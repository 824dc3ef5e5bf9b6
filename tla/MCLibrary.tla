------------------------------ MODULE MCLibrary ------------------------------
(***************************************************************************)
(* Mapping: a record with a text, a null, a number and an object that      *)
(* holds a date; every configuration of two fields, and of three that copy.*)
(* X12: values with and without separators or spaces, numbers, identifiers *)
(* that are as long as their fields, shorter and longer.                   *)
(***************************************************************************)
EXTENDS Library

field(from, to, rule, need) == [from |-> from, to |-> to, rule |-> rule, need |-> need]

Paths == {<<"a">>, <<"n">>, <<"m">>, <<"o">>, <<"o", "b">>, <<"a", "b">>}
Targets == {<<"t">>, <<"t", "b">>, <<"t", "c">>, <<"w">>}
SomeRules == {"to_upper", "math_add", "math_divide by zero", "split", "format_date", "unknown"}

Copies == { field(p, t, "direct", "optional") : p \in Paths, t \in Targets }

Others ==
  { field(p, t, "direct", need) : p \in Paths, t \in Targets, need \in {"required", "default"} }
  \cup { field(p, t, r, "optional") : p \in {<<"a">>, <<"q">>, <<"o", "b">>}, t \in Targets, r \in SomeRules }

SomeConfigs == BoundedSeq(Copies \cup Others, 2) \cup [1 .. 3 -> Copies]
Record == [src |-> [a |-> "text", n |-> "null", q |-> "number", o |-> "obj"], obj |-> [b |-> "date"]]
NewObjects == [at \in (1 .. 3) \X {1} |-> <<"new1", "new2", "new3">>[at[1]]]
Columns == <<"a", "o">>
Wanted == <<"t", "w">>
SomeScores == {0, 5, 6, 9, 10}

SomeValues == {<<"v">>, <<>>, <<"space", "v", "space">>, <<"v", "*", "w">>, <<"v", "~", "w">>}
SomeControls == { [i \in 1 .. n |-> d] : n \in {1, 4, 5, 9, 10}, d \in {"1", "7"} } \cup {<<"7", "space">>}
SomeIds == { [i \in 1 .. n |-> "c"] : n \in {1, 15, 16} } \cup {<<>>, <<"space", "c">>, <<"space">>}

Items == BoundedSeq([a : SomeValues, b : SomeValues], 2)
Packs == BoundedSeq(BoundedSeq(SomeValues, 2), 2)

PO1(line) == <<<<"PO1">>, line, <<"fixed">>, <<"EA">>, <<"fixed">>, <<>>, <<"VP">>, <<"sku">>>>
PID(text) == <<<<"PID">>, <<"F">>, <<>>, <<>>, <<>>, text>>

(* Segments of an order, one of them short. *)
Segments == {PO1(<<"1">>), PO1(<<"2">>), <<<<"PO1">>, <<"3">>>>, PID(<<"x">>), PID(<<"y", "space">>), <<<<"CTT">>, <<"2">>>>}

plainId == <<"i", "d">>

(* Data of every kind in one envelope, and every envelope of the plain data. *)
SomeDocs ==
  LET Data(type, numbers, items, controls, ids) ==
        [type : {type}, number : numbers, items : items, control : controls, sender : ids, receiver : {plainId}]
      Plain(type, items) == Data(type, {<<"v">>}, items, {<<"7">>}, {plainId})
  IN  UNION { Plain("855", Items), Plain("810", Items), Plain("856", Packs), Plain("850", BoundedSeq(Segments, 4)),
              Data("856", SomeValues, {<<>>}, SomeControls, SomeIds) }
=============================================================================
