---------------------------- MODULE MCRecordData ----------------------------
(* Instances of RecordData for TLC. *)
EXTENDS RecordData, TLC

Types(t0, t1, t2) == 0 :> t0 @@ 1 :> t1 @@ 2 :> t2
Schema(types, length) ==
    [types |-> types, lengths |-> [a \in DOMAIN types |-> IF types[a] = "DT_STRING" THEN length ELSE 0]]

(* The schema of the tests, one with a float, a bool and a string, and one whose
   attribute 1 is an int. *)
MCSchemas == {
    Schema(Types("DT_INT", "DT_STRING", "DT_INT"), 2),
    Schema(Types("DT_FLOAT", "DT_BOOL", "DT_STRING"), 2),
    Schema(Types("DT_STRING", "DT_INT", "DT_INT"), 2)}

(* A string shorter than its attribute, one as long and one longer. *)
MCContents ==
    {Value("DT_INT", n) : n \in {-1, 0, 258}} \cup {Value("DT_FLOAT", 1), Value("DT_BOOL", 1)} \cup
    {Value("DT_STRING", s) : s \in {<<97>>, <<97, 98>>, <<97, 98, 99>>}}

MCFloatBytes == 0 :> <<0, 0, 0, 0>> @@ 1 :> <<0, 0, 128, 63>>
MCJunk == {0, 1, 2}

(* Expressions from their arguments, whose nodes come first. *)
Constant(dt, x) == <<[type |-> "EXPR_CONST", cons |-> Value(dt, x)]>>
AttrRef(a) == <<[type |-> "EXPR_ATTRREF", attrRef |-> a]>>
Operation(op, args) == <<[type |-> "EXPR_OP", op |-> op, args |-> args]>>
Behind(e, n) ==
    [k \in DOMAIN e |-> IF e[k].type # "EXPR_OP" THEN e[k]
                        ELSE [e[k] EXCEPT !.args = [i \in DOMAIN @ |-> @[i] + n]]]
BinOp(op, l, r) == l \o Behind(r, Len(l)) \o Operation(op, <<Len(l), Len(l) + Len(r)>>)
NotOf(e) == e \o Operation("OP_BOOL_NOT", <<Len(e)>>)

Operands == {AttrRef(0), AttrRef(1), AttrRef(2), Constant("DT_INT", 258), Constant("DT_STRING", <<97, 98>>), Constant("DT_BOOL", 1)}
Comparisons == {BinOp(op, l, r) : op \in {"OP_COMP_EQUAL", "OP_COMP_SMALLER"}, l \in Operands, r \in Operands}
Bools == {BinOp("OP_COMP_SMALLER", AttrRef(2), Constant("DT_INT", 258)),
          BinOp("OP_COMP_EQUAL", AttrRef(1), Constant("DT_STRING", <<97, 98>>)),
          BinOp("OP_COMP_EQUAL", AttrRef(0), AttrRef(2)), Constant("DT_BOOL", 0)}
Connectives == {BinOp(op, l, r) : op \in {"OP_BOOL_AND", "OP_BOOL_OR"}, l \in Bools, r \in Bools}
MCConditions ==
    Comparisons \cup Connectives \cup {NotOf(e) : e \in Bools \cup {CHOOSE c \in Connectives : TRUE}}
=============================================================================
