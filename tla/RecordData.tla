------------------------------ MODULE RecordData ------------------------------
(***************************************************************************)
(* The attributes of a record of assign3_record_manager and the conditions *)
(* over them: createSchema, createRecord, getAttr and setAttr of           *)
(* record_mgr.c, and evalExpr of expr.c, which scans call for every slot.  *)
(*                                                                         *)
(* A record is a sequence of bytes.  The first is the mark of its slot,    *)
(* behind it lie the attributes, one after the other, found by the data    *)
(* types of the schema.  The data types are an array of the client, which  *)
(* getAttr writes to: a record can be read by other types than it was      *)
(* written by.                                                             *)
(***************************************************************************)
EXTENDS Integers, Sequences, FiniteSets, SequencesExt

CONSTANTS
    Schemas,        \* the schemas of clients: types and lengths of the attributes 0, 1, ...
    Contents,       \* the values clients set attributes to
    FloatBytes,     \* the bytes of the floats among them and of 0
    Junk,           \* what a float or bool that was never written may be
    Conditions      \* the expressions that clients evaluate

intTypeSize == 4
FLOAT_SIZE == 4
BOOL_SIZE == 2      \* dt.h makes it a short

DataTypes == {"DT_INT", "DT_STRING", "DT_FLOAT", "DT_BOOL"}
Byte == 0 .. 255
IsInt(n) == n \in Int /\ -2147483647 - 1 <= n /\ n <= 2147483647

(* Strings have room for a byte at least, and the other types no length. *)
IsSchema(s) ==
    /\ IsFiniteSet(DOMAIN s.types)
    /\ DOMAIN s.types = 0 .. Cardinality(DOMAIN s.types) - 1
    /\ {0, 1} \subseteq DOMAIN s.types
    /\ s.types \in [DOMAIN s.types -> DataTypes]
    /\ s.lengths \in [DOMAIN s.types -> Nat]
    /\ \A a \in DOMAIN s.types : s.types[a] = "DT_STRING" <=> s.lengths[a] # 0

ASSUME SchemasAssumption == \A s \in Schemas : IsSchema(s)

ASSUME FloatsAssumption ==
    /\ \A x \in DOMAIN FloatBytes : FloatBytes[x] \in [1 .. FLOAT_SIZE -> Byte]
    /\ 0 \in DOMAIN FloatBytes /\ FloatBytes[0] = <<0, 0, 0, 0>>

IsContent(val) ==
    CASE val.dt = "DT_INT"    -> IsInt(val.v)
      [] val.dt = "DT_STRING" -> val.v \in Seq(Byte \ {0})
      [] val.dt = "DT_FLOAT"  -> val.v \in DOMAIN FloatBytes
      [] val.dt = "DT_BOOL"   -> val.v \in {0, 1}
      [] OTHER -> FALSE

ASSUME ContentsAssumption == \A val \in Contents : IsContent(val)

(* An expression is the sequence of its nodes in the order in which evalExpr has
   their values, and an operator names the places of its arguments in it. *)
Operators == {"OP_BOOL_NOT", "OP_BOOL_AND", "OP_BOOL_OR", "OP_COMP_EQUAL", "OP_COMP_SMALLER"}
IsNode(node, place) ==
    CASE node.type = "EXPR_CONST"   -> /\ node.cons.dt \in DataTypes
                                       /\ node.cons.dt = "DT_BOOL" => node.cons.v \in {0, 1}
      [] node.type = "EXPR_ATTRREF" -> \A s \in Schemas : node.attrRef \in DOMAIN s.types
      [] node.type = "EXPR_OP"      ->
            /\ node.op \in Operators
            /\ node.args \in [1 .. (IF node.op = "OP_BOOL_NOT" THEN 1 ELSE 2) -> 1 .. place - 1]
      [] OTHER -> FALSE

ASSUME ConditionsAssumption ==
    \A e \in Conditions : e \in Seq(Range(e)) /\ e # <<>> /\ \A k \in DOMAIN e : IsNode(e[k], k)

VARIABLES
    up,         \* whether the program runs
    declared,   \* the schema as the client made it
    dataTypes,  \* schema->dataTypes as it is now
    data,       \* record->data
    size,       \* how many bytes createRecord asked for
    value,      \* history: what every attribute was set to, Lost when its type or
                \* its place has changed since
    answer      \* history: what the last call returned

vars == <<up, declared, dataTypes, data, size, value, answer>>

Value(dt, x) == [dt |-> dt, v |-> x]
Lost == Value("lost", 0)
Nothing == Value("nothing", 0)
Attrs == DOMAIN declared.types

-----------------------------------------------------------------------------
(* Values as bytes. *)

Weights == <<1, 256, 65536, 16777216>>
IntBytes(n) == [i \in 1 .. intTypeSize |-> (n \div Weights[i]) % 256]
IntOf(bytes) ==
    bytes[1] + 256 * bytes[2] + 65536 * bytes[3]
        + 16777216 * (IF bytes[4] < 128 THEN bytes[4] ELSE bytes[4] - 256)

(* strncpy pads with zeros, and what it reads ends at the first. *)
StringBytes(string, length) == [i \in 1 .. length |-> IF i <= Len(string) THEN string[i] ELSE 0]
StringOf(bytes) ==
    LET end == SelectInSeq(bytes, LAMBDA b : b = 0)
    IN  IF end = 0 THEN bytes ELSE SubSeq(bytes, 1, end - 1)
StringSmaller(s, t) ==
    \/ IsStrictPrefix(s, t)
    \/ \E i \in DOMAIN s \cap DOMAIN t : s[i] < t[i] /\ SubSeq(s, 1, i - 1) = SubSeq(t, 1, i - 1)

BytesOf(val, length) ==
    CASE val.dt = "DT_STRING" -> StringBytes(val.v, length)
      [] val.dt = "DT_INT"    -> IntBytes(val.v)
      [] val.dt = "DT_FLOAT"  -> FloatBytes[val.v]
      [] val.dt = "DT_BOOL"   -> <<val.v, 0>>

(* The types are those the schema has at the time; lengths never change. *)
WidthOf(types, a) ==
    CASE types[a] = "DT_STRING" -> declared.lengths[a]
      [] types[a] = "DT_INT"    -> intTypeSize
      [] types[a] = "DT_FLOAT"  -> FLOAT_SIZE
      [] types[a] = "DT_BOOL"   -> BOOL_SIZE

WidthsBefore(types, n) == FoldLeft(LAMBDA sum, i : sum + WidthOf(types, i - 1), 0, [i \in 1 .. n |-> i])

(* getRecordSize without the mark, and attrOffset from the first byte, as
   rm_serializer.c has it. *)
SizeOfAttributes(types) == WidthsBefore(types, Cardinality(DOMAIN types))
OffsetFromTheFirst(types, a) == WidthsBefore(types, a)

getRecordSize(types) == WidthsBefore(types, Cardinality(DOMAIN types)) + 1
attrOffset(types, a) == 1 + WidthsBefore(types, a)
BytesAt(types, a) == [i \in 1 .. WidthOf(types, a) |-> data[attrOffset(types, a) + i]]
Overwritten(bytes, offset, by) ==
    [i \in 1 .. Max({Len(bytes), offset + Len(by)}) |->
        IF i - offset \in DOMAIN by THEN by[i - offset]
        ELSE IF i \in DOMAIN bytes THEN bytes[i] ELSE 0]

-----------------------------------------------------------------------------
(* getAttr makes attribute 1 a string, whatever it is, before it reads it. *)
TypesAfterGet(types, a) == IF a = 1 THEN [types EXCEPT ![1] = "DT_STRING"] ELSE types

(* Floats and bools are copied over the pointer to the result instead of into
   the result, which stays as malloc delivered it. *)
AttrValues(types, a) ==
    CASE types[a] = "DT_INT"    -> {Value("DT_INT", IntOf(BytesAt(types, a)))}
      [] types[a] = "DT_STRING" -> {Value("DT_STRING", StringOf(BytesAt(types, a)))}
      [] OTHER                  -> {Value(types[a], x) : x \in Junk}

(* Comparisons and connectives.  An error of any of them is found by CHECK in
   evalExpr, which ends the program. *)
Exit == Value("exit", 0)
Crash == Value("crash", 0)
Ends(val) == val.dt \in {"exit", "crash"}
Bool(b) == Value("DT_BOOL", IF b THEN 1 ELSE 0)

valueEquals(l, r) == IF l.dt # r.dt THEN {Exit} ELSE {Bool(l.v = r.v)}

SmallerOrEqual(l, r) ==
    IF l.dt # r.dt THEN {Exit}
    ELSE IF l.dt = "DT_STRING" THEN {Bool(~StringSmaller(r.v, l.v))} ELSE {Bool(l.v <= r.v)}

(* There is no break behind the case of bools: they go on to strcmp. *)
valueSmaller(l, r) ==
    IF l.dt # r.dt THEN {Exit}
    ELSE CASE l.dt = "DT_STRING" -> {Bool(StringSmaller(l.v, r.v))}
           [] l.dt = "DT_BOOL"   -> {Bool(TRUE), Bool(FALSE), Crash}
           [] OTHER              -> {Bool(l.v < r.v)}

boolNot(l) == IF l.dt # "DT_BOOL" THEN {Exit} ELSE {Bool(l.v = 0)}

(* boolAnd and boolOr leave the type of the result as evalExpr made it, an int -1,
   and write the lower half of it. *)
UntypedBool(b) == Value("DT_INT", IF b THEN -65535 ELSE -65536)
Connected(l, r, b) == IF l.dt # "DT_BOOL" \/ r.dt # "DT_BOOL" THEN {Exit} ELSE {UntypedBool(b)}
boolAnd(l, r) == Connected(l, r, l.v # 0 /\ r.v # 0)
boolOr(l, r) == Connected(l, r, l.v # 0 \/ r.v # 0)

Applied(op, l, r) ==
    CASE op = "OP_BOOL_NOT"     -> boolNot(l)
      [] op = "OP_BOOL_AND"     -> boolAnd(l, r)
      [] op = "OP_BOOL_OR"      -> boolOr(l, r)
      [] op = "OP_COMP_EQUAL"   -> valueEquals(l, r)
      [] op = "OP_COMP_SMALLER" -> valueSmaller(l, r)

(* What the evaluation may come to with the next node: the values so far, and the
   data types, which a reference to attribute 1 changes for all that follows. *)
AfterNode(at, node) ==
    LET With(val, types) == [vals |-> Append(at.vals, val), types |-> types]
    IN  IF at.vals # <<>> /\ Ends(Last(at.vals)) THEN {at}
        ELSE CASE node.type = "EXPR_CONST"   -> {With(node.cons, at.types)}
               [] node.type = "EXPR_ATTRREF" ->
                    LET after == TypesAfterGet(at.types, node.attrRef)
                    IN  {With(val, after) : val \in AttrValues(after, node.attrRef)}
               [] node.type = "EXPR_OP"      ->
                    {With(val, at.types) :
                        val \in Applied(node.op, at.vals[Head(node.args)], at.vals[Last(node.args)])}

(* All that may have become of an expression after its nodes. *)
Reached(sofar, node) == UNION {AfterNode(at, node) : at \in sofar}
Results(e, types) ==
    {[val |-> Last(at.vals), types |-> at.types] :
        at \in FoldLeft(Reached, {[vals |-> <<>>, types |-> types]}, e)}

(* How next reads the result: as a bool, whatever its type. *)
Satisfied(val) == val.v % 65536 = 1

-----------------------------------------------------------------------------
Zero(dt) == Value(dt, IF dt = "DT_STRING" THEN <<>> ELSE 0)
NoSchema == [types |-> <<>>, lengths |-> <<>>]

Init ==
    /\ up = TRUE
    /\ declared = NoSchema
    /\ dataTypes = <<>>
    /\ data = <<>>
    /\ size = 0
    /\ value = <<>>
    /\ answer = Nothing

(* The schema keeps the arrays it is given. *)
createSchema(s) ==
    /\ declared = NoSchema
    /\ declared' = s
    /\ dataTypes' = s.types
    /\ UNCHANGED <<up, data, size, value, answer>>

freeSchema ==
    /\ data = <<>>
    /\ declared' = NoSchema
    /\ dataTypes' = <<>>
    /\ UNCHANGED <<up, data, size, value, answer>>

(* calloc, then the mark of a record in no table and a zero behind it. *)
createRecord ==
    /\ declared # NoSchema
    /\ data = <<>>
    /\ size' = getRecordSize(dataTypes)
    /\ data' = Overwritten([i \in 1 .. size' |-> 0], 0, <<45, 0>>)
    /\ value' = [a \in Attrs |-> IF dataTypes[a] = declared.types[a] THEN Zero(dataTypes[a]) ELSE Lost]
    /\ UNCHANGED <<up, declared, dataTypes, answer>>

freeRecord ==
    /\ data' = <<>>
    /\ size' = 0
    /\ value' = <<>>
    /\ UNCHANGED <<up, declared, dataTypes, answer>>

(* What a client set before the data types changed lies at another place now, but
   for attribute 0. *)
ValuesUnder(types) ==
    IF types = dataTypes THEN value ELSE [a \in Attrs |-> IF a = 0 THEN value[a] ELSE Lost]

getAttr(a) ==
    LET types == TypesAfterGet(dataTypes, a)
    IN  /\ answer' \in AttrValues(types, a)
        /\ dataTypes' = types
        /\ value' = ValuesUnder(types)
        /\ UNCHANGED <<up, declared, data, size>>

(* Clients set an attribute to a value of the type they declared.  One that has
   become a string of length 0 is not written. *)
setAttr(a, val) ==
    LET written == IF dataTypes[a] = val.dt THEN BytesOf(val, declared.lengths[a]) ELSE <<>>
    IN  /\ declared.types[a] = val.dt
        /\ data' = Overwritten(data, attrOffset(dataTypes, a), written)
        /\ value' = [value EXCEPT ![a] = IF dataTypes[a] = val.dt THEN val ELSE Lost]
        /\ UNCHANGED <<up, declared, dataTypes, size, answer>>

evalExpr(e) ==
    \E result \in Results(e, dataTypes) :
        /\ up' = ~Ends(result.val)
        /\ answer' = result.val
        /\ dataTypes' = result.types
        /\ value' = ValuesUnder(result.types)
        /\ UNCHANGED <<declared, data, size>>

Next ==
    /\ up
    /\ \/ \E s \in Schemas : createSchema(s)
       \/ freeSchema
       \/ createRecord
       \/ /\ data # <<>>
          /\ \/ freeRecord
             \/ \E a \in Attrs : getAttr(a)
             \/ \E a \in Attrs, val \in Contents : setAttr(a, val)
             \/ \E e \in Conditions : evalExpr(e)

Spec == Init /\ [][Next]_vars

-----------------------------------------------------------------------------
(* Under whatever types, no attribute ends behind the record, and none is written
   there. *)
TypeOK ==
    /\ up \in BOOLEAN
    /\ declared \in Schemas \cup {NoSchema}
    /\ DOMAIN dataTypes = Attrs
    /\ data \in Seq(Byte)
    /\ Len(data) = size
    /\ data # <<>> =>
          /\ DOMAIN value = Attrs
          /\ \A a \in Attrs : attrOffset(dataTypes, a) + WidthOf(dataTypes, a) <= size

(* What a client may ask for without a change of the schema: ints and strings, the
   attribute 1 only if it is a string. *)
Readable(a) == value[a].dt = "DT_STRING" \/ (value[a].dt = "DT_INT" /\ a # 1)
Kept(a) ==
    IF value[a].dt = "DT_STRING"
    THEN SubSeq(value[a].v, 1, Min({Len(value[a].v), declared.lengths[a]}))
    ELSE value[a].v

(* Under whatever types the schema has by now: an attribute holds what it was set
   to last, strings cut at their length, and no other attribute nor the mark of
   the slot was touched; getAttr delivers it if it is an int or a string. *)
AttributesKept ==
    data # <<>> =>
        /\ data[1] = 45
        /\ \A a \in Attrs : value[a] # Lost =>
              /\ BytesAt(dataTypes, a) = BytesOf(value[a], declared.lengths[a])
              /\ Readable(a) => AttrValues(TypesAfterGet(dataTypes, a), a) = {Value(value[a].dt, Kept(a))}

(* What the nodes of a condition mean, over what the attributes were set to.  There
   is a meaning to those that are well typed, refer to readable attributes, do not
   ask whether a bool is smaller, and have AND and OR outside of everything else. *)
Meaningless == Value("none", 0)
MeaningOf(node, before) ==
    CASE node.type = "EXPR_CONST"   -> IF node.cons.dt = "DT_BOOL" THEN Value("DT_BOOL", node.cons.v = 1) ELSE node.cons
      [] node.type = "EXPR_ATTRREF" ->
            IF Readable(node.attrRef) THEN Value(value[node.attrRef].dt, Kept(node.attrRef)) ELSE Meaningless
      [] node.type = "EXPR_OP"      ->
            LET l == before[Head(node.args)]
                r == before[Last(node.args)]
                BothAre(types) == l.dt = r.dt /\ l.dt \in types
            IN  CASE node.op = "OP_BOOL_NOT" /\ BothAre({"DT_BOOL"})  -> Value("DT_BOOL", ~l.v)
                  [] node.op = "OP_BOOL_AND" /\ BothAre({"DT_BOOL"})  -> Value("outermost", l.v /\ r.v)
                  [] node.op = "OP_BOOL_OR" /\ BothAre({"DT_BOOL"})   -> Value("outermost", l.v \/ r.v)
                  [] node.op = "OP_COMP_EQUAL" /\ BothAre(DataTypes) -> Value("DT_BOOL", l.v = r.v)
                  [] node.op = "OP_COMP_SMALLER" /\ BothAre({"DT_INT", "DT_FLOAT"}) -> Value("DT_BOOL", l.v < r.v)
                  [] node.op = "OP_COMP_SMALLER" /\ BothAre({"DT_STRING"}) -> Value("DT_BOOL", StringSmaller(l.v, r.v))
                  [] OTHER -> Meaningless

Meanings(e) == FoldLeft(LAMBDA before, node : Append(before, MeaningOf(node, before)), <<>>, e)

(* A scan takes the slots that its condition means: such a condition ends no program,
   leaves the schema as it is, and is satisfied just if it is true of the values. *)
ConditionsMean ==
    up /\ data # <<>> =>
        \A e \in Conditions : Meaningless \notin Range(Meanings(e)) =>
            \A result \in Results(e, dataTypes) :
                LET meaning == Last(Meanings(e))
                IN  /\ ~Ends(result.val)
                    /\ result.types = dataTypes
                    /\ meaning.dt \in {"DT_BOOL", "outermost"} => (Satisfied(result.val) <=> meaning.v)
=============================================================================
