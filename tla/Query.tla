------------------------------- MODULE Query -------------------------------
(***************************************************************************)
(* The query part of an address as the pages read and write it             *)
(* (jquery.query-object.js): the text of an address is a sequence of       *)
(* fields, the object that is parsed from it has a value for each key.     *)
(*                                                                         *)
(* Texts are sets of the names they list, so the empty text is {}.  What a *)
(* value looks like decides what it becomes: a number, a text, or true     *)
(* where nothing is written.                                               *)
(***************************************************************************)
EXTENDS Integers, Sequences, FiniteSets, SequencesExt, TLC

(* Values *)
Null == <<"null">>
True == <<"true">>
Num(n) == <<"num", n>>
Text(s) == <<"text", s>>
Array(f) == <<"array", f>>    \* f maps the indices that are there to values
Object(f) == <<"object", f>>  \* f maps tokens to values

IsArray(v) == v[1] = "array"
IsObject(v) == v[1] = "object"

Zero == Text({"0"})

\* What a test of the value, or `||`, takes for nothing.  "0" is a text.
Falsy(v) == v \in {Null, Text({}), Num(0)}

(* Tokens, the parts in brackets: a[], a[3], a[name] *)
Push == <<"push">>
Index(n) == <<"index", n>>
Name(s) == <<"name", s>>

\* A field of an address: base[token]...[token]=raw; what is written after "="
\* is <<"nothing">>, <<"number", n>> as the two expressions for numbers accept
\* it, or a text.
Field(base, tokens, raw) == [base |-> base, tokens |-> tokens, raw |-> raw]
Nothing == <<"nothing">>
Digits(n) == <<"number", n>>

-----------------------------------------------------------------------------
(* Parsing *)

\* A number begins with 1 to 9, so 0 stays a text; nothing becomes true.
Convert(raw) ==
    IF raw \in {Nothing, Text({})} THEN True
    ELSE IF raw[1] = "number" THEN Num(raw[2]) ELSE raw

\* Op(v), with v evaluated once.
With(v, Op(_)) == CHOOSE r \in {Op(x) : x \in {v}} : TRUE

Length(f) == IF DOMAIN f = {} THEN 0 ELSE 1 + Max(DOMAIN f)

Put(f, x, v) == (x :> v) @@ f
ValueAt(f, x) == IF x \in DOMAIN f THEN f[x] ELSE Null

\* The first index an object has no value for.
FirstFree(f) == CHOOSE i \in 0..Cardinality(DOMAIN f) :
                    /\ ValueAt(f, Index(i)) = Null
                    /\ \A j \in 0..(i - 1) : ValueAt(f, Index(j)) # Null

\* What a token is applied to: scalars in the way are replaced, and an array that
\* is given a name becomes an object with its indices for names.
Box(target, token) ==
    CASE IsObject(target) -> target
      [] IsArray(target) /\ token[1] # "name" -> target
      [] IsArray(target) /\ token[1] = "name" ->
             Object([t \in {Index(n) : n \in DOMAIN target[2]} |-> target[2][t[2]]])
      [] OTHER -> IF token[1] = "name" THEN Object(<<>>) ELSE Array(<<>>)

\* Where the token stores in the box.
Slot(box, token) ==
    CASE IsObject(box) -> IF token = Push THEN Index(FirstFree(box[2])) ELSE token
      [] IsArray(box) -> IF token = Push THEN Length(box[2]) ELSE token[2]

RECURSIVE Set(_, _, _)
\* set: the target with the value at the path of tokens.
Set(target, tokens, value) ==
    IF tokens = <<>> THEN value
    ELSE With(Box(target, Head(tokens)), LAMBDA box :
         With(Slot(box, Head(tokens)), LAMBDA slot :
             <<box[1], Put(box[2], slot,
                           Set(ValueAt(box[2], slot), Tail(tokens), value))>>))

\* SET
SetKey(keys, base, tokens, value) ==
    With(keys, LAMBDA k : Put(k, base, Set(ValueAt(k, base), tokens, value)))

\* copy: a new object, with every key set to what it has.
Copy(keys) == FoldSet(LAMBDA k, copy : SetKey(copy, k, <<>>, keys[k]), <<>>, DOMAIN keys)

\* set and remove work on a copy.
SetCopy(keys, base, value) == SetKey(Copy(keys), base, <<>>, value)

\* parseNew
Parse(address) ==
    FoldLeft(LAMBDA keys, f : SetKey(keys, f.base, f.tokens, Convert(f.raw)), <<>>, address)

\* GET of a whole key
Get(keys, base) ==
    LET v == ValueAt(keys, base) IN IF v[1] # "num" /\ Falsy(v) THEN Text({}) ELSE v

-----------------------------------------------------------------------------
(* Writing *)

RECURSIVE Compact(_)
\* COMPACT: what is null goes, and the arrays close up.
Compact(v) ==
    CASE IsArray(v) ->
             LET live == {i \in DOMAIN v[2] : v[2][i] # Null}
                 Nth(n) == CHOOSE i \in live : Cardinality({j \in live : j < i}) = n
             IN  Array([n \in 0..(Cardinality(live) - 1) |-> Compact(v[2][Nth(n)])])
      [] IsObject(v) ->
             Object([t \in {x \in DOMAIN v[2] : v[2][x] # Null} |-> Compact(v[2][t])])
      [] OTHER -> v

\* remove: the key is set to null and the whole object compacted.
RemoveKey(keys, base) ==
    LET nulled == SetCopy(keys, base, Null)
    IN  [k \in {x \in DOMAIN nulled : nulled[x] # Null} |-> Compact(nulled[k])]

\* true is written as the key alone; 0 is a digit like others.
Raw(v) ==
    CASE v = True -> Nothing
      [] v = Num(0) -> Zero
      [] v[1] = "num" -> Digits(v[2])
      [] OTHER -> v

RECURSIVE Fields(_, _, _)
\* build: one field for each scalar, with the path to it.
Fields(base, tokens, v) ==
    CASE v = Null -> {}
      [] IsArray(v) ->
             UNION {Fields(base, Append(tokens, Index(n)), v[2][n]) : n \in DOMAIN v[2]}
      [] IsObject(v) ->
             UNION {Fields(base, Append(tokens, t), v[2][t]) : t \in DOMAIN v[2]}
      [] OTHER -> {Field(base, tokens, Raw(v))}

\* toString; no two fields have the same path, so their order says nothing.
QueryString(keys) ==
    FoldSet(LAMBDA f, fields : Append(fields, f), <<>>,
            UNION {Fields(k, <<>>, keys[k]) : k \in DOMAIN keys})
=============================================================================
