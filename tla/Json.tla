-------------------------------- MODULE Json --------------------------------
(***************************************************************************)
(* Json::Value of jsoncpp: a value and the operations that change it.  All *)
(* that the server stores as JSON, answers or is configured by is held in  *)
(* these.                                                                  *)
(*                                                                         *)
(* A value is [kind, data]; the elements of an array are a function from   *)
(* the indices that exist, which need not be all below the size, the       *)
(* members of an object a function from their names, and a string is a     *)
(* sequence of bytes.  A real counts halves.  The widths of integers are   *)
(* constants.                                                              *)
(***************************************************************************)
EXTENDS Integers, Sequences, FiniteSets, SequencesExt, TLC

CONSTANTS
  MaxInt,          \* Value::maxInt
  MaxLargestInt,   \* Value::maxLargestInt
  Items,           \* values that are put into the value
  Names,           \* names of members
  MaxEdits,        \* bound: operations on the value
  MaxSize          \* bound: indices

VARIABLES
  value,           \* a Json::Value
  plain,           \* history: what it ought to hold, as a sequence or a function
  edits            \* history: the number of operations so far

jsonVars == <<value, plain, edits>>

MaxLargestUInt == 2 * MaxLargestInt + 1
MaxUInt == 2 * MaxInt + 1

Null == [kind |-> "null", data |-> 0]
INum(n) == [kind |-> "int", data |-> n]
UNum(n) == [kind |-> "uint", data |-> n]
RNum(halves) == [kind |-> "real", data |-> halves]
Bool(b) == [kind |-> "bool", data |-> b]
Text(s) == [kind |-> "str", data |-> s]
Array(m) == [kind |-> "arr", data |-> m]
Object(m) == [kind |-> "obj", data |-> m]

EmptyMap == [k \in {} |-> Null]
Put(m, k, x) == (k :> x) @@ m
Without(m, k) == [j \in DOMAIN m \ {k} |-> m[j]]
MinOf(S) == CHOOSE x \in S : \A y \in S : x <= y
MaxOf(S) == CHOOSE x \in S : \A y \in S : y <= x

(***************************************************************************)
(* Conversions                                                             *)
(***************************************************************************)
Whole(v) == IF v.kind = "real" THEN v.data % 2 = 0 ELSE TRUE
Half(v) == IF v.kind = "real" THEN v.data ELSE 2 * v.data
Numeric(v) == v.kind \in {"int", "uint", "real"}
InRange(v, lo, hi) == Half(v) >= 2 * lo /\ Half(v) <= 2 * hi

IsInt(v) == Numeric(v) /\ Whole(v) /\ InRange(v, -MaxInt - 1, MaxInt)
IsUInt(v) == Numeric(v) /\ Whole(v) /\ InRange(v, 0, MaxUInt)

\* isInt64 and isUInt64; a real must be strictly below the limit, which it cannot express
IsLargestInt(v) ==
  CASE v.kind = "int"  -> TRUE
    [] v.kind = "uint" -> v.data <= MaxLargestInt
    [] v.kind = "real" -> Whole(v) /\ v.data >= 2 * (-MaxLargestInt - 1) /\ v.data < 2 * (MaxLargestInt + 1)
    [] OTHER        -> FALSE
IsLargestUInt(v) ==
  CASE v.kind = "int"  -> v.data >= 0
    [] v.kind = "uint" -> TRUE
    [] v.kind = "real" -> Whole(v) /\ v.data >= 0 /\ v.data < 2 * (MaxLargestUInt + 1)
    [] OTHER        -> FALSE
IsNumeric(v) == v.kind = "real" \/ IsLargestInt(v) \/ IsLargestUInt(v)

\* The number an as...() gives, or nothing where it asserts: a real is cut towards zero
Truncate(h) == IF h >= 0 THEN h \div 2 ELSE -((-h) \div 2)
AsNumber(v, isIt, lo, hi) ==
  CASE v.kind \in {"int", "uint"} -> IF isIt THEN {v.data} ELSE {}
    [] v.kind = "real" -> IF InRange(v, lo, hi) THEN {Truncate(v.data)} ELSE {}
    [] v.kind = "null" -> {0}
    [] v.kind = "bool" -> {IF v.data THEN 1 ELSE 0}
    [] OTHER        -> {}
AsInt(v) == AsNumber(v, IsInt(v), -MaxInt - 1, MaxInt)
AsUInt(v) == AsNumber(v, IsUInt(v), 0, MaxUInt)
AsLargestInt(v) == AsNumber(v, IsLargestInt(v), -MaxLargestInt - 1, MaxLargestInt)
AsLargestUInt(v) == AsNumber(v, IsLargestUInt(v), 0, MaxLargestUInt)
AsBool(v) ==
  CASE v.kind = "bool" -> {v.data}
    [] v.kind = "null" -> {FALSE}
    [] Numeric(v)   -> {v.data # 0}
    [] OTHER        -> {}

IsConvertibleTo(v, t) ==
  CASE t = "null" -> \/ IsNumeric(v) /\ v.data = 0
                     \/ v = Bool(FALSE) \/ v = Text(<<>>) \/ v = Null
                     \/ v.kind \in {"arr", "obj"} /\ DOMAIN v.data = {}
    [] t = "int"  -> IsInt(v) \/ (v.kind = "real" /\ InRange(v, -MaxInt - 1, MaxInt)) \/ v.kind \in {"bool", "null"}
    [] t = "uint" -> IsUInt(v) \/ (v.kind = "real" /\ InRange(v, 0, MaxUInt)) \/ v.kind \in {"bool", "null"}
    [] t \in {"real", "bool"} -> IsNumeric(v) \/ v.kind \in {"bool", "null"}
    [] t = "str"  -> IsNumeric(v) \/ v.kind \in {"bool", "str", "null"}
    [] t = "arr"  -> v.kind \in {"arr", "null"}
    [] OTHER      -> v.kind \in {"obj", "null"}

(***************************************************************************)
(* Operations on a value                                                   *)
(***************************************************************************)
\* The size of an array is its highest index + 1
SizeOf(v) == CASE v.kind = "arr" -> IF DOMAIN v.data = {} THEN 0 ELSE MaxOf(DOMAIN v.data) + 1
               [] v.kind = "obj" -> Cardinality(DOMAIN v.data)
               [] OTHER       -> 0

Elements(v) == IF v.kind = "null" THEN EmptyMap ELSE v.data

\* operator[](ArrayIndex) const, and the one that makes the element
At(v, i) == IF v.kind = "arr" /\ i \in DOMAIN v.data THEN v.data[i] ELSE Null
Access(v, i) == Array(IF i \in DOMAIN Elements(v) THEN Elements(v) ELSE Put(Elements(v), i, Null))
Assign(v, i, x) == Array(Put(Elements(v), i, x))
AppendTo(v, x) == Assign(v, SizeOf(v), x)

\* resize; it throws at the end, with the elements gone, if the new last one is a hole
Resize(v, n) ==
  IF n = 0 THEN Array(EmptyMap)
  ELSE IF n > SizeOf(v) THEN Access(v, n - 1)
  ELSE Array([i \in {j \in DOMAIN Elements(v) : j < n} |-> v.data[i]])

\* removeIndex: an index that does not exist is refused, the later ones move down
RemoveIndex(v, i) ==
  IF v.kind # "arr" THEN v
  ELSE IF i \notin DOMAIN v.data THEN v
  ELSE LET size == SizeOf(v) IN
       Array([j \in {k \in 0 .. size - 2 : k >= i \/ k \in DOMAIN v.data} |->
                IF j < i THEN v.data[j] ELSE At(v, j + 1)])

\* removeMember(key, &removed), and removeMember(key), which passes c_str() on and so
\* looks for what comes before the first zero byte; it throws where the value is neither
\* an object nor null
UpToZero(s) == LET z == {k \in 1 .. Len(s) : s[k] = 0} IN IF z = {} THEN s ELSE SubSeq(s, 1, MinOf(z) - 1)
RemoveMember(v, k) == IF v.kind = "obj" THEN Object(Without(v.data, k)) ELSE v
RemoveNamed(v, k) == RemoveMember(v, UpToZero(k))

\* operator[](key): resolveReference
Member(v, k) == IF v.kind = "obj" /\ k \in DOMAIN v.data THEN v.data[k] ELSE Null
SetMember(v, k, x) == Object(Put(Elements(v), k, x))

(***************************************************************************)
(* Comparison                                                              *)
(***************************************************************************)
\* memcmp and then the lengths: CZString::operator<, the order of members
RECURSIVE Before(_, _)
Before(a, b) == IF a = <<>> \/ b = <<>> THEN Len(a) < Len(b)
                ELSE IF Head(a) = Head(b) THEN Before(Tail(a), Tail(b)) ELSE Head(a) < Head(b)
KeyLess(v, j, k) == IF v.kind = "arr" THEN j < k ELSE Before(j, k)
KeysOf(v) == SetToSortSeq(DOMAIN v.data, LAMBDA j, k : KeyLess(v, j, k))

TypeRank(v) == CASE v.kind = "null" -> 0 [] v.kind = "int" -> 1 [] v.kind = "uint" -> 2 [] v.kind = "real" -> 3
                 [] v.kind = "str" -> 4 [] v.kind = "bool" -> 5 [] v.kind = "arr" -> 6 [] OTHER -> 7

\* operator<: types, then sizes, then the first element that differs
RECURSIVE Less(_, _)
Less(a, b) ==
  CASE a.kind # b.kind -> TypeRank(a) < TypeRank(b)
    [] a.kind = b.kind /\ Numeric(a) -> a.data < b.data
    [] a.kind = b.kind /\ a.kind = "bool" -> ~a.data /\ b.data
    [] a.kind = b.kind /\ a.kind = "str" -> Before(a.data, b.data)
    [] a.kind = b.kind /\ a.kind \in {"arr", "obj"} ->
         LET ka == KeysOf(a)
             kb == KeysOf(b)
             differ == {i \in 1 .. Len(ka) : IF ka[i] = kb[i] THEN a.data[ka[i]] # b.data[kb[i]] ELSE TRUE}
             i == CHOOSE k \in differ : \A j \in differ : k <= j
         IN IF Len(ka) # Len(kb) THEN Len(ka) < Len(kb)
            ELSE /\ differ # {}
                 /\ IF ka[i] = kb[i] THEN Less(a.data[ka[i]], b.data[ka[i]]) ELSE KeyLess(a, ka[i], kb[i])
    [] OTHER -> FALSE

(***************************************************************************)
(* Paths: Path::makePath, resolve and make.  An argument is an index or a  *)
(* name; make and resolve of the wrong type assert.                        *)
(***************************************************************************)
ArgIndex(i) == [kind |-> "index", data |-> i]
ArgKey(k) == [kind |-> "key", data |-> k]
RECURSIVE PathArgs(_)
PathArgs(t) ==
  LET upTo(S) == LET at == {k \in 1 .. Len(t) : k > 1 /\ t[k] \in S} IN IF at = {} THEN Len(t) + 1 ELSE MinOf(at)
      rest(k) == SubSeq(t, k, Len(t))
  IN CASE t = <<>> -> <<>>
       [] t # <<>> /\ Head(t) = 91 -> \* an index in brackets
            LET e == upTo(0 .. 255 \ 48 .. 57)
            IN <<ArgIndex(FoldLeft(LAMBDA a, c : a * 10 + c - 48, 0, SubSeq(t, 2, e - 1)))>> \o PathArgs(rest(e + 1))
       [] t # <<>> /\ Head(t) = 46 -> PathArgs(Tail(t))
       [] OTHER -> <<ArgKey(SubSeq(t, 1, upTo({91, 46}) - 1))>> \o PathArgs(rest(upTo({91, 46})))

Fits(v, arg) == v.kind \in {"null", IF arg.kind = "index" THEN "arr" ELSE "obj"}
Sub(v, arg) == IF arg.kind = "index" THEN At(v, arg.data) ELSE Member(v, arg.data)
Resolve(v, args, default) ==
  LET step(a, arg) == IF a.ok /\ a.v.kind # "null" /\ Fits(a.v, arg)
                      THEN IF arg.data \in DOMAIN a.v.data THEN [a EXCEPT !.v = Sub(a.v, arg)] ELSE [a EXCEPT !.ok = FALSE]
                      ELSE [a EXCEPT !.ok = FALSE]
      end == FoldLeft(step, [ok |-> TRUE, v |-> v], args)
  IN IF end.ok THEN end.v ELSE default

\* The value with x at the path, or nothing where operator[] asserts
RECURSIVE Make(_, _, _)
Make(v, args, x) ==
  IF args = <<>> THEN {x}
  ELSE IF ~Fits(v, Head(args)) THEN {}
  ELSE {IF Head(args).kind = "index" THEN Assign(v, Head(args).data, y) ELSE SetMember(v, Head(args).data, y) :
          y \in Make(Sub(v, Head(args)), Tail(args), x)}

(***************************************************************************)
(* A value under any sequence of operations.  `plain` is a sequence while  *)
(* the value is an array, and a function while it is an object.            *)
(***************************************************************************)
Becomes(v, p) == value' = v /\ plain' = p /\ edits' = edits + 1

ListOf == IF value.kind = "arr" THEN plain ELSE <<>>
Stretch(s, n) == s \o [k \in 1 .. n - Len(s) |-> Null]
IsList == value.kind \in {"null", "arr"}

JAssign(i, x) ==
  /\ IsList
  /\ Becomes(Assign(value, i, x), [Stretch(ListOf, i + 1) EXCEPT ![i + 1] = x])

JAppend(x) == IsList /\ Becomes(AppendTo(value, x), Append(ListOf, x))

\* The holes at the end of a shortened array vanish; JSON_ASSERT of the size then throws.
JResize(n) ==
  /\ IsList
  /\ LET kept == {k \in 0 .. n : k = 0 \/ (k - 1) \in DOMAIN Elements(value)}
     IN Becomes(Resize(value, n), IF n > Len(ListOf) THEN Stretch(ListOf, n) ELSE SubSeq(ListOf, 1, MaxOf(kept)))

\* An index that does not exist is refused, even below the size.  Holes before a last
\* element vanish with it.
JRemoveIndex(i) ==
  /\ value.kind = "arr"
  /\ LET rest == IF i \in DOMAIN value.data THEN RemoveAt(plain, i + 1) ELSE plain
         lastKept == {k \in 0 .. Len(rest) : k = 0 \/ i + 1 < Len(plain) \/ (k - 1) \in DOMAIN value.data}
     IN Becomes(RemoveIndex(value, i), SubSeq(rest, 1, MaxOf(lastKept)))

JSet(k, x) ==
  /\ value.kind \in {"null", "obj"}
  /\ Becomes(SetMember(value, k, x), Put(IF value.kind = "obj" THEN plain ELSE EmptyMap, k, x))

JRemoveMember(k) == value.kind = "obj" /\ Becomes(RemoveMember(value, k), Without(plain, k))
JRemoveNamed(k) == value.kind = "obj" /\ Becomes(RemoveNamed(value, k), Without(plain, UpToZero(k)))

JsonInit == value = Null /\ plain = <<>> /\ edits = 0

JsonNext ==
  /\ edits < MaxEdits
  /\ \/ \E x \in Items : \/ \E i \in 0 .. MaxSize - 1 : JAssign(i, x)
                         \/ SizeOf(value) < MaxSize /\ JAppend(x)
                         \/ \E k \in Names : JSet(k, x)
     \/ \E n \in 0 .. MaxSize : JResize(n)
     \/ \E i \in 0 .. MaxSize - 1 : JRemoveIndex(i)
     \/ \E k \in Names : JRemoveMember(k) \/ JRemoveNamed(k)

\* What can be converted is what isConvertibleTo says, and it keeps its number
Converts(v) ==
  /\ IsConvertibleTo(v, "int") <=> AsInt(v) # {}
  /\ IsConvertibleTo(v, "uint") <=> AsUInt(v) # {}
  /\ IsConvertibleTo(v, "bool") <=> AsBool(v) # {}
  /\ IsInt(v) => AsInt(v) = {Half(v) \div 2} /\ AsLargestInt(v) = AsInt(v)
  /\ IsUInt(v) => AsUInt(v) = {Half(v) \div 2} /\ AsLargestUInt(v) = AsUInt(v)
SomePaths == {<<ArgIndex(0), ArgKey(<<97>>)>>, <<ArgKey(<<97>>), ArgIndex(10), ArgIndex(0)>>, <<ArgKey(<<97>>), ArgKey(<<98>>)>>}
PathText(args) == FlattenSeq([k \in 1 .. Len(args) |-> IF args[k].kind = "key" THEN <<46>> \o args[k].data
                    ELSE <<91>> \o (IF args[k].data = 10 THEN <<49, 48>> ELSE <<48 + args[k].data>>) \o <<93>>])

=============================================================================
