------------------------------ MODULE JsonText ------------------------------
(***************************************************************************)
(* The texts of Json::Value: FastWriter and StyledWriter write them,       *)
(* Json::Reader reads them.  A text is a sequence of bytes.                *)
(***************************************************************************)
EXTENDS Json

CONSTANTS
  StackLimit,      \* stackLimit_g
  RightMargin,     \* StyledWriter::rightMargin_
  MaxWords         \* bound: the length of the text that is read

VARIABLES
  words,           \* the text that is read: a sequence of words with blanks between them
  expect           \* history: what the grammar allows next, innermost first

textVars == <<words, expect>>

Q == 34
Backslash == 92
Zero == 48
Digit == 48 .. 57
Space == {32, 9, 13, 10}
NewLine == 10

(***************************************************************************)
(* Writing                                                                 *)
(***************************************************************************)
RECURSIVE UintToString(_)
UintToString(n) == (IF n < 10 THEN <<>> ELSE UintToString(n \div 10)) \o <<Zero + (n % 10)>>

IntToString(n) == IF n < 0 THEN <<45>> \o UintToString(-n) ELSE UintToString(n)

\* valueToString of a double, which is written without a point if it has no fraction
RealToString(h) ==
  (IF h < 0 THEN <<45>> ELSE <<>>) \o UintToString((IF h < 0 THEN -h ELSE h) \div 2)
     \o (IF h % 2 = 0 THEN <<>> ELSE <<46, 53>>)

\* The letter of a short escape
Escapes == (34 :> 34) @@ (92 :> 92) @@ (8 :> 98) @@ (12 :> 102) @@ (10 :> 110) @@ (13 :> 114) @@ (9 :> 116)
HexDigit(n) == IF n < 10 THEN Zero + n ELSE 55 + n

EscapeQuoteOnly(c) == IF c = 34 THEN <<Backslash, 34>> ELSE <<c>>
EscapeByte(c) ==
  CASE c \in DOMAIN Escapes -> <<Backslash, Escapes[c]>>
    [] c \notin DOMAIN Escapes /\ c < 32 -> <<Backslash, 117, Zero, Zero, HexDigit(c \div 16), HexDigit(c % 16)>>
    [] OTHER -> <<c>>

\* valueToQuotedStringN, and valueToQuotedString, which stops at the first zero byte
QuotedN(s) == <<Q>> \o FlattenSeq([k \in 1 .. Len(s) |-> EscapeByte(s[k])]) \o <<Q>>
Quoted(s) == QuotedN(UpToZero(s))

True == <<116, 114, 117, 101>>
False == <<102, 97, 108, 115, 101>>
NullText == <<110, 117, 108, 108>>

Scalar(v) ==
  CASE v.kind = "null" -> NullText
    [] v.kind \in {"int", "uint"} -> IntToString(v.data)
    [] v.kind = "real" -> RealToString(v.data)
    [] v.kind = "bool" -> IF v.data THEN True ELSE False
    [] OTHER        -> QuotedN(v.data)

MemberNames(v) == KeysOf(v)

Joined(parts, sep) ==
  FlattenSeq([k \in 1 .. Len(parts) |-> IF k = 1 THEN parts[k] ELSE sep \o parts[k]])

\* FastWriter::writeValue
RECURSIVE FastWrite(_)
FastWrite(v) ==
  CASE v.kind = "arr" -> <<91>> \o Joined([k \in 1 .. SizeOf(v) |-> FastWrite(At(v, k - 1))], <<44>>) \o <<93>>
    [] v.kind = "obj" -> LET names == MemberNames(v) IN
                      <<123>> \o Joined([k \in 1 .. Len(names) |->
                                   QuotedN(names[k]) \o <<58>> \o FastWrite(v.data[names[k]])], <<44>>) \o <<125>>
    [] OTHER       -> Scalar(v)

\* StyledWriter: the document so far and the indentation go through.  writeIndent starts
\* a line unless a blank says that it is done.
WriteIndent(doc, ind) ==
  IF doc = <<>> THEN ind
  ELSE IF Last(doc) = 32 THEN doc
  ELSE (IF Last(doc) = NewLine THEN doc ELSE Append(doc, NewLine)) \o ind
Deeper(ind) == ind \o <<32, 32, 32>>

IsEmpty(v) == v.kind \in {"arr", "obj"} /\ SizeOf(v) = 0
Short(v) == CASE v.kind = "arr" -> <<91, 93>> [] v.kind = "obj" -> <<123, 125>> [] OTHER -> Scalar(v)

\* isMultineArray: too many elements, elements that are not empty, or too long a line
IsMultiLine(v) ==
  LET n == SizeOf(v) IN
  \/ n * 3 >= RightMargin
  \/ \E i \in 0 .. n - 1 : At(v, i).kind \in {"arr", "obj"} /\ ~IsEmpty(At(v, i))
  \/ 4 + (n - 1) * 2 + FoldLeft(LAMBDA a, k : a + Len(Short(At(v, k - 1))), 0, [k \in 1 .. n |-> k]) >= RightMargin

RECURSIVE StyledWrite(_, _, _)
StyledWrite(doc, v, ind) ==
  LET n == SizeOf(v)
      names == MemberNames(v)
      element(d, k) == LET e == StyledWrite(WriteIndent(d, Deeper(ind)), At(v, k - 1), Deeper(ind))
                       IN IF k = n THEN e ELSE Append(e, 44)
      member(d, k) == LET e == StyledWrite(WriteIndent(d, Deeper(ind)) \o Quoted(names[k]) \o <<32, 58, 32>>,
                                           v.data[names[k]], Deeper(ind))
                      IN IF k = n THEN e ELSE Append(e, 44)
  IN CASE v.kind = "arr" /\ n > 0 /\ IsMultiLine(v) ->
            WriteIndent(FoldLeft(element, Append(WriteIndent(doc, ind), 91), [k \in 1 .. n |-> k]), ind) \o <<93>>
       [] v.kind = "arr" /\ n > 0 /\ ~IsMultiLine(v) ->
            doc \o <<91, 32>> \o Joined([k \in 1 .. n |-> Short(At(v, k - 1))], <<44, 32>>) \o <<32, 93>>
       [] v.kind = "obj" /\ n > 0 ->
            WriteIndent(FoldLeft(member, Append(WriteIndent(doc, ind), 123), [k \in 1 .. n |-> k]), ind) \o <<125>>
       [] OTHER -> doc \o Short(v)

StyledText(v) == Append(StyledWrite(<<>>, v, <<>>), NewLine)

(***************************************************************************)
(* Reading.  p is current_, the position of the next byte.                 *)
(***************************************************************************)
Peek(t, p) == IF p <= Len(t) THEN t[p] ELSE 0
After(t, p) == IF p <= Len(t) THEN p + 1 ELSE p

\* The first position from p on whose byte is not in S
SkipOver(t, p, S) ==
  LET stop == {k \in p .. Len(t) : t[k] \notin S}
  IN IF stop = {} THEN Len(t) + 1 ELSE CHOOSE k \in stop : \A j \in stop : k <= j
SkipSpaces(t, p) == SkipOver(t, p, Space)

Match(t, p, rest) == p + Len(rest) - 1 <= Len(t) /\ SubSeq(t, p, p + Len(rest) - 1) = rest

\* readNumber: digits, a fraction, an exponent, each of which may be empty
NumberEnd(t, p) ==
  LET d == SkipOver(t, p, Digit)
      f == IF Peek(t, d) = 46 THEN SkipOver(t, d + 1, Digit) ELSE d
      sign(k) == IF Peek(t, k) \in {43, 45} THEN k + 1 ELSE k
  IN IF Peek(t, f) \in {101, 69} THEN SkipOver(t, sign(f + 1), Digit) ELSE f

\* readString: the position after the closing quote, or after the end without one
RECURSIVE StringEnd(_, _)
StringEnd(t, p) ==
  CASE p > Len(t)        -> [ok |-> FALSE, end |-> p]
    [] Peek(t, p) = Q    -> [ok |-> TRUE, end |-> p + 1]
    [] Peek(t, p) = Backslash -> StringEnd(t, After(t, p + 1))
    [] OTHER             -> StringEnd(t, p + 1)

\* readComment: a slash is read, p is after it
CommentEnd(t, p) ==
  LET closes == {k \in p + 1 .. Len(t) - 1 : t[k] = 42 /\ t[k + 1] = 47}
      eols == {k \in p + 1 .. Len(t) : t[k] \in {10, 13}}
      first(S) == CHOOSE k \in S : \A j \in S : k <= j
  IN CASE Peek(t, p) = 42 /\ closes # {} -> [ok |-> TRUE, end |-> first(closes) + 2]
       [] Peek(t, p) = 47 -> [ok |-> TRUE, end |-> IF eols = {} THEN Len(t) + 1 ELSE first(eols) + 1]
       [] OTHER -> [ok |-> FALSE, end |-> IF Peek(t, p) = 42 THEN Len(t) + 1 ELSE After(t, p)]

Tok(type, start, end) == [type |-> type, start |-> start, end |-> end]
Punctuation == (123 :> "{") @@ (125 :> "}") @@ (91 :> "[") @@ (93 :> "]") @@ (44 :> ",") @@ (58 :> ":") @@ (0 :> "end")
Literals == (116 :> [type |-> "true", rest |-> Tail(True)]) @@ (102 :> [type |-> "false", rest |-> Tail(False)])
            @@ (110 :> [type |-> "null", rest |-> Tail(NullText)])

ReadToken(t, p) ==
  LET s == SkipSpaces(t, p)
      c == Peek(t, s)
      n == After(t, s)
      orError(r, type) == Tok(IF r.ok THEN type ELSE "error", s, r.end)
  IN CASE c \in DOMAIN Punctuation   -> Tok(Punctuation[c], s, n)
       [] c = Q                      -> orError(StringEnd(t, n), "string")
       [] c = 47                     -> orError(CommentEnd(t, n), "comment")
       [] c \in Digit \cup {45}      -> Tok("number", s, NumberEnd(t, n))
       [] c \in DOMAIN Literals      -> LET l == Literals[c] IN
                                        IF Match(t, n, l.rest) THEN Tok(l.type, s, n + Len(l.rest)) ELSE Tok("error", s, n)
       [] OTHER                      -> Tok("error", s, n)

SkipNoComments(t, p) == ReadToken(t, p)
RECURSIVE SkipCommentTokens(_, _)
SkipCommentTokens(t, p) ==
  LET k == ReadToken(t, p) IN IF k.type = "comment" THEN SkipCommentTokens(t, k.end) ELSE k

Failed == [ok |-> FALSE, v |-> Null]
Got(v) == [ok |-> TRUE, v |-> v]
Digits(s) == FoldLeft(LAMBDA a, c : a * 10 + (c - Zero), 0, s)

\* decodeDouble, of numbers without an exponent and with a fraction of halves
DecodeDouble(s) ==
  LET body == IF Head(s) = 45 THEN Tail(s) ELSE s
      int == SubSeq(body, 1, SkipOver(body, 1, Digit) - 1)
      frac == SubSeq(body, Len(int) + 2, Len(body))
      halves == 2 * Digits(int) + (IF 53 \in ToSet(frac) THEN 1 ELSE 0)
  IN IF int \o frac = <<>> THEN Failed ELSE Got(RNum(IF body = s THEN halves ELSE -halves))

\* decodeNumber: digits are taken while the number cannot pass the widest integer
DecodeNumber(s) ==
  LET negative == Head(s) = 45
      body == IF negative THEN Tail(s) ELSE s
      limit == IF negative THEN MaxLargestInt + 1 ELSE MaxLargestUInt
      take(a, k) ==
        LET digit == body[k] - Zero IN
        CASE a = -1 \/ body[k] \notin Digit -> -1
          [] a # -1 /\ body[k] \in Digit /\ a >= limit \div 10
               /\ (a > limit \div 10 \/ k < Len(body) \/ digit > limit % 10) -> -1
          [] OTHER -> a * 10 + digit
      n == FoldLeft(take, 0, [k \in 1 .. Len(body) |-> k])
  IN CASE n = -1   -> DecodeDouble(s)
       [] negative /\ n # -1 -> Got(INum(-n))
       [] OTHER    -> Got(IF n <= MaxInt THEN INum(n) ELSE UNum(n))

\* codePointToUTF8
Utf8(c) ==
  CASE c < 128   -> <<c>>
    [] c >= 128 /\ c < 2048  -> <<192 + c \div 64, 128 + (c % 64)>>
    [] c >= 2048 /\ c < 65536 -> <<224 + c \div 4096, 128 + ((c \div 64) % 64), 128 + (c % 64)>>
    [] OTHER     -> <<240 + c \div 262144, 128 + ((c \div 4096) % 64), 128 + ((c \div 64) % 64), 128 + (c % 64)>>

HexValue(c) == CASE c \in Digit -> c - Zero [] c \in 97 .. 102 -> c - 87 [] c \in 65 .. 70 -> c - 55 [] OTHER -> -1

\* decodeUnicodeEscapeSequence of the four digits from p on
Hex4(s, p) ==
  IF p + 3 > Len(s) \/ \E k \in p .. p + 3 : HexValue(s[k]) = -1 THEN -1
  ELSE FoldLeft(LAMBDA a, k : a * 16 + HexValue(s[p + k - 1]), 0, <<1, 2, 3, 4>>)

\* decodeUnicodeCodePoint: the code point and the position after it; the second half of a
\* pair is not required to be one
CodePoint(s, p) ==
  LET high == Hex4(s, p)
      paired == p + 9 <= Len(s) /\ s[p + 4] = Backslash /\ s[p + 5] = 117
      low == IF paired THEN Hex4(s, p + 6) ELSE -1
  IN IF high \in 55296 .. 56319
     THEN [c |-> IF low = -1 THEN -1 ELSE 65536 + (high % 1024) * 1024 + (low % 1024), p |-> p + 10]
     ELSE [c |-> high, p |-> p + 4]

\* decodeString of what is between the quotes, from p on
UnescapedBy == (34 :> 34) @@ (47 :> 47) @@ (92 :> 92) @@ (98 :> 8) @@ (102 :> 12) @@ (110 :> 10) @@ (114 :> 13) @@ (116 :> 9)
RECURSIVE DecodeString(_, _, _)
DecodeString(s, p, got) ==
  IF p > Len(s) THEN Got(Text(got))
  ELSE IF s[p] # Backslash THEN DecodeString(s, p + 1, Append(got, s[p]))
  ELSE IF p = Len(s) THEN Failed
  ELSE IF s[p + 1] \in DOMAIN UnescapedBy THEN DecodeString(s, p + 2, Append(got, UnescapedBy[s[p + 1]]))
  ELSE IF s[p + 1] # 117 THEN Failed
  ELSE LET u == CodePoint(s, p + 2) IN IF u.c = -1 THEN Failed ELSE DecodeString(s, u.p, got \o Utf8(u.c))

(***************************************************************************)
(* readValue, readObject and readArray: whether it went well, the value    *)
(* and the position after it.  An error ends the reading: what is left is  *)
(* skipped to the ends of the enclosing arrays and objects.  Too deep a    *)
(* nesting throws instead.                                                 *)
(***************************************************************************)
Read(r, p) == [ok |-> r.ok, v |-> r.v, p |-> p]
Broken(v, p) == [ok |-> FALSE, v |-> v, p |-> p]
\* The exception of readValue, which leaves parse: at no position, and nothing recovers
Thrown == Broken(Null, 0)

RECURSIVE Recover(_, _, _)
Recover(t, p, until) ==
  LET k == ReadToken(t, p) IN IF k.type \in {until, "end"} THEN k.end ELSE Recover(t, k.end, until)

RECURSIVE ReadValue(_, _, _)
RECURSIVE ReadMembers(_, _, _, _, _)
RECURSIVE ReadElements(_, _, _, _)

\* The switch of readValue over the token k
ValueFrom(t, k, depth) ==
  CASE k.type = "{" -> ReadMembers(t, k.end, depth + 1, EmptyMap, TRUE)
    [] k.type = "[" ->
         IF Peek(t, SkipSpaces(t, k.end)) = 93 THEN Read(Got(Array(EmptyMap)), SkipSpaces(t, k.end) + 1)
         ELSE ReadElements(t, k.end, depth + 1, EmptyMap)
    [] k.type = "number" -> Read(DecodeNumber(SubSeq(t, k.start, k.end - 1)), k.end)
    [] k.type = "string" -> Read(DecodeString(SubSeq(t, k.start + 1, k.end - 2), 1, <<>>), k.end)
    [] k.type \in {"true", "false"} -> Read(Got(Bool(k.type = "true")), k.end)
    [] k.type = "null" -> Read(Got(Null), k.end)
    [] OTHER -> Broken(Null, k.end)

ReadValue(t, p, depth) ==
  IF depth >= StackLimit THEN Thrown ELSE ValueFrom(t, SkipCommentTokens(t, p), depth)

\* Behind the member `name`, whose value is r; m has it by now.  After a comment there any
\* token passes for the comma.
BehindMember(t, depth, m, name, r, comma) ==
  CASE r = Thrown -> Thrown
    [] ~r.ok /\ r # Thrown -> Broken(Object(m), Recover(t, r.p, "}"))
    [] r.ok /\ comma.type = "}" -> Read(Got(Object(m)), comma.end)
    [] r.ok /\ comma.type # "}" /\ ReadToken(t, r.p).type \in {",", "comment"} ->
         ReadMembers(t, comma.end, depth, m, name = <<>>)
    [] OTHER -> Broken(Object(m), Recover(t, comma.end, "}"))

\* A value that is not read leaves its node alone.
PutMember(t, depth, m, name, r) ==
  BehindMember(t, depth, Put(m, name, IF r.ok \/ r.v # Null THEN r.v ELSE Member(Object(m), name)),
               name, r, SkipCommentTokens(t, r.p))

\* From the name on, which ends at p
MemberFrom(t, p, depth, m, name, colon) ==
  CASE ~name.ok -> Broken(Object(m), Recover(t, p, "}"))
    [] name.ok /\ colon.type # ":" -> Broken(Object(m), Recover(t, colon.end, "}"))
    [] OTHER -> PutMember(t, depth, m, name.v.data, ReadValue(t, colon.end, depth))

\* An object may end at a brace as long as the last name is empty.
ReadMembers(t, p, depth, m, unnamed) ==
  LET k == SkipCommentTokens(t, p) IN
  CASE k.type = "}" /\ unnamed -> Read(Got(Object(m)), k.end)
    [] k.type = "string" -> MemberFrom(t, k.end, depth, m, DecodeString(SubSeq(t, k.start + 1, k.end - 2), 1, <<>>),
                                       ReadToken(t, k.end))
    [] OTHER -> Broken(Object(m), Recover(t, k.end, "}"))

\* Behind an element, whose value is r
BehindElement(t, depth, m, r, k) ==
  CASE r = Thrown -> Thrown
    [] ~r.ok /\ r # Thrown -> Broken(Array(m), Recover(t, r.p, "]"))
    [] r.ok /\ k.type = "]" -> Read(Got(Array(m)), k.end)
    [] r.ok /\ k.type = "," -> ReadElements(t, k.end, depth, m)
    [] OTHER -> Broken(Array(m), Recover(t, k.end, "]"))

PutElement(t, depth, m, r) ==
  BehindElement(t, depth, Put(m, Cardinality(DOMAIN m), r.v), r, SkipCommentTokens(t, r.p))

ReadElements(t, p, depth, m) == PutElement(t, depth, m, ReadValue(t, p, depth))

Parse(t) == ReadValue(t, 1, 0)

(***************************************************************************)
(* A text that grows by words, and the grammar: a stack of what must come, *)
(* <<>> once a whole value is there, with the liberties of the reader.     *)
(***************************************************************************)
Scalars == ("1" :> <<49>>) @@ ("a" :> <<Q, 97, Q>>) @@ ("empty" :> <<Q, Q>>)
WordText == Scalars @@ ("{" :> <<123>>) @@ ("}" :> <<125>>) @@ ("[" :> <<91>>) @@ ("]" :> <<93>>)
            @@ ("," :> <<44>>) @@ (":" :> <<58>>) @@ ("comment" :> <<47, 42, 42, 47>>)
TextOf(ws) == Joined([k \in 1 .. Len(ws) |-> WordText[ws[k]]], <<32>>)

\* The stack after a value begins with w; each level holds one entry
Value(w, rest) ==
  CASE Len(rest) >= StackLimit      -> {}
    [] Len(rest) < StackLimit /\ w = "[" -> {<<"element or ]">> \o rest}
    [] Len(rest) < StackLimit /\ w = "{" -> {<<"name or }">> \o rest}
    [] Len(rest) < StackLimit /\ w \in DOMAIN Scalars -> {rest}
    [] OTHER                        -> {}

\* The stacks that the word w leads to: none if it is an error
Follow(w, stack) ==
  LET rest == Tail(stack)
      named(n) == {<<IF n = "empty" THEN ": unnamed" ELSE ":">> \o rest}
  IN CASE Head(stack) = "value" /\ w = "comment" -> {stack}
       [] Head(stack) = "value" /\ w # "comment" -> Value(w, rest)
       [] Head(stack) = "element" -> IF w = "comment" THEN {stack} ELSE Value(w, <<", or ]">> \o rest)
       [] Head(stack) = "element or ]" ->
            CASE w = "]" -> {rest} [] w = "comment" -> {<<"element">> \o rest} [] OTHER -> Value(w, <<", or ]">> \o rest)
       [] Head(stack) = ", or ]" ->
            CASE w = "]" -> {rest} [] w = "comment" -> {stack} [] w = "," -> {<<"element">> \o rest} [] OTHER -> {}
       [] Head(stack) \in {"name", "name or }"} ->
            CASE w = "}" /\ Head(stack) = "name or }" -> {rest} [] w = "comment" -> {stack}
              [] w \in {"a", "empty"} -> named(w) [] OTHER -> {}
       [] Head(stack) = ":" -> IF w = ":" THEN {<<"member">> \o rest} ELSE {}
       [] Head(stack) = ": unnamed" -> IF w = ":" THEN {<<"member unnamed">> \o rest} ELSE {}
       [] Head(stack) = "member" -> IF w = "comment" THEN {stack} ELSE Value(w, <<", or }">> \o rest)
       [] Head(stack) = "member unnamed" -> IF w = "comment" THEN {stack} ELSE Value(w, <<", or } unnamed">> \o rest)
       [] OTHER -> \* behind a member: anything passes for the comma after a comment
            LET free == Head(stack) \in {"any or }", "any or } unnamed"}
                unnamed == Head(stack) \in {", or } unnamed", "any or } unnamed"}
            IN CASE w = "}" -> {rest}
                 [] w = "comment" -> {<<IF unnamed THEN "any or } unnamed" ELSE "any or }">> \o rest}
                 [] w = "," \/ (free /\ w \notin {"}", "comment"}) -> {<<IF unnamed THEN "name or }" ELSE "name">> \o rest}
                 [] OTHER -> {}

TextInit == words = <<>> /\ expect = {<<"value">>}

\* One more word, unless the text is already in error or whole
AddWord(w) ==
  /\ Len(words) < MaxWords
  /\ \E stack \in expect : stack # <<>> /\ expect' = Follow(w, stack)
  /\ words' = Append(words, w)

TextNext == \E w \in DOMAIN WordText : AddWord(w)

(***************************************************************************)
(* Properties                                                              *)
(***************************************************************************)
\* The value that a number reads as, whichever type it was written from
Number(halves) ==
  CASE halves % 2 = 1 -> RNum(halves)
    [] halves % 2 = 0 /\ halves \in 2 * (-MaxLargestInt - 1) .. 2 * MaxInt -> INum(halves \div 2)
    [] halves % 2 = 0 /\ halves \in 2 * (MaxInt + 1) .. 2 * MaxLargestUInt -> UNum(halves \div 2)
    [] OTHER -> RNum(halves)

RECURSIVE Normal(_)
Normal(v) ==
  CASE Numeric(v)  -> Number(Half(v))
    [] v.kind = "arr" -> Array([i \in 0 .. SizeOf(v) - 1 |-> Normal(At(v, i))])
    [] v.kind = "obj" -> Object([k \in DOMAIN v.data |-> Normal(v.data[k])])
    [] OTHER       -> v

RECURSIVE NulFree(_)
NulFree(v) == CASE v.kind = "arr" -> \A i \in DOMAIN v.data : NulFree(v.data[i])
                [] v.kind = "obj" -> \A k \in DOMAIN v.data : 0 \notin ToSet(k) /\ NulFree(v.data[k])
                [] OTHER       -> TRUE

\* What FastWriter or StyledWriter writes of any value, Reader reads back as that value:
\* strings with any bytes, integers to the widest and doubles, empty and nested arrays and
\* objects, on one line or on several.  Holes come back as nulls, a number as the narrowest
\* type, and StyledWriter cuts a name at a zero byte.
WrittenIsReadBack ==
  \A text \in {FastWrite(value)} \cup (IF NulFree(value) THEN {StyledText(value)} ELSE {}) :
    \E r \in {Parse(text)} : r.ok /\ r.v = Normal(value)

\* Reader accepts a text as soon as and only if it begins with a value of the JSON grammar,
\* nested no deeper than the limit, up to its liberties: comments before values and names
\* and behind values, anything as a comma after a comment behind a member, a comma before
\* the end of an object whose last name is empty.
AcceptsItsGrammar == Parse(TextOf(words)).ok <=> <<>> \in expect
=============================================================================
