----------------------------- MODULE TextCodecs -----------------------------
(***************************************************************************)
(* The conversions that the server, its client and their handshake make:   *)
(* base64, packed numbers, URL escapes, lists, escaped strings, UTF-16 and *)
(* settings.  A text is a sequence of bytes.                               *)
(***************************************************************************)
EXTENDS Integers, Sequences, FiniteSets, SequencesExt

CONSTANTS
  Base64Texts, DigitTexts, UrlTexts, ListTexts, EscapeTexts, Utf8Texts, SettingTexts,  \* inputs
  Width            \* sizeof of the numbers in a packed list

VARIABLE coded     \* the conversion and the text it is applied to

Idx(s) == [k \in 1 .. Len(s) |-> k]
Part(s, from, n) == SubSeq(s, from, IF from + n - 1 > Len(s) THEN Len(s) ELSE from + n - 1)
Pieces(s, n) == [k \in 1 .. (Len(s) + n - 1) \div n |-> Part(s, (k - 1) * n + 1, n)]

(***************************************************************************)
(* base64: a letter is its index in base64_chars, Pad is '='               *)
(***************************************************************************)
Pad == 64
EncodeTripleShort(t) ==
  LET b == [k \in 1 .. 3 |-> IF k <= Len(t) THEN t[k] ELSE 0]
      four == <<b[1] \div 4, (b[1] % 4) * 16 + b[2] \div 16, (b[2] % 16) * 4 + b[3] \div 64, b[3] % 64>>
  IN [k \in 1 .. 4 |-> IF k <= Len(t) THEN four[k] ELSE Pad]
EncodeTriple(t) ==
  LET b == [k \in 1 .. 3 |-> IF k <= Len(t) THEN t[k] ELSE 0]
      four == <<b[1] \div 4, (b[1] % 4) * 16 + b[2] \div 16, (b[2] % 16) * 4 + b[3] \div 64, b[3] % 64>>
  IN [k \in 1 .. 4 |-> IF k <= Len(t) + 1 THEN four[k] ELSE Pad]
Base64Encode(s) == LET p == Pieces(s, 3) IN FlattenSeq([k \in 1 .. Len(p) |-> EncodeTriple(p[k])])
Base64EncodeV(v) == Base64Encode(v)

\* A rest shorter than four letters is filled with what find gives of a zero: npos
DecodeFour(f) ==
  LET c == [k \in 1 .. 4 |-> IF k <= Len(f) THEN f[k] ELSE 255]
      three == <<(c[1] * 4 + ((c[2] \div 16) % 4)) % 256, ((c[2] % 16) * 16 + ((c[3] \div 4) % 16)) % 256, ((c[3] % 4) * 64 + c[4]) % 256>>
  IN SubSeq(three, 1, Len(f) - 1)
Base64Decode(s) ==
  LET stops == {k \in 1 .. Len(s) : s[k] = Pad}
      n == IF stops = {} THEN Len(s) ELSE (CHOOSE k \in stops : \A j \in stops : k <= j) - 1
      p == Pieces(SubSeq(s, 1, n), 4)
  IN FlattenSeq([k \in 1 .. Len(p) |-> DecodeFour(p[k])])
Base64DecodeV(s) == Base64Decode(s)

(***************************************************************************)
(* compress_number: two digits that are the code of a letter become it     *)
(***************************************************************************)
Letter == 65 .. 90 \cup 97 .. 99
TwoDigits(p) == (p[1] - 48) * 10 + p[2] - 48
CompressNumber(k) ==
  LET p == Pieces(k, 2)
  IN FlattenSeq([i \in 1 .. Len(p) |->
       IF Len(p[i]) = 2 THEN IF TwoDigits(p[i]) \in Letter THEN <<TwoDigits(p[i])>> ELSE p[i] ELSE p[i]])
UncompressNumber(k) ==
  FlattenSeq([i \in 1 .. Len(k) |-> IF k[i] \in Letter THEN <<48 + k[i] \div 10, 48 + (k[i] % 10)>> ELSE <<k[i]>>])

(***************************************************************************)
(* url_encode, and url_decode, which leaves a percent sign before a blank  *)
(* or another one alone.  A scan without a digit leaves `ii` as it was, at *)
(* the first one uninitialized; the signs and blanks that %x skips are not *)
(* modelled.                                                               *)
(***************************************************************************)
Hex(n) == IF n < 10 THEN 48 + n ELSE 55 + n
UnHex(c) == CASE c \in 48 .. 57 -> c - 48 [] c \in 65 .. 70 -> c - 55 [] c \in 97 .. 102 -> c - 87 [] OTHER -> -1
ScanHex(t, ii) ==
  LET digit(k) == k <= Len(t) /\ UnHex(t[k]) >= 0
  IN CASE ~digit(1) -> ii
       [] digit(1) /\ ~digit(2) -> UnHex(t[1])
       [] OTHER -> UnHex(t[1]) * 16 + UnHex(t[2])
Plain == 48 .. 57 \cup 65 .. 90 \cup 97 .. 122 \cup {45, 46, 95, 126}
UrlEncode(s) ==
  FlattenSeq([k \in 1 .. Len(s) |-> IF s[k] \in Plain THEN <<s[k]>> ELSE <<37, Hex(s[k] \div 16), Hex(s[k] % 16)>>])
UrlDecode(s, uninitialized) ==
  LET literal(i) == i < Len(s) /\ s[i + 1] \in {32, 37}
      step(a, i) ==
        CASE a.skip > 0 -> [a EXCEPT !.skip = @ - 1]
          [] a.skip = 0 /\ s[i] = 37 /\ ~literal(i) ->
               LET ii == ScanHex(Part(s, i + 1, 2), a.ii) IN [out |-> Append(a.out, ii % 256), skip |-> 2, ii |-> ii]
          [] OTHER -> [a EXCEPT !.out = Append(@, s[i])]
  IN FoldLeft(step, [out |-> <<>>, skip |-> 0, ii |-> uninitialized], Idx(s)).out

(***************************************************************************)
(* split by a byte (getline: no empty last part), split_by_string, implode *)
(***************************************************************************)
PartsAt(s, d) == FoldLeft(LAMBDA p, c : IF c = d THEN Append(p, <<>>) ELSE [p EXCEPT ![Len(p)] = Append(@, c)], <<<<>>>>, s)
Split(s, d) == LET p == PartsAt(s, d) IN IF Last(p) = <<>> THEN Front(p) ELSE p

\* The parts around every find of the delimiter from the end of the last one
SplitByString(s, d, includeEmpty) ==
  LET matches(i) == i + Len(d) - 1 <= Len(s) /\ SubSeq(s, i, i + Len(d) - 1) = d
      step(a, i) == IF i >= a.prev /\ matches(i)
                    THEN [prev |-> i + Len(d), out |-> Append(a.out, SubSeq(s, a.prev, i - 1))] ELSE a
      a == FoldLeft(step, [prev |-> 1, out |-> <<>>], Idx(s))
      all == Append(a.out, SubSeq(s, a.prev, Len(s)))
  IN IF includeEmpty THEN all ELSE SelectSeq(all, LAMBDA p : p # <<>>)

Implode(d, parts) == FlattenSeq([k \in 1 .. Len(parts) |-> IF k = 1 THEN parts[k] ELSE d \o parts[k]])

\* replaceAll goes on behind what it put in, removeAll one byte behind the one it took out
ReplaceText(s, search, by) == Implode(by, SplitByString(s, search, TRUE))
RemoveByte(s, c) ==
  LET step(a, i) == IF i >= a.pos /\ s[i] = c THEN [a EXCEPT !.pos = i + 2] ELSE [a EXCEPT !.out = Append(@, s[i])]
  IN FoldLeft(step, [pos |-> 1, out |-> <<>>], Idx(s)).out

(***************************************************************************)
(* bitbase: numbers as big-endian bytes, and lists of them                 *)
(***************************************************************************)
NumericToChars(n, sz) == [k \in 1 .. sz |-> (n \div 256 ^ (sz - k)) % 256]
CharsToNumeric(t) == FoldLeft(LAMBDA a, c : a * 256 + c, 0, t)
CompressList(ns) == FlattenSeq([k \in 1 .. Len(ns) |-> NumericToChars(ns[k], Width)])
\* Bytes behind the last whole number are left out
UncompressList(t) == {CharsToNumeric(Part(t, i + 1, Width)) : i \in {j \in 0 .. Len(t) - Width : j % Width = 0}}

(***************************************************************************)
(* json_escape                                                             *)
(***************************************************************************)
ShortEscapes == {<<8, 98>>, <<12, 102>>, <<10, 110>>, <<13, 114>>, <<9, 116>>}
ShortOf(c) == {p[2] : p \in {q \in ShortEscapes : q[1] = c}}
LowHex(n) == IF n < 10 THEN 48 + n ELSE 87 + n
Control(c) == <<92, 117, 48, 48, LowHex(c \div 16), LowHex(c % 16)>>
EscapeChar(c) ==
  CASE c \in {92, 34} -> <<92, c>>
    [] ShortOf(c) # {} -> <<92, CHOOSE x \in ShortOf(c) : TRUE>>
    [] c < 32 /\ ShortOf(c) = {} -> Control(c)
    [] OTHER -> <<c>>
JsonEscape(s) == FlattenSeq([k \in 1 .. Len(s) |-> EscapeChar(s[k])])

\* escape_if_unescaped: flag is set behind a backslash that has not met its escape yet
EscapeIfUnescaped(s) ==
  LET slash(flag) == IF flag THEN <<92>> ELSE <<>>
      add(a, t, flag) == [out |-> a.out \o t, flag |-> flag]
      step(a, c) ==
        CASE c = 92 -> add(a, <<c>>, ~a.flag)
          [] c = 34 -> add(a, IF a.flag THEN <<c>> ELSE <<92, c>>, FALSE)
          [] ShortOf(c) # {} -> add(a, slash(a.flag) \o EscapeChar(c), FALSE)
          [] c < 32 /\ ShortOf(c) = {} -> add(a, Control(c), a.flag)
          [] OTHER -> add(a, IF a.flag /\ c \notin {98, 102, 110, 114, 116} THEN <<92, c>> ELSE <<c>>, FALSE)
      end == FoldLeft(step, [out |-> <<>>, flag |-> FALSE], s)
  IN end.out \o slash(end.flag)

(***************************************************************************)
(* utf8_to_utf16: the units, or nothing where it throws                    *)
(***************************************************************************)
Follows(c) == CASE c <= 127 -> 0 [] c \in 192 .. 223 -> 1 [] c \in 224 .. 239 -> 2 [] c \in 240 .. 247 -> 3 [] OTHER -> -1
LeadBits(c) == CASE c <= 127 -> c [] c \in 192 .. 223 -> c % 32 [] c \in 224 .. 239 -> c % 16 [] OTHER -> c % 8
Units(u) == IF u <= 65535 THEN <<u>> ELSE <<55296 + (u - 65536) \div 1024, 56320 + ((u - 65536) % 1024)>>
Utf8ToUtf16(s) ==
  LET finish(a) == IF a.todo # 0 \/ ~a.ok THEN a
                   ELSE IF a.uni \in 55296 .. 57343 \/ a.uni > 1114111 THEN [a EXCEPT !.ok = FALSE]
                   ELSE [a EXCEPT !.out = @ \o Units(a.uni)]
      step(a, c) ==
        CASE ~a.ok -> a
          [] a.ok /\ a.todo = 0 -> finish([a EXCEPT !.ok = Follows(c) # -1, !.todo = Follows(c), !.uni = LeadBits(c)])
          [] OTHER -> finish([a EXCEPT !.ok = c \in 128 .. 191, !.todo = @ - 1, !.uni = @ * 64 + (c % 64)])
      end == FoldLeft(step, [ok |-> TRUE, todo |-> 0, uni |-> 0, out |-> <<>>], s)
  IN IF end.ok /\ end.todo = 0 THEN {end.out} ELSE {}

(***************************************************************************)
(* read_settings: lines are [section |-> name], [name, value] or comments, *)
(* and end in a newline, where the scan for the end of a value must stop.  *)
(* The section that was asked for need only begin the name of the current  *)
(* one; the first parameter of that name in it is taken.                   *)
(***************************************************************************)
IsBeginOf(a, b) == Len(a) <= Len(b) /\ SubSeq(b, 1, Len(a)) = a
ReadSettings(lines, section, name) ==
  LET step(a, l) ==
        CASE a.found # {} -> a
          [] a.found = {} /\ l.kind = "section" -> [a EXCEPT !.order = l.name]
          [] a.found = {} /\ l.kind = "param" /\ IsBeginOf(section, a.order) /\ l.name = name -> [a EXCEPT !.found = {l.value}]
          [] OTHER -> a
  IN FoldLeft(step, [order |-> <<32>>, found |-> {}], lines).found

(***************************************************************************)
(* One conversion and one text                                             *)
(***************************************************************************)
CodedInit ==
  coded \in [of : {"base64"}, text : Base64Texts] \cup [of : {"digits"}, text : DigitTexts]
           \cup [of : {"url"}, text : UrlTexts] \cup [of : {"list"}, text : ListTexts]
           \cup [of : {"escape"}, text : EscapeTexts] \cup [of : {"utf8"}, text : Utf8Texts]
           \cup [of : {"settings"}, text : SettingTexts]

\* Whether t can stand between the quotes of a JSON string
WellEscaped(t) ==
  LET step(a, c) ==
        CASE a = "plain" -> CASE c = 92 -> "escape" [] c = 34 \/ c < 32 -> "bad" [] OTHER -> "plain"
          [] a = "escape" -> CASE c \in {34, 92, 98, 102, 110, 114, 116} -> "plain" [] c = 117 -> "u" [] OTHER -> "bad"
          [] a = "u" -> IF c \in 48 .. 57 THEN "uu" ELSE "bad"
          [] a = "uu" -> "uuu"
          [] a = "uuu" -> "uuuu"
          [] a = "uuuu" -> "plain"
          [] OTHER -> "bad"
  IN FoldLeft(step, "plain", t) = "plain"

\* A control character without a letter of its own behind an odd number of backslashes
Unpaired(s) ==
  \E k \in 2 .. Len(s) : s[k] < 32 /\ ShortOf(s[k]) = {} /\
    \E j \in 1 .. k - 1 : /\ \A i \in j .. k - 1 : s[i] = 92
                         /\ (k - j) % 2 = 1
                         /\ j > 1 => s[j - 1] # 92

\* UTF-8 of UTF-16 units, the other way round
Utf8Of(units) ==
  LET of(u) == CASE u < 128 -> <<u>>
                 [] u >= 128 /\ u < 2048 -> <<192 + u \div 64, 128 + (u % 64)>>
                 [] u >= 2048 /\ u < 65536 -> <<224 + u \div 4096, 128 + ((u \div 64) % 64), 128 + (u % 64)>>
                 [] OTHER -> <<240 + u \div 262144, 128 + ((u \div 4096) % 64), 128 + ((u \div 64) % 64), 128 + (u % 64)>>
      step(a, u) == CASE u \in 55296 .. 56319 -> [a EXCEPT !.high = u - 55296]
                      [] u \in 56320 .. 57343 -> [out |-> a.out \o of(65536 + a.high * 1024 + u - 56320), high |-> 0]
                      [] OTHER -> [a EXCEPT !.out = @ \o of(u)]
  IN FoldLeft(step, [out |-> <<>>, high |-> 0], units).out
Overlong(s) == \E k \in 1 .. Len(s) : \/ s[k] \in {192, 193}
                                      \/ k < Len(s) /\ ((s[k] = 224 /\ s[k + 1] < 160) \/ (s[k] = 240 /\ s[k + 1] < 144))

\* The section a line is in: the name of the last section line before it
SectionAt(lines, i) ==
  LET before == {k \in 1 .. i : lines[k].kind = "section"}
  IN IF before = {} THEN <<32>> ELSE lines[CHOOSE k \in before : \A j \in before : j <= k].name

\* What a conversion writes its inverse reads back, for texts of every length modulo its
\* group and every kind of byte: base64, the packed keys of the handshake, URL escapes,
\* packed lists and split lists; split finds the parts of a list that split_by_string
\* finds, but for empty ones.  Escaped strings can stand in JSON, those made by
\* escape_if_unescaped unless a control character without a letter of its own is behind an
\* unpaired backslash; and it leaves what is escaped alone, but for the escapes of such
\* characters, which it escapes once more.
\* UTF-8 is read as the units that encode it, or refused.  A setting is that of the first
\* line of its name in the section, if no other section begins with the section's name.
TextsComeBack ==
  LET s == coded.text IN
  CASE coded.of = "base64" ->
         /\ Base64Decode(Base64Encode(s)) = s /\ Base64DecodeV(Base64EncodeV(s)) = s
         /\ LET ns == [k \in 1 .. Len(s) \div Width |-> CharsToNumeric(Part(s, (k - 1) * Width + 1, Width))]
            IN CompressList(ns) = SubSeq(s, 1, Len(ns) * Width) /\ UncompressList(s) = ToSet(ns)
    [] coded.of = "digits" -> UncompressNumber(CompressNumber(s)) = s
    [] coded.of = "url" -> \A ii \in {0, 255} : UrlDecode(UrlEncode(s), ii) = s
    [] coded.of = "list" ->
         /\ \A d \in {<<44>>, <<44, 44>>, <<44, 97>>} : Implode(d, SplitByString(s, d, TRUE)) = s
         /\ SelectSeq(Split(s, 44), LAMBDA p : p # <<>>) = SplitByString(s, <<44>>, FALSE)
         /\ ReplaceText(ReplaceText(s, <<44>>, <<59, 59>>), <<59, 59>>, <<44>>) = s
         /\ 44 \in ToSet(RemoveByte(s, 44)) => \E k \in 1 .. Len(s) - 1 : s[k] = 44 /\ s[k + 1] = 44
    [] coded.of = "escape" ->
         /\ WellEscaped(JsonEscape(s))
         /\ Unpaired(s) \/ WellEscaped(EscapeIfUnescaped(s))
         /\ LET t == JsonEscape(s) IN
            EscapeIfUnescaped(t) = FlattenSeq([k \in 1 .. Len(s) |-> IF s[k] = 1 THEN <<92>> \o Control(1) ELSE EscapeChar(s[k])])
    [] coded.of = "utf8" -> \A u \in Utf8ToUtf16(s) : Overlong(s) \/ Utf8Of(u) = s
    [] OTHER ->
         LET mine(i) == s[i].kind = "param" /\ s[i].name = <<98>> /\ SectionAt(s, i) = <<97>>
             at == {i \in 1 .. Len(s) : mine(i)}
         IN (\A i \in 1 .. Len(s) : s[i].kind = "section" => s[i].name # <<97, 97>>) =>
              ReadSettings(s, <<97>>, <<98>>) =
                IF at = {} THEN {} ELSE {s[CHOOSE i \in at : \A j \in at : i <= j].value}
=============================================================================
