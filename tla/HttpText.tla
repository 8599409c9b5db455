------------------------------ MODULE HttpText ------------------------------
(***************************************************************************)
(* The texts of HTTP in Simple-Web-Server: request and response heads,     *)
(* header fields, percent encoding, query strings and attributes.  A text  *)
(* is a sequence of bytes; a multimap is the sequence of its pairs.        *)
(***************************************************************************)
EXTENDS Integers, Sequences, FiniteSets, SequencesExt

CONSTANTS
  Methods, Paths, Queries,   \* parts of request lines
  FieldNames, FieldValues,   \* of header fields
  AttrNames, AttrValues      \* of query strings and attributes

VARIABLE sent                \* what one side writes and the other reads

Blank == 32
CarriageReturn == 13
LineFeed == 10
Colon == 58
Slash == 47
Question == 63
Ampersand == 38
Equals == 61
Semicolon == 59
Quote == 34
PercentSign == 37
Plus == 43
HTTP == <<72, 84, 84, 80>>
Version == <<49, 46, 49>>
CRLF == <<CarriageReturn, LineFeed>>

\* std::string::find and substr, from 1; npos is 0
Find(s, S, from) ==
  LET at == {k \in from .. Len(s) : s[k] \in S}
  IN IF at = {} THEN 0 ELSE CHOOSE k \in at : \A j \in at : k <= j
From(s, a) == SubSeq(s, a, Len(s))

(***************************************************************************)
(* Percent::encode and decode                                              *)
(***************************************************************************)
Unreserved == 48 .. 57 \cup 65 .. 90 \cup 97 .. 122 \cup {45, 46, 95, 126}
HexChar(n) == IF n < 10 THEN 48 + n ELSE 55 + n
\* strtol of base 16, for what encode writes
HexOf(c) == CASE c \in 48 .. 57 -> c - 48 [] c \in 65 .. 70 -> c - 55 [] c \in 97 .. 102 -> c - 87 [] OTHER -> 0

PercentEncode(s) ==
  FlattenSeq([k \in 1 .. Len(s) |->
    IF s[k] \in Unreserved THEN <<s[k]>> ELSE <<PercentSign, HexChar(s[k] \div 16), HexChar(s[k] % 16)>>])

\* The byte at i of s and what it skips; a percent sign needs two more bytes
PercentDecode(s) ==
  LET step(a, i) ==
        CASE a.skip > 0 -> [a EXCEPT !.skip = @ - 1]
          [] a.skip = 0 /\ s[i] = PercentSign /\ i + 2 <= Len(s) ->
               [out |-> Append(a.out, HexOf(s[i + 1]) * 16 + HexOf(s[i + 2])), skip |-> 2]
          [] OTHER -> [a EXCEPT !.out = Append(@, IF s[i] = Plus THEN Blank ELSE s[i])]
  IN FoldLeft(step, [out |-> <<>>, skip |-> 0], [k \in 1 .. Len(s) |-> k]).out

(***************************************************************************)
(* QueryString::create and parse                                           *)
(***************************************************************************)
QueryCreate(fields) ==
  FlattenSeq([k \in 1 .. Len(fields) |->
    (IF k = 1 THEN <<>> ELSE <<Ampersand>>) \o fields[k].name \o <<Equals>> \o PercentEncode(fields[k].value)])

\* The parts between separators; a part without an equals sign is a name alone
RECURSIVE PartsOf(_, _)
PartsOf(s, sep) ==
  LET k == Find(s, {sep}, 1) IN IF k = 0 THEN <<s>> ELSE <<SubSeq(s, 1, k - 1)>> \o PartsOf(From(s, k + 1), sep)
QueryField(part) ==
  LET eq == Find(part, {Equals}, 1)
  IN IF eq = 0 THEN [name |-> part, value |-> <<>>]
     ELSE [name |-> SubSeq(part, 1, eq - 1), value |-> PercentDecode(From(part, eq + 1))]
QueryParse(s) ==
  LET parts == PartsOf(s, Ampersand)
      fields == [k \in 1 .. Len(parts) |-> QueryField(parts[k])]
  IN SelectSeq(fields, LAMBDA f : f.name # <<>>)

(***************************************************************************)
(* SemicolonSeparatedAttributes::parse, a scan with three positions        *)
(***************************************************************************)
AttrStep(s, a, c) ==
  LET name == SubSeq(s, a.name, a.end - 1)
      got(v) == [name |-> 0, end |-> 0, value |-> 0, out |-> Append(a.out, v)]
  IN CASE a.name = 0 -> IF s[c] \in {Blank, Semicolon} THEN a ELSE [a EXCEPT !.name = c]
       [] a.name # 0 /\ a.end = 0 ->
            CASE s[c] = Semicolon -> got([name |-> SubSeq(s, a.name, c - 1), value |-> <<>>])
              [] s[c] = Equals    -> [a EXCEPT !.end = c]
              [] OTHER            -> a
       [] a.name # 0 /\ a.end # 0 /\ a.value = 0 ->
            [a EXCEPT !.value = IF s[c] = Quote /\ c < Len(s) THEN c + 1 ELSE c]
       [] OTHER -> IF s[c] \in {Quote, Semicolon}
                   THEN got([name |-> name, value |-> PercentDecode(SubSeq(s, a.value, c - 1))]) ELSE a

AttributesParse(s) ==
  LET a == FoldLeft(LAMBDA x, c : AttrStep(s, x, c), [name |-> 0, end |-> 0, value |-> 0, out |-> <<>>], [k \in 1 .. Len(s) |-> k])
  IN CASE a.name # 0 /\ a.end = 0 -> Append(a.out, [name |-> From(s, a.name), value |-> <<>>])
       [] a.name # 0 /\ a.end # 0 /\ a.value # 0 ->
            Append(a.out, [name |-> SubSeq(s, a.name, a.end - 1), value |-> PercentDecode(From(s, a.value))])
       [] OTHER -> a.out

(***************************************************************************)
(* Heads.  getline cuts at line feeds and leaves the carriage returns.     *)
(***************************************************************************)
Lines(text) == PartsOf(text, LineFeed)
CutCR(s) == IF s # <<>> /\ Last(s) = CarriageReturn THEN Front(s) ELSE s

\* HttpHeader::parse: fields up to the first line without a colon
Field(line) ==
  LET colon == Find(line, {Colon}, 1)
      after == {k \in colon + 1 .. Len(line) : k = Len(line) \/ line[k] # Blank}
      start == CHOOSE k \in after : \A j \in after : k <= j
  IN IF colon = Len(line) THEN <<>>
     ELSE <<[name |-> SubSeq(line, 1, colon - 1), value |-> CutCR(From(line, start))]>>
HeaderParse(lines) ==
  LET last == {k \in 1 .. Len(lines) : Find(lines[k], {Colon}, 1) = 0}
      n == IF last = {} THEN Len(lines) ELSE (CHOOSE k \in last : \A j \in last : k <= j) - 1
  IN FlattenSeq([k \in 1 .. n |-> Field(lines[k])])

\* RequestMessage::parse
RequestParse(text) ==
  LET line == Lines(text)[1]
      m == Find(line, {Blank}, 1)
      e == Find(line, {Blank}, m + 1)
      q == Find(SubSeq(line, 1, e - 1), {Question}, m + 1)
      p == Find(line, {Slash}, e + 1)
  IN IF m = 0 \/ e = 0 \/ p = 0 THEN {}
     ELSE IF SubSeq(line, e + 1, p - 1) # HTTP THEN {}
     ELSE {[method |-> SubSeq(line, 1, m - 1),
            path |-> SubSeq(line, m + 1, (IF q = 0 THEN e ELSE q) - 1),
            query |-> IF q = 0 THEN <<>> ELSE SubSeq(line, q + 1, e - 1),
            version |-> SubSeq(line, p + 1, Len(line) - 1),
            header |-> HeaderParse(Tail(Lines(text)))]}

\* ResponseMessage::parse
ResponseParse(text) ==
  LET line == Lines(text)[1]
      v == Find(line, {Blank}, 1)
  IN IF v = 0 \/ Len(line) <= 5 \/ v = Len(line) THEN {}
     ELSE {[version |-> SubSeq(line, 6, v - 1), status |-> CutCR(From(line, v + 1)),
            header |-> HeaderParse(Tail(Lines(text)))]}

\* The codes that status_code_strings names, the text of one ("200 OK"; the reason is left
\* out) and the code of a text; an unknown code is written as nothing
StatusCodes == 100 .. 102 \cup 200 .. 208 \cup {226} \cup 300 .. 308 \cup 400 .. 418 \cup 421 .. 424
               \cup {426, 428, 429, 431, 451} \cup 500 .. 508 \cup {510, 511}
StatusText(code) == IF code \in StatusCodes THEN <<48 + code \div 100, 48 + ((code \div 10) % 10), 48 + (code % 10), Blank>> ELSE <<>>
StatusCode(text) ==
  IF Len(text) < 3 THEN 0
  ELSE IF \E k \in 1 .. 3 : text[k] \notin 48 .. 57 THEN 0
  ELSE (text[1] - 48) * 100 + (text[2] - 48) * 10 + text[3] - 48

\* create_request_header, with the host and port first, and the empty line that request
\* writes behind it; and Response::write, whose write_header adds the length of an empty
\* content unless a field says one, the content is chunked or the connection is `closing`
FieldLines(fields) ==
  FlattenSeq([k \in 1 .. Len(fields) |-> fields[k].name \o <<Colon, Blank>> \o fields[k].value \o CRLF])
Host == [name |-> <<72, 111, 115, 116>>, value |-> <<97, Colon, 56>>]
ContentLength == <<67, 111, 110, 116, 101, 110, 116, 45, 76, 101, 110, 103, 116, 104>>
TransferEncoding == <<84, 114, 97, 110, 115, 102, 101, 114, 45, 69, 110, 99, 111, 100, 105, 110, 103>>
Chunked == <<99, 104, 117, 110, 107, 101, 100>>
ToLower(s) == [k \in 1 .. Len(s) |-> IF s[k] \in 65 .. 90 THEN s[k] + 32 ELSE s[k]]
CaseInsensitiveEqual(a, b) == ToLower(a) = ToLower(b)
WithLength(fields, closing) ==
  IF \/ closing
     \/ \E k \in 1 .. Len(fields) : \/ CaseInsensitiveEqual(fields[k].name, ContentLength)
                                    \/ /\ CaseInsensitiveEqual(fields[k].name, TransferEncoding)
                                       /\ CaseInsensitiveEqual(fields[k].value, Chunked)
  THEN fields ELSE Append(fields, [name |-> ContentLength, value |-> <<48>>])
CorrectedPath(p, proxy) ==
  (IF proxy THEN ToLower(HTTP) \o <<Colon, Slash, Slash>> \o Host.value ELSE <<>>) \o IF p = <<>> THEN <<Slash>> ELSE p
RequestText(r, proxy) ==
  r.method \o <<Blank>> \o CorrectedPath(r.path, proxy) \o (IF r.query = <<>> THEN <<>> ELSE <<Question>> \o r.query)
    \o <<Blank>> \o HTTP \o <<Slash>> \o Version \o CRLF \o FieldLines(<<Host>> \o r.fields) \o CRLF
ResponseText(r, closing) ==
  HTTP \o <<Slash>> \o Version \o <<Blank>> \o StatusText(r.code) \o CRLF \o FieldLines(WithLength(r.fields, closing)) \o CRLF

(***************************************************************************)
(* What is sent is chosen at the start and then one field is added after   *)
(* another.                                                                *)
(***************************************************************************)
HeadInit ==
  sent \in [method : Methods, path : Paths, query : Queries, code : StatusCodes \cup {0},
            fields : {<<>>}, attrs : {<<>>}]
HeadNext ==
  \/ /\ Len(sent.fields) < 2 /\ sent.attrs = <<>> /\ sent.code \in {0, 200}
     /\ \E n \in FieldNames, v \in FieldValues : sent' = [sent EXCEPT !.fields = Append(@, [name |-> n, value |-> v])]
  \/ /\ Len(sent.attrs) < 2 /\ sent.fields = <<>> /\ sent.code = 0 /\ sent.query = <<>>
     /\ sent.path = <<>>
     /\ \E n \in AttrNames, v \in AttrValues : sent' = [sent EXCEPT !.attrs = Append(@, [name |-> n, value |-> v])]

DropBlanks(s) == LET k == Find(s, 0 .. 255 \ {Blank}, 1) IN IF k = 0 THEN <<>> ELSE From(s, k)
ReadFields(fields) == [k \in 1 .. Len(fields) |-> [fields[k] EXCEPT !.value = DropBlanks(@)]]
Quoted1(v) == <<Quote>> \o PercentEncode(v) \o <<Quote>>
AttributesText(attrs, form(_)) ==
  FlattenSeq([k \in 1 .. Len(attrs) |-> (IF k = 1 THEN <<>> ELSE <<Semicolon, Blank>>) \o attrs[k].name \o <<Equals>> \o form(attrs[k].value)])

\* What the client writes as a request head and the server as a response head, the other
\* side reads as the same parts: method, path, query, version, code and every field, whose
\* value loses only the blanks it begins with; so that a response without content says how
\* it ends, by a length, by chunks or by the end of the connection.  Values of query strings and of attributes
\* come back whatever their bytes, except an empty attribute value without quotes, which
\* takes the next attribute as its value.
HeadsReadBack ==
  /\ \A proxy \in BOOLEAN : RequestParse(RequestText(sent, proxy)) =
       {[method |-> sent.method, path |-> CorrectedPath(sent.path, proxy), query |-> sent.query, version |-> Version,
         header |-> <<Host>> \o ReadFields(sent.fields)]}
  /\ sent.code # 0 => \A closing \in BOOLEAN : \E r \in ResponseParse(ResponseText(sent, closing)) :
       /\ StatusCode(r.status) = sent.code /\ r.version = Version /\ IsPrefix(ReadFields(sent.fields), r.header)
       /\ closing \/ \E k \in 1 .. Len(r.header) : \/ ToLower(r.header[k].name) = ToLower(ContentLength)
                                                  \/ r.header[k] = [name |-> TransferEncoding, value |-> Chunked]
  /\ QueryParse(QueryCreate(sent.attrs)) = sent.attrs
  /\ AttributesParse(AttributesText(sent.attrs, Quoted1)) = sent.attrs
  /\ (\A k \in 1 .. Len(sent.attrs) : sent.attrs[k].value # <<>>) =>
       AttributesParse(AttributesText(sent.attrs, PercentEncode)) = sent.attrs
=============================================================================
