------------------------------ MODULE MCCodecs ------------------------------
(***************************************************************************)
(* The formats, which share nothing: one of them moves, and the others     *)
(* stay in one of their initial states.                                    *)
(***************************************************************************)
EXTENDS JIndex, Framing, JsonText, HttpText, TextCodecs, Calendar
VARIABLE active

Evens == {2, 4, 6}
A == "a"
B == "b"

Rec(x) == (A :> Num(x))
\* Sorted tables of up to Long records of one field
RECURSIVE Rising(_, _)
Rising(n, S) == IF n = 0 THEN {<<>>}
                ELSE {<<>>} \cup UNION {{<<x>> \o r : r \in Rising(n - 1, {y \in S : y >= x})} : x \in S}
LongBatches == {[k \in 1 .. Len(r) |-> Rec(r[k])] :
                  r \in {q \in Rising(13, Evens) : Len(q) \in {0, 1, 2, 3, 4, 9, 12, 13}}}
MixedVals == {Num(2), Num(4), Str("s"), Arr({2, 4})}
MixedRecs == {(A :> x) : x \in MixedVals}
             \cup {(A :> Num(x)) @@ (B :> y) : x \in {2, 4}, y \in {Num(4), Str("s"), Str("t")}}
MixedBatches == {<<r, q>> : r \in {(A :> Num(4)), (A :> Num(6)) @@ (B :> Str("s"))}, q \in MixedRecs}
MCHash == ("s" :> 4) @@ ("t" :> 4) @@ ("u" :> 9)
MCTypes == (A :> "numeric") @@ (B :> "string")
MCWriteSets == <<[recs : LongBatches, append : {FALSE}, per : {0, 2}, index : {{A}}]
                   \cup [recs : MixedBatches, append : {FALSE}, per : {0, 2}, index : {{A, B}}],
                 [recs : {<<Rec(x)>> : x \in {1, 3, 4, 7}}, append : {TRUE}, per : {2}, index : {{A}}]
                   \cup [recs : {<<Rec(3), Rec(2), Rec(7)>>}, append : {TRUE}, per : {0, 2}, index : {{A}, {B}}]
                   \cup [recs : {<<(A :> Num(4)) @@ (B :> Str("s"))>>}, append : {TRUE}, per : {0},
                         index : {{A}, {A, B}}]>>
Bounds == 1 .. 7
Ranges == {"range_lt_gt", "range_lte_gt", "range_lt_gte", "range_lte_gte"}
Conds == {Equal({Num(x)}) : x \in Bounds} \cup {Equal({Num(2), Num(6)}), Equal({Str("s")}), Equal({Str("u"), Num(4)})}
         \cup {Bound(op, b, b) : op \in {"lt", "lte", "gt", "gte"}, b \in Bounds}
         \cup {Bound(op, l, h) : op \in Ranges, l \in {1, 2, 3}, h \in {3, 4, 6, 7}}
MCSearches == {(A :> c) : c \in Conds} \cup
   {(A :> c) @@ (B :> d) : c \in {Equal({Num(4)}), Bound("gte", 4, 0), Bound("range_lte_gte", 2, 4)},
                           d \in {Equal({Str("s")}), Equal({Num(4)}), Bound("lte", 0, 4)}}

Strings(S, n) == UNION {[1 .. k -> S] : k \in 0 .. n}

MCDelims == UNION {[1 .. k -> {97, 98}] : k \in 1 .. 3}

Many == <<34, 92, 10, 0, 1, 97, 200>>
MCItems == {Null, INum(-8), INum(7), UNum(15), RNum(3), RNum(-20), RNum(64), Text(Many), Bool(TRUE),
            Array(EmptyMap), Object(EmptyMap), Array(0 :> INum(3)), Object(<<97>> :> Array(0 :> Text(<<>>)))}
MCNames == {<<>>, <<97>>, <<97, 0>>}

MCMethods == {<<71>>}
MCPaths == {<<>>, <<47>>, <<47, 97>>}
MCQueries == {<<>>, <<97, 61, 63>>, <<63>>}
MCFields == {<<97>>, <<>>, ToLower(ContentLength), TransferEncoding}
MCAttrNames == {<<97>>, <<98, 98>>}
MCValues == Strings({32, 58, 97}, 1) \cup {<<32, 97>>, <<97, 32>>, <<58, 32>>, Chunked}
MCAttrs == Strings({38, 59, 37, 32, 43, 34, 97, 200}, 1) \cup {<<37, 97>>, <<43, 43>>, <<97, 37>>}

Sec(n) == [kind |-> "section", name |-> n]
Set(n, v) == [kind |-> "param", name |-> n, value |-> v]
MCSettings == Strings({Sec(<<97>>), Sec(<<97, 97>>), Sec(<<98>>), [kind |-> "comment"], Set(<<98>>, 1), Set(<<98>>, 2), Set(<<99>>, 3)}, 3)
NoHead == [method |-> <<71>>, path |-> <<>>, query |-> <<>>, code |-> 0, fields |-> <<>>, attrs |-> <<>>]
NoText == [of |-> "url", text |-> <<>>]
MCBase64 == Strings({0, 1, 200, 255}, 4)
MCDigits == Strings({48, 54, 57}, 6)
MCUrls == Strings({37, 32, 97, 200}, 4)
MCLists == Strings({44, 97}, 6)
MCEscapes == Strings({92, 34, 10, 1, 97, 110}, 4)
MCUtf8 == Strings({65, 128, 160, 192, 200, 224, 225, 237, 240, 241, 244, 255}, 3) \cup
          {<<240, 144, 128, 128>>, <<244, 128, 160, 160>>, <<65, 225, 128, 160>>}

MCStarts == {SetDateTime(2023, 12, 31, 23, 59, 59, 999), SetDateTime(2024, 2, 29, 0, 0, 0, 0),
             SetDateTime(2000, 1, 31, 12, 0, 0, 0), SetDateTime(2001, 3, 1, 0, 0, 1, 500)}
MCAmounts == ({"ms", "second"} \X {-86400, -1000, -1, 999}) \cup ({"minute", "hour", "day"} \X {-366, -1, 24, 367})
             \cup ({"month", "year"} \X {-13, -1, 1, 14})

One(S) == CHOOSE x \in S : TRUE
MCInit ==
  /\ active \in {"index", "frames", "values", "json", "heads", "texts", "dates", "clock"}
  /\ JInit /\ JsonInit /\ TextInit
  /\ FrameInit /\ (active = "frames" \/ delim = One(Delims))
  /\ IF active = "heads" THEN HeadInit ELSE sent = NoHead
  /\ IF active = "texts" THEN CodedInit ELSE coded = NoText
  /\ CalInit /\ (active = "dates" \/ dt = One(Starts))
MCNext ==
  /\ UNCHANGED <<active, coded>>
  /\ \/ active = "index" /\ JNext /\ UNCHANGED <<frameVars, jsonVars, textVars, sent, calVars>>
     \/ active = "frames" /\ FrameNext /\ UNCHANGED <<jvars, jsonVars, textVars, sent, calVars>>
     \/ active = "values" /\ JsonNext /\ UNCHANGED <<jvars, frameVars, textVars, sent, calVars>>
     \/ active = "json" /\ TextNext /\ UNCHANGED <<jvars, frameVars, jsonVars, sent, calVars>>
     \/ active = "heads" /\ HeadNext /\ UNCHANGED <<jvars, frameVars, jsonVars, textVars, calVars>>
     \/ active = "clock" /\ ShowNext /\ UNCHANGED <<jvars, frameVars, jsonVars, textVars, sent>>
     \/ active = "dates" /\ AddNext /\ UNCHANGED <<jvars, frameVars, jsonVars, textVars, sent>>
MCSpec == MCInit /\ [][MCNext]_<<active, jvars, frameVars, jsonVars, textVars, sent, coded, calVars>>

\* An index of a JSON database stays in step with the records however they are appended
\* (IndexInStep), and a search through it returns what looking at every record would
\* (FetchAgrees): JIndex says for which fields and conditions.
IndexSearches == IndexInStep /\ FetchAgrees

\* What is written as an HTTP head, as base64, as a URL, as a packed or split list, is read
\* back as the same: HeadsReadBack of HttpText and TextsComeBack of TextCodecs.
TextsReadBack == HeadsReadBack /\ TextsComeBack
=============================================================================
