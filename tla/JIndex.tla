------------------------------- MODULE JIndex -------------------------------
(***************************************************************************)
(* The indexed JSON databases: JDatabaseManager builds a file out of an    *)
(* array of records (createDatabaseContent), appends to it (addToIndex)    *)
(* and searches it (fetch), through the indexes where it has one for a     *)
(* field of the search and by comparing records (b_tree::matching) where   *)
(* it has not.                                                             *)
(*                                                                         *)
(* A record is a function from some of the fields to values.  A value is a *)
(* number, a string or an array of numbers.  The body of a file is the     *)
(* sequence of its blocks, numbered from 0 as their offsets grow: a block  *)
(* is one record of a plain file, or the records compressed together.  An  *)
(* index is the sequence of its entries [i, o, whole]: the value, the      *)
(* block, and FALSE only for what is read beyond the end of the index,     *)
(* where offset and size are 0.  Cursors count from 0 as in the code.      *)
(***************************************************************************)
EXTENDS Integers, Sequences, FiniteSets, SequencesExt

CONSTANTS
  Hash,         \* std::hash of the strings: a function from strings to integers
  WriteSets,    \* for every write in turn the choices of [recs, append, per, index]: the
                \* records, ajdb or jdb, the size of a block and the indexes of the settings
  TypeOf,       \* the type of the index of a field, if it has one
  SearchSet     \* the searches: functions from some of the fields to conditions

VARIABLES
  db,      \* the file: [there, blocky, blocks, index]
  writes,  \* the number of writes so far
  named    \* history: the fields every write since the file was made had an index for

jvars == <<db, writes, named>>

(***************************************************************************)
(* Values and conditions                                                   *)
(***************************************************************************)
Num(n) == [kind |-> "num", data |-> n]
Str(s) == [kind |-> "str", data |-> s]
Arr(s) == [kind |-> "arr", data |-> s]

\* try_make_index_parameter: what a value of a field is indexed by, a set of at most one number
MakeIndex(val, f) == CASE val.kind = "num"                           -> {val.data}
                       [] val.kind = "str" /\ TypeOf[f] = "string"   -> {Hash[val.data]}
                       [] OTHER                                   -> {}

\* f_search_val: a condition on a field, an equality or $in with these values, or bounds
Equal(vals) == [op |-> "compare", i |-> vals, min |-> 0, max |-> 0]
Bound(op, min, max) == [op |-> op, i |-> {}, min |-> min, max |-> max]

IsString(c) == \E x \in c.i : x.kind = "str"

\* try_make_string_index and stoi: the number an element of $in is looked up by
Looked(x) == IF x.kind = "str" THEN Hash[x.data] ELSE x.data

Within(n, c) == /\ c.op \in {"gt", "range_lt_gt", "range_lte_gt"} => n > c.min
                /\ c.op \in {"gte", "range_lt_gte", "range_lte_gte"} => n >= c.min
                /\ c.op \in {"lt", "range_lt_gt", "range_lt_gte"} => n < c.max
                /\ c.op \in {"lte", "range_lte_gt", "range_lte_gte"} => n <= c.max

MatchesOne(val, c) ==
  IF c.op = "compare"
  THEN IF val.kind = "arr" THEN \E n \in val.data : Num(n) \in c.i ELSE val \in c.i
  ELSE val.kind = "num" /\ Within(val.data, c)

\* b_tree::matching
Matching(rec, search) ==
  \A f \in DOMAIN search : f \in DOMAIN rec /\ MatchesOne(rec[f], search[f])

(***************************************************************************)
(* The cursor of an index                                                  *)
(***************************************************************************)
Entry(i, o) == [i |-> i, o |-> o, whole |-> TRUE]

\* extractIndex
EntryAt(ix, c) == IF c < Len(ix) THEN ix[c + 1] ELSE [i |-> 0, o |-> 0, whole |-> FALSE]

Up == {"gte", "gt"}
Down == {"lte", "lt"}
Near == 5

Cur(e, c, found) == [e |-> e, cursor |-> c, found |-> found, equal |-> FALSE,
                     lower |-> FALSE, ultima |-> FALSE]

\* The loop of retrieveCursor: bisect until the cursor is within Near of an end, then
\* step.  The entry kept is the one read last, before the cursor is put right.
RECURSIVE Seek(_, _, _, _, _, _, _)
Seek(ix, val, op, c, prev, up, down) ==
  LET e == EntryAt(ix, c)
      n == Len(ix)
  IN CASE e.i = val -> [Cur(e, c, TRUE) EXCEPT !.equal = TRUE]
       [] e.i < val /\ down ->
            IF op \in Up THEN Cur(e, c + 1, TRUE) ELSE Cur(e, c, op \in Down)
       [] e.i < val /\ ~down /\ n - c > Near ->
            Seek(ix, val, op, c + (n - c) \div 2, c, up, down)
       [] e.i < val /\ ~down /\ n - c <= Near ->
            IF c + 1 = n THEN Cur(e, c, op \in Down)
            ELSE Seek(ix, val, op, c + 1, c, TRUE, down)
       [] e.i > val /\ up ->
            IF op \in Down THEN Cur(e, c - 1, TRUE) ELSE Cur(e, c, op \in Up)
       [] e.i > val /\ ~up /\ c - prev > Near ->
            Seek(ix, val, op, prev + (c - prev) \div 2, prev, up, down)
       [] OTHER ->
            IF c = 0 THEN [Cur(e, c, op \in Up) EXCEPT !.lower = TRUE]
            ELSE Seek(ix, val, op, c - 1, prev, up, TRUE)

\* The positions above and below c whose value is another one
Above(ix, c) == {k \in c + 1 .. Len(ix) - 1 : EntryAt(ix, k).i # EntryAt(ix, c).i}
Below(ix, c) == {k \in 0 .. c - 1 : EntryAt(ix, k).i # EntryAt(ix, c).i}
Lowest(S) == CHOOSE x \in S : \A y \in S : x <= y
Highest(S) == CHOOSE x \in S : \A y \in S : x >= y

\* What retrieveCursor does when it has met val itself: walk to the end of the run
AtRun(ix, val, op, f) ==
  LET last == Len(ix) - 1
      to(c, e) == [f EXCEPT !.cursor = c, !.e = e]
      ends(g) == IF op \in {"gt", "lt"} /\ g.e.i = val
                 THEN [g EXCEPT !.ultima = TRUE, !.found = FALSE] ELSE g
  IN CASE f.equal /\ op \in {"lte", "gt"} ->
            ends(IF f.cursor = last THEN f
                 ELSE IF Above(ix, f.cursor) = {} THEN to(last + 1, EntryAt(ix, last))
                 ELSE LET k == Lowest(Above(ix, f.cursor)) - (IF op = "lte" THEN 1 ELSE 0)
                      IN to(k, EntryAt(ix, k)))
       [] f.equal /\ op \in {"gte", "lt"} ->
            ends(IF Below(ix, f.cursor) = {} THEN to(0, EntryAt(ix, 0))
                 ELSE LET k == Highest(Below(ix, f.cursor)) + (IF op = "gte" THEN 1 ELSE 0)
                      IN to(k, EntryAt(ix, k)))
       [] OTHER -> f

RetrieveCursor(ix, val, op) ==
  IF ix = <<>> THEN Cur(EntryAt(ix, 0), 0, FALSE)
  ELSE AtRun(ix, val, op, Seek(ix, val, op, Len(ix) \div 2, 0, FALSE, FALSE))

(***************************************************************************)
(* Writing                                                                 *)
(***************************************************************************)
\* std::multimap::insert: after the entries with the same value
Insert(ix, e) == InsertAt(ix, Cardinality({k \in 1 .. Len(ix) : ix[k].i <= e.i}) + 1, e)

\* addToIndex, and where it puts the entry
PlaceAt(ix, f) == IF f.found \/ f.ultima THEN f.cursor + 1 ELSE IF f.lower THEN 0 ELSE Len(ix)
AddToIndex(ix, e) == InsertAt(ix, PlaceAt(ix, RetrieveCursor(ix, e.i, "lt")) + 1, e)

\* The blocks an array of records is cut into: a record each in a plain file (per = 0),
\* and otherwise a block is closed when it has the size that was asked for
Cut(recs, per) ==
  LET n == IF per = 0 THEN 1 ELSE per
      k == (Len(recs) + n - 1) \div n
  IN [b \in 1 .. k |-> SubSeq(recs, (b - 1) * n + 1, IF b * n < Len(recs) THEN b * n ELSE Len(recs))]

\* The entries of field f for the records of new blocks, in the order of the records.
\* A block is known by its number until its size is known; then the number is
\* replaced by its offset.
EntriesOf(blocks, from, f) ==
  LET ofRec(rec, o) == IF f \in DOMAIN rec
                       THEN SetToSeq({Entry(i, o) : i \in MakeIndex(rec[f], f)}) ELSE <<>>
      ofBlock(b) == FlattenSeq([r \in 1 .. Len(blocks[b]) |-> ofRec(blocks[b][r], from + b - 1)])
  IN FlattenSeq([b \in 1 .. Len(blocks) |-> ofBlock(b)])

Sorted(entries) == FoldLeft(Insert, <<>>, entries)

\* retrieveCompressedData: ajdb appends to a file of the second version with compressed
\* blocks, unless its body is empty (_ex_data.size)
Appends(s) == s.append /\ db.there /\ db.blocky /\ db.blocks # <<>>

\* An append gives new entries only to the indexes the file has, and only if the settings
\* of this write name them.  Everything else makes the file anew, with the indexes of the
\* settings.
CreateDatabaseContent(s) ==
  LET per == IF s.append /\ s.per = 0 THEN Len(s.recs) + 1 ELSE s.per
      new == Cut(s.recs, per)
      added(f, from) == IF f \in s.index THEN Sorted(EntriesOf(new, from, f)) ELSE <<>>
  IN IF Appends(s)
     THEN [db EXCEPT !.blocks = @ \o new,
                     !.index = [f \in DOMAIN db.index |->
                                  FoldLeft(AddToIndex, @[f], added(f, Len(db.blocks)))]]
     ELSE [there |-> TRUE, blocky |-> per # 0, blocks |-> new,
           index |-> [f \in s.index |-> added(f, 0)]]

Write(s) ==
  /\ writes' = writes + 1
  /\ db' = CreateDatabaseContent(s)
  /\ named' = IF Appends(s) THEN named \cap s.index ELSE s.index

(***************************************************************************)
(* Searching                                                               *)
(***************************************************************************)
LowerOp(op) == IF op \in {"gt", "range_lt_gt", "range_lte_gt"} THEN "gt" ELSE "gte"
UpperOp(op) == IF op \in {"lt", "range_lt_gt", "range_lt_gte"} THEN "lt" ELSE "lte"

Span(ix, from, to) == {EntryAt(ix, k) : k \in from .. to}

RunUpwards(ix, c) == {EntryAt(ix, k) : k \in {j \in c .. Len(ix) - 1 :
                        \A m \in c .. j : EntryAt(ix, m).i = EntryAt(ix, c).i}}
\* The walk of fetchIndexedData to both sides of the cursor
Run(ix, c) == {EntryAt(ix, k) : k \in {j \in 0 .. Len(ix) - 1 :
                 \A m \in (IF j < c THEN j ELSE c) .. (IF j < c THEN c ELSE j) :
                    EntryAt(ix, m).i = EntryAt(ix, c).i}}

\* fetchIndexedData: the entries passed to f_add, for a value looked up, for bounds
RunAt(ix, f) == IF f.found THEN Run(ix, f.cursor) ELSE {}
Between(op, ix, lo, hi) ==
  CASE op \in {"gt", "gte"} -> IF lo.found THEN {lo.e} \cup Span(ix, lo.cursor + 1, Len(ix) - 1) ELSE {}
    [] op \in {"lt", "lte"} -> IF hi.found THEN {hi.e} \cup Span(ix, 0, hi.cursor - 1) ELSE {}
    [] OTHER -> IF lo.found /\ hi.found /\ lo.cursor <= hi.cursor
                THEN {lo.e} \cup Span(ix, lo.cursor + 1, hi.cursor) ELSE {}
Visited(c, ix) ==
  IF c.op = "compare" THEN UNION {RunAt(ix, RetrieveCursor(ix, Looked(x), "compare")) : x \in c.i}
  ELSE Between(c.op, ix, RetrieveCursor(ix, c.min, LowerOp(c.op)), RetrieveCursor(ix, c.max, UpperOp(c.op)))

\* The map of offsets to sizes: the offsets, and whether 0 is there with size 0
AddOffsets(entries) ==
  [offs |-> {e.o : e \in entries},
   hollow |-> (\E e \in entries : ~e.whole) /\ ~\E e \in entries : e.whole /\ e.o = 0]

Intersect(search, order, first) ==
  FoldLeft(LAMBDA readed, f : AddOffsets({e \in Visited(search[f], db.index[f]) : e.o \in readed.offs}), first, order)

RecsOf(offs) == UNION {{<<o, r>> : r \in 1 .. Len(db.blocks[o + 1])} : o \in offs}
RecAt(p) == db.blocks[p[1] + 1][p[2]]
AllOffs == 0 .. Len(db.blocks) - 1

\* The end of fetch, with what the indexes found.  Of a plain file the conditions that were
\* looked up are dropped, those on strings excepted; the records left are compared with the
\* conditions left.  An empty piece among others leaves a text that is not JSON.
Answer(search, found) ==
  LET rest == {f \in DOMAIN search : db.blocky \/ f \notin DOMAIN db.index \/ IsString(search[f])}
      good == ~found.hollow \/ Cardinality(found.offs) = 1
      pieces == RecsOf(IF found.hollow THEN found.offs \ {0} ELSE found.offs)
  IN IF rest = {} THEN [text |-> good, recs |-> pieces]
     ELSE [text |-> TRUE, recs |-> {p \in pieces : good /\ Matching(RecAt(p), [f \in rest |-> search[f]])}]

\* fetch, with the indexed fields of the search taken in the given order
Fetch(search, order) ==
  IF order = <<>>
  THEN [text |-> TRUE, recs |-> {p \in RecsOf(AllOffs) : Matching(RecAt(p), search)}]
  ELSE Answer(search, Intersect(search, Tail(order), AddOffsets(Visited(search[Head(order)], db.index[Head(order)]))))

\* The orders in which an unordered_map may be walked
OrdersOf(search) == SetToSeqs(DOMAIN search \cap DOMAIN db.index)

JInit ==
  /\ db = [there |-> FALSE, blocky |-> FALSE, blocks |-> <<>>, index |-> <<>>]
  /\ writes = 0
  /\ named = {}

JNext == /\ writes < Len(WriteSets)
         /\ \E s \in WriteSets[writes + 1] : Write(s)

JSpec == JInit /\ [][JNext]_jvars

(***************************************************************************)
(* Properties                                                              *)
(***************************************************************************)
Reference(search) == {p \in RecsOf(AllOffs) : Matching(RecAt(p), search)}

\* The records of block o whose value of f is indexed by number i
Owing(f, i, o) == {p \in RecsOf({o}) : f \in DOMAIN RecAt(p) /\ i \in MakeIndex(RecAt(p)[f], f)}

\* All numbers some record has in field f
Numbers(f) == UNION {MakeIndex(RecAt(p)[f], f) : p \in {q \in RecsOf(AllOffs) : f \in DOMAIN RecAt(q)}}

\* Every index stays sorted, whatever is appended (addToIndex), and an index that all
\* writes of the file have named has for every block as many entries of a number as the
\* block has records with it.  (An append that leaves an index of the file out of its
\* settings leaves its records out of that index: j_manager.cpp:635.)
IndexInStep ==
  \A f \in DOMAIN db.index :
    LET ix == db.index[f]
    IN /\ \A k \in 1 .. Len(ix) - 1 : ix[k].i <= ix[k + 1].i
       /\ f \in named => /\ Len(ix) = Cardinality(UNION {Owing(f, i, o) : i \in Numbers(f), o \in AllOffs})
                         /\ \A o \in AllOffs, i \in Numbers(f) :
                              Cardinality({k \in 1 .. Len(ix) : ix[k] = Entry(i, o)})
                                = Cardinality(Owing(f, i, o))

\* All records that have the field have it in a form that is indexed; strings are looked
\* up by their hash, which a condition on numbers cannot tell from a number
Tidy(f, c) == \A p \in RecsOf(AllOffs) : f \in DOMAIN RecAt(p) =>
                /\ MakeIndex(RecAt(p)[f], f) # {}
                /\ RecAt(p)[f].kind = "str" => IsString(c)

\* A bound between two neighbours of the index, neither of which it equals
InGap(ix, b) == /\ \A k \in 1 .. Len(ix) : ix[k].i # b
                /\ \E k \in 1 .. Len(ix) - 1 : ix[k].i < b /\ b < ix[k + 1].i

\* The conditions a lookup may answer inexactly: a bound in a gap, where retrieveCursor
\* puts the cursor right after it has read the entry, and a range up to and including the
\* last value, where the cursor may run off the end.
Inexact(ix, c) ==
  \/ c.op \notin {"compare", "lt", "lte"} /\ InGap(ix, c.min)
  \/ c.op \in {"lt", "lte"} /\ InGap(ix, c.max)
  \/ c.op \in {"range_lte_gt", "range_lte_gte"} /\ ix # <<>> /\ Last(ix).i = c.max

\* A search through indexes, in whatever order they are used, returns exactly the records
\* that comparing every record with the search would return, for fields whose values can
\* be indexed and conditions that are looked up exactly.
FetchAgrees ==
  \A search \in SearchSet : \A order \in OrdersOf(search) :
    (\A f \in Range(order) : f \in named /\ Tidy(f, search[f]) /\ ~Inexact(db.index[f], search[f]))
      => Fetch(search, order) = [text |-> TRUE, recs |-> Reference(search)]
=============================================================================
