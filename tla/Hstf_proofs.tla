----------------------------- MODULE Hstf_proofs -----------------------------
(***************************************************************************)
(* Proofs about Hstf for any number of followers, records and crashes.     *)
(* hstf::get counts positions from the end of content and not numbers: it  *)
(* leaves no record out because the numbers climb, so that content holds   *)
(* at most p - c records behind the number c, gaps left by failed writes   *)
(* included.  h_file may lag behind content or hold what clear() dropped,  *)
(* but never a record that the followers' numbers do not account for.      *)
(***************************************************************************)
EXTENDS Hstf, TLAPS

Records == [n : Nat \ {0}, id : Nat \ {0}]
Steps == {"sleep", "answer", "process", "save"}

\* Type invariant of the replication.
HstfTypeOK ==
  /\ content \in Seq(Records) /\ hfile \in Seq(Records)
  /\ p \in Nat /\ nextId \in Nat \ {0} /\ writing \in {"no", "add", "clear"}
  /\ remote \in [Followers -> Nat] /\ saved \in [Followers -> Nat] /\ up \in [Followers -> Nat]
  /\ step \in [Followers -> Steps]
  /\ batch \in [Followers -> Seq(Records)]
  /\ stale \in [Followers -> BOOLEAN] /\ fresh \in [Followers -> BOOLEAN]
  /\ done \in [Followers -> SUBSET Nat] /\ refused \in [Followers -> SUBSET Nat]
  /\ passed \in [Followers -> SUBSET Nat] /\ trimmed \in SUBSET Nat

\* Numbers climb by one at least from record to record, and so do identities.
Climbs(s) ==
  \A i, k \in 1 .. Len(s) :
    /\ i <= k => s[i].n + (k - i) <= s[k].n
    /\ i < k => s[i].id < s[k].id

\* No number is beyond bound and no identity beyond last.
Within(s, bound, last) == \A i \in 1 .. Len(s) : s[i].n <= bound /\ s[i].id <= last

\* What h_file may be, seen from content.
OplogOK ==
  /\ Climbs(content) /\ Climbs(hfile)
  /\ Within(content, p, nextId - 1)
  /\ IF writing = "add"
     THEN /\ Len(content) > 0 /\ content[Len(content)] = Record(p, nextId - 1)
          /\ Within(hfile, p - 1, nextId - 2)
     ELSE Within(hfile, p, nextId - 1)
  /\ \A i \in 1 .. Len(hfile) :
       hfile[i].id \in trimmed \/ \E k \in 1 .. Len(content) : content[k] = hfile[i]

Settled(b) == done[b] \cup refused[b] \cup passed[b] \cup trimmed

\* What the numbers and the batch of a follower account for.
FollowerOK(b) ==
  /\ ~stale[b] => /\ remote[b] <= p /\ saved[b] <= p
                  /\ \A i \in 1 .. Len(content) : content[i].n <= remote[b] => content[i].id \in Settled(b)
                  /\ \A i \in 1 .. Len(content) : content[i].n <= saved[b] => content[i].id \in Settled(b)
  /\ step[b] # "sleep" /\ (fresh[b] \/ ~stale[b]) => up[b] <= p
  /\ step[b] \in {"answer", "process"} /\ ~stale[b] =>
       \A i \in 1 .. Len(content) : content[i].n <= up[b] =>
          \/ content[i].id \in Settled(b)
          \/ \E k \in 1 .. Len(batch[b]) : batch[b][k].id = content[i].id

FollowersOK == \A b \in Followers : FollowerOK(b)

HstfInv == HstfTypeOK /\ OplogOK /\ FollowersOK

LEMMA SubSeqIs ==
  ASSUME NEW S, NEW s \in Seq(S), NEW from \in Nat \ {0}, NEW to \in Nat, to <= Len(s)
  PROVE  /\ SubSeq(s, from, to) \in Seq(S)
         /\ Len(SubSeq(s, from, to)) = IF from <= to THEN to - from + 1 ELSE 0
         /\ \A i \in 1 .. Len(SubSeq(s, from, to)) :
              /\ SubSeq(s, from, to)[i] = s[from + i - 1]
              /\ from + i - 1 \in 1 .. Len(s)
OBVIOUS

LEMMA RecordsTyped ==
  ASSUME NEW s \in Seq(Records)
  PROVE  Len(s) \in Nat /\ \A i \in 1 .. Len(s) : s[i].n \in Nat \ {0} /\ s[i].id \in Nat \ {0}
<1>1. Len(s) \in Nat /\ \A i \in 1 .. Len(s) : s[i] \in Records
  OBVIOUS
<1>2. \A r \in Records : r.n \in Nat \ {0} /\ r.id \in Nat \ {0}
  BY Zenon DEF Records
<1> QED
  BY Zenon, <1>1, <1>2

LEMMA AppendIs ==
  ASSUME NEW S, NEW s \in Seq(S), NEW r \in S
  PROVE  /\ Append(s, r) \in Seq(S) /\ Len(Append(s, r)) = Len(s) + 1 /\ Len(s) \in Nat
         /\ \A i \in 1 .. Len(s) : Append(s, r)[i] = s[i]
         /\ Append(s, r)[Len(s) + 1] = r
OBVIOUS

\* A piece of an oplog climbs as the whole does.
LEMMA PieceClimbs ==
  ASSUME NEW s \in Seq(Records), NEW from \in Nat \ {0}, NEW to \in Nat, to <= Len(s), Climbs(s)
  PROVE  Climbs(SubSeq(s, from, to))
<1> DEFINE t == SubSeq(s, from, to)
<1>1. \A i \in 1 .. Len(t) : t[i] = s[from + i - 1] /\ from + i - 1 \in 1 .. Len(s)
  BY Zenon, SubSeqIs
<1>2. \A i \in 1 .. Len(s) : s[i].n \in Nat /\ s[i].id \in Nat
  BY Zenon, RecordsTyped
<1> HIDE DEF t
<1> SUFFICES ASSUME NEW i \in 1 .. Len(t), NEW k \in 1 .. Len(t)
    PROVE  (i <= k => t[i].n + (k - i) <= t[k].n) /\ (i < k => t[i].id < t[k].id)
  BY Zenon DEF Climbs, t
<1>3. /\ from + i - 1 <= from + k - 1 => s[from + i - 1].n + ((from + k - 1) - (from + i - 1)) <= s[from + k - 1].n
      /\ from + i - 1 < from + k - 1 => s[from + i - 1].id < s[from + k - 1].id
  BY Zenon, <1>1 DEF Climbs
<1>4. (from + k - 1) - (from + i - 1) = k - i
  OBVIOUS
<1> QED
  BY SMTT(40), <1>1, <1>3, <1>4

LEMMA ClimbArith ==
  \A x, g, y, m, z \in Int : x + g <= y /\ y <= m /\ m < z => x + (g + 1) <= z
OBVIOUS

LEMMA BelowArith ==
  \A x, m, z \in Int : x <= m /\ m < z => x < z /\ x <= z
OBVIOUS

\* A record beyond all others may be appended.
LEMMA AppendClimbs ==
  ASSUME NEW s \in Seq(Records), NEW r \in Records, NEW m \in Int, NEW last \in Int,
         Climbs(s), Within(s, m, last), m < r.n, last < r.id
  PROVE  Climbs(Append(s, r)) /\ Within(Append(s, r), r.n, r.id)
<1>0. PICK len \in Nat : len = Len(s)
  OBVIOUS
<1> DEFINE t == Append(s, r)
<1>1. /\ Len(t) = len + 1 /\ len \in Nat
      /\ \A i \in 1 .. len : t[i] = s[i]
      /\ t[len + 1] = r
  BY <1>0, AppendIs
<1>2. \A i \in 1 .. len : s[i].n \in Nat /\ s[i].id \in Nat
  BY Zenon, <1>0, RecordsTyped
<1>3. r.n \in Nat /\ r.id \in Nat
  BY Zenon DEF Records
<1>4. \A i \in 1 .. len : s[i].n + (len + 1 - i) <= r.n /\ s[i].id < r.id /\ s[i].n <= r.n
  <2> SUFFICES ASSUME NEW i \in 1 .. len
      PROVE  s[i].n + (len + 1 - i) <= r.n /\ s[i].id < r.id /\ s[i].n <= r.n
    BY Zenon
  <2>1. len \in 1 .. len /\ i <= len
    BY <1>1
  <2>2. s[i].n + (len - i) <= s[len].n /\ s[len].n <= m /\ s[i].id <= last /\ s[i].n <= m
    BY Zenon, <1>0, <2>1 DEF Climbs, Within
  <2>3. s[len].n \in Nat /\ s[i].n \in Nat /\ s[i].id \in Nat
    BY Zenon, <1>2, <2>1
  <2>4. len - i \in Int /\ (len - i) + 1 = (len + 1) - i
    OBVIOUS
  <2>5. r.n \in Int /\ r.id \in Int /\ s[len].n \in Int /\ s[i].n \in Int /\ s[i].id \in Int
    BY <1>3, <2>3
  <2> HIDE DEF t
  <2>6. s[i].n + ((len - i) + 1) <= r.n
    BY <2>2, <2>4, <2>5, ClimbArith, Zenon
  <2>7. s[i].id < r.id /\ s[i].n <= r.n
    BY <2>2, <2>5, BelowArith, Zenon
  <2> QED
    BY <2>4, <2>6, <2>7
<1>5. \A i \in 1 .. Len(t) : i \in 1 .. len \/ i = len + 1
  BY <1>1
<1>6. \A i, k \in 1 .. len : (i <= k => s[i].n + (k - i) <= s[k].n) /\ (i < k => s[i].id < s[k].id)
  BY Zenon, <1>0 DEF Climbs
<1> HIDE DEF t
<1>7. \A i, k \in 1 .. Len(t) : (i <= k => t[i].n + (k - i) <= t[k].n) /\ (i < k => t[i].id < t[k].id)
  <2> SUFFICES ASSUME NEW i \in 1 .. Len(t), NEW k \in 1 .. Len(t)
      PROVE  (i <= k => t[i].n + (k - i) <= t[k].n) /\ (i < k => t[i].id < t[k].id)
    BY Zenon
  <2>1. CASE k = len + 1
    <3>1. CASE i = len + 1
      BY <1>1, <1>3, <2>1, <3>1
    <3>2. CASE i \in 1 .. len
      <4>1. s[i].n + (len + 1 - i) <= r.n /\ s[i].id < r.id
        BY Zenon, <1>4, <3>2
      <4>2. t[i] = s[i] /\ t[k] = r
        BY Zenon, <1>1, <2>1, <3>2
      <4>3. t[i].n + (k - i) <= t[k].n /\ t[i].id < t[k].id
        BY <2>1, <4>1, <4>2
      <4> QED
        BY Zenon, <4>3
    <3> QED
      BY Zenon, <1>5, <3>1, <3>2
  <2>2. CASE k \in 1 .. len
    <3>1. i <= k => i \in 1 .. len
      BY <1>1, <1>5, <2>2
    <3>2. i < k => i <= k
      BY <1>1, <2>2
    <3>3. i \in 1 .. len => (i <= k => t[i].n + (k - i) <= t[k].n) /\ (i < k => t[i].id < t[k].id)
      BY Zenon, <1>1, <1>6, <2>2
    <3> QED
      BY Zenon, <3>1, <3>2, <3>3
  <2> QED
    BY Zenon, <1>5, <2>1, <2>2
<1>8. \A i \in 1 .. Len(t) : t[i].n <= r.n /\ t[i].id <= r.id
  <2> SUFFICES ASSUME NEW i \in 1 .. Len(t) PROVE t[i].n <= r.n /\ t[i].id <= r.id
    BY Zenon
  <2>1. CASE i = len + 1
    BY <1>1, <1>3, <2>1
  <2>2. CASE i \in 1 .. len
    <3>1. t[i] = s[i] /\ s[i].n <= r.n /\ s[i].id < r.id /\ s[i].id \in Nat
      BY Zenon, <1>1, <1>2, <1>4, <2>2
    <3> QED
      BY <1>3, <3>1
  <2> QED
    BY Zenon, <1>5, <2>1, <2>2
<1> QED
  BY Zenon, <1>7, <1>8 DEF t, Climbs, Within

\* hstf::get(c) gives every record behind the number c, though it counts positions.
LEMMA AnswerHasAll ==
  ASSUME HstfTypeOK, OplogOK, NEW c \in Nat
  PROVE  /\ Answer(c) \in Seq(Records)
         /\ \A i \in 1 .. Len(content) : content[i].n > c =>
              \E k \in 1 .. Len(Answer(c)) : Answer(c)[k] = content[i]
<1> DEFINE len == Len(content)
           from == IF len - (p - c) < 0 THEN 1 ELSE len - (p - c) + 1
<1>1. content \in Seq(Records) /\ len \in Nat /\ p \in Nat
  BY DEF HstfTypeOK
<1>2. \A i \in 1 .. len : content[i].n \in Nat
  BY Zenon, <1>1, RecordsTyped
<1>3. \A i \in 1 .. len : content[i].n + (len - i) <= p
  <2> SUFFICES ASSUME NEW i \in 1 .. len PROVE content[i].n + (len - i) <= p
    BY Zenon
  <2>1. len \in 1 .. len /\ i <= len
    BY <1>1
  <2>2. content[i].n + (len - i) <= content[len].n /\ content[len].n <= p
    BY Zenon, <2>1 DEF OplogOK, Climbs, Within
  <2> QED
    BY <1>1, <1>2, <2>1, <2>2
<1> HIDE DEF len
<1>4. CASE c < p
  <2>1. from \in Nat \ {0} /\ Answer(c) = SubSeq(content, from, len)
    BY <1>1, <1>4 DEF Answer, len
  <2> DEFINE a == SubSeq(content, from, len)
  <2> HIDE DEF from
  <2>2. /\ a \in Seq(Records)
        /\ Len(a) = IF from <= len THEN len - from + 1 ELSE 0
        /\ \A k \in 1 .. Len(a) : a[k] = content[from + k - 1]
    BY <1>1, <2>1, SubSeqIs DEF len
  <2>3. \A i \in 1 .. len : content[i].n > c => from <= i
    BY <1>1, <1>2, <1>3 DEF from
  <2>4. \A i \in 1 .. len : from <= i => i - from + 1 \in 1 .. Len(a) /\ a[i - from + 1] = content[i]
    <3> SUFFICES ASSUME NEW i \in 1 .. len, from <= i
        PROVE  i - from + 1 \in 1 .. Len(a) /\ a[i - from + 1] = content[i]
      BY Zenon
    <3>1. i - from + 1 \in 1 .. Len(a)
      BY <1>1, <2>1, <2>2
    <3>2. from + (i - from + 1) - 1 = i
      BY <2>1
    <3> QED
      BY Zenon, <2>2, <3>1, <3>2
  <2> HIDE DEF a
  <2> QED
    BY Zenon, <2>1, <2>2, <2>3, <2>4 DEF len, a
<1>5. CASE ~(c < p)
  <2>1. Answer(c) = <<>>
    BY Zenon, <1>5 DEF Answer
  <2>2. \A i \in 1 .. len : ~(content[i].n > c)
    BY <1>1, <1>2, <1>3, <1>5
  <2> QED
    BY <2>1, <2>2 DEF len
<1> QED
  BY Zenon, <1>4, <1>5

\* A step of the origin that adds nothing to content but new numbers and records that
\* clear() had dropped, and calls a number stale that is beyond its own.
LEMMA OriginStep ==
  ASSUME HstfInv, HstfTypeOK', UNCHANGED <<followerVars, done, refused, passed>>,
         trimmed \subseteq trimmed',
         \A b \in Followers : ~stale'[b] => ~stale[b] /\ remote[b] <= p' /\ saved[b] <= p',
         \A b \in Followers : step[b] # "sleep" /\ (fresh'[b] \/ ~stale'[b])
                                => (fresh[b] \/ ~stale[b]) /\ up[b] <= p',
         \A i \in 1 .. Len(content') :
            \/ content'[i].id \in trimmed'
            \/ content'[i].n > p
            \/ \E k \in 1 .. Len(content) : content[k] = content'[i]
  PROVE  FollowersOK'
<1> SUFFICES ASSUME NEW b \in Followers PROVE FollowerOK(b)'
  BY Zenon DEF FollowersOK
<1>1. /\ remote' = remote /\ saved' = saved /\ step' = step /\ batch' = batch /\ up' = up
      /\ done' = done /\ refused' = refused /\ passed' = passed
  BY Zenon DEF followerVars
<1>2. Settled(b) \subseteq Settled(b)' /\ trimmed' \subseteq Settled(b)'
  BY Zenon, <1>1 DEF Settled
<1>3. FollowerOK(b)
  BY Zenon DEF HstfInv, FollowersOK
<1>4. /\ remote[b] \in Nat /\ saved[b] \in Nat /\ up[b] \in Nat /\ p \in Nat
      /\ \A i \in 1 .. Len(content') : content'[i].n \in Nat
  BY Zenon, RecordsTyped DEF HstfInv, HstfTypeOK
<1>5. ASSUME ~stale'[b], NEW i \in 1 .. Len(content'), content'[i].n <= remote[b] \/ content'[i].n <= saved[b]
      PROVE  content'[i].id \in Settled(b)'
  <2>1. ~stale[b] /\ remote[b] <= p /\ saved[b] <= p
    BY Zenon, <1>3, <1>5 DEF FollowerOK
  <2>2. ~(content'[i].n > p)
    BY <1>4, <1>5, <2>1
  <2>3. CASE content'[i].id \in trimmed'
    BY Zenon, <1>2, <2>3
  <2>4. ASSUME NEW k \in 1 .. Len(content), content[k] = content'[i]
        PROVE  content'[i].id \in Settled(b)'
    <3>1. content[k].id \in Settled(b)
      BY Zenon, <1>3, <1>5, <2>1, <2>4 DEF FollowerOK
    <3> QED
      BY Zenon, <1>2, <2>4, <3>1
  <2> QED
    BY Zenon, <2>2, <2>3, <2>4
<1>6. ASSUME ~stale'[b], step[b] \in {"answer", "process"},
             NEW i \in 1 .. Len(content'), content'[i].n <= up[b]
      PROVE  \/ content'[i].id \in Settled(b)'
             \/ \E k \in 1 .. Len(batch[b]) : batch[b][k].id = content'[i].id
  <2>1. ~stale[b] /\ up[b] <= p
    BY Zenon, <1>3, <1>6 DEF FollowerOK
  <2>2. ~(content'[i].n > p)
    BY <1>4, <1>6, <2>1
  <2>3. CASE content'[i].id \in trimmed'
    BY Zenon, <1>2, <2>3
  <2>4. ASSUME NEW k \in 1 .. Len(content), content[k] = content'[i]
        PROVE  \/ content'[i].id \in Settled(b)'
               \/ \E j \in 1 .. Len(batch[b]) : batch[b][j].id = content'[i].id
    <3>1. \/ content[k].id \in Settled(b)
          \/ \E j \in 1 .. Len(batch[b]) : batch[b][j].id = content[k].id
      BY Zenon, <1>3, <1>6, <2>1, <2>4 DEF FollowerOK
    <3> QED
      BY Zenon, <1>2, <2>4, <3>1
  <2> QED
    BY Zenon, <2>2, <2>3, <2>4
<1> QED
  BY Zenon, <1>1, <1>3, <1>5, <1>6 DEF FollowerOK

LEMMA AddMemoryInv ==
  ASSUME HstfInv, AddMemory
  PROVE  HstfInv'
<1> DEFINE r == Record(p + 1, nextId)
<1>1. /\ writing = "no" /\ p' = p + 1 /\ content' = Append(content, r) /\ nextId' = nextId + 1
      /\ writing' = "add" /\ hfile' = hfile /\ UNCHANGED <<followerVars, historyVars>>
  BY Zenon DEF AddMemory
<1>2. /\ content \in Seq(Records) /\ p \in Nat /\ nextId \in Nat \ {0} /\ hfile \in Seq(Records)
  BY Zenon DEF HstfInv, HstfTypeOK
<1>3. r \in Records /\ r.n = p + 1 /\ r.id = nextId
  BY <1>2 DEF Record, Records
<1> HIDE DEF r
<1>4. /\ content' \in Seq(Records) /\ Len(content') = Len(content) + 1 /\ Len(content) \in Nat
      /\ \A i \in 1 .. Len(content) : content'[i] = content[i]
      /\ content'[Len(content) + 1] = r
  BY <1>1, <1>2, <1>3, AppendIs
<1>5. HstfTypeOK'
  BY <1>1, <1>2, <1>4 DEF HstfInv, HstfTypeOK, followerVars, historyVars
<1>6. Climbs(content') /\ Within(content', p + 1, nextId)
  <2>1. p \in Int /\ nextId - 1 \in Int /\ p < r.n /\ nextId - 1 < r.id
    BY <1>2, <1>3
  <2>2. Climbs(content) /\ Within(content, p, nextId - 1)
    BY Zenon DEF HstfInv, OplogOK
  <2> QED
    BY Zenon, <1>1, <1>2, <1>3, <2>1, <2>2, AppendClimbs
<1>7. OplogOK'
  <2>1. Within(hfile, p, nextId - 1) /\ Climbs(hfile)
    BY Zenon, <1>1 DEF HstfInv, OplogOK
  <2>2. p' = p + 1 /\ p' - 1 = p /\ nextId' - 1 = nextId /\ nextId' - 2 = nextId - 1
    BY <1>1, <1>2
  <2>3. Len(content') > 0 /\ content'[Len(content')] = Record(p', nextId' - 1)
    BY <1>4, <2>2 DEF r
  <2>4. \A i \in 1 .. Len(hfile) :
          hfile[i].id \in trimmed \/ \E k \in 1 .. Len(content') : content'[k] = hfile[i]
    <3> SUFFICES ASSUME NEW i \in 1 .. Len(hfile), hfile[i].id \notin trimmed
        PROVE  \E k \in 1 .. Len(content') : content'[k] = hfile[i]
      BY Zenon
    <3>1. PICK k \in 1 .. Len(content) : content[k] = hfile[i]
      BY Zenon DEF HstfInv, OplogOK
    <3> QED
      BY <1>4, <3>1
  <2>5. trimmed' = trimmed
    BY Zenon, <1>1 DEF historyVars
  <2> QED
    BY ZenonT(40), <1>1, <1>6, <2>1, <2>2, <2>3, <2>4, <2>5 DEF OplogOK, Climbs, Within
<1>8. FollowersOK'
  <2>1. /\ trimmed' = trimmed /\ stale' = stale /\ fresh' = fresh
        /\ UNCHANGED <<followerVars, done, refused, passed>>
    BY Zenon, <1>1 DEF historyVars
  <2>2. \A b \in Followers : remote[b] \in Nat /\ saved[b] \in Nat /\ up[b] \in Nat
    BY Zenon DEF HstfInv, HstfTypeOK
  <2>3. \A b \in Followers : ~stale[b] => remote[b] <= p' /\ saved[b] <= p'
    <3>1. \A b \in Followers : ~stale[b] => remote[b] <= p /\ saved[b] <= p
      BY Zenon DEF HstfInv, FollowersOK, FollowerOK
    <3> QED
      BY <1>1, <1>2, <2>2, <3>1
  <2>4. \A b \in Followers : step[b] # "sleep" /\ (fresh[b] \/ ~stale[b]) => up[b] <= p'
    BY <1>1, <1>2, <2>2 DEF HstfInv, FollowersOK, FollowerOK
  <2>5. \A i \in 1 .. Len(content') :
            content'[i].n > p \/ \E k \in 1 .. Len(content) : content[k] = content'[i]
    <3> SUFFICES ASSUME NEW i \in 1 .. Len(content')
        PROVE  content'[i].n > p \/ \E k \in 1 .. Len(content) : content[k] = content'[i]
      BY Zenon
    <3>1. CASE i = Len(content) + 1
      BY <1>2, <1>3, <1>4, <3>1
    <3>2. CASE i \in 1 .. Len(content)
      BY Zenon, <1>4, <3>2
    <3> QED
      BY <1>4, <3>1, <3>2
  <2> QED
    BY Zenon, <1>5, <2>1, <2>3, <2>4, <2>5, OriginStep
<1> QED
  BY Zenon, <1>5, <1>7, <1>8 DEF HstfInv

\* What OriginStep asks of a step that leaves the numbers alone.
LEMMA SameNumbers ==
  ASSUME HstfInv, HstfTypeOK', UNCHANGED <<p, followerVars, done, refused, passed, stale, fresh>>,
         trimmed \subseteq trimmed',
         \A i \in 1 .. Len(content') : \E k \in 1 .. Len(content) : content[k] = content'[i]
  PROVE  FollowersOK'
<1>1. \A b \in Followers : ~stale[b] => remote[b] <= p /\ saved[b] <= p
  BY Zenon DEF HstfInv, FollowersOK, FollowerOK
<1>2. \A b \in Followers : step[b] # "sleep" /\ (fresh[b] \/ ~stale[b]) => up[b] <= p
  BY Zenon DEF HstfInv, FollowersOK, FollowerOK
<1> QED
  BY Zenon, <1>1, <1>2, OriginStep

LEMMA AddFileInv ==
  ASSUME HstfInv, AddFile
  PROVE  HstfInv'
<1>1. /\ writing = "add" /\ writing' = "no" /\ content' = content /\ p' = p /\ nextId' = nextId
      /\ UNCHANGED <<followerVars, historyVars>>
  BY Zenon DEF AddFile
<1>2. /\ content \in Seq(Records) /\ p \in Nat /\ nextId \in Nat \ {0} /\ hfile \in Seq(Records)
      /\ Len(content) \in Nat
  BY DEF HstfInv, HstfTypeOK
<1>3. /\ Len(content) > 0 /\ content[Len(content)] = Record(p, nextId - 1)
      /\ Within(hfile, p - 1, nextId - 2) /\ Climbs(hfile)
      /\ Climbs(content) /\ Within(content, p, nextId - 1)
      /\ \A i \in 1 .. Len(hfile) :
           hfile[i].id \in trimmed \/ \E k \in 1 .. Len(content) : content[k] = hfile[i]
  BY Zenon, <1>1 DEF HstfInv, OplogOK
<1> DEFINE r == content[Len(content)]
<1>4. r \in Records /\ r.n = p /\ r.id = nextId - 1 /\ Len(content) \in 1 .. Len(content)
  BY <1>2, <1>3 DEF Record
<1>5. hfile' = hfile \/ hfile' = Append(hfile, r)
  BY Zenon, <1>2 DEF AddFile
<1> HIDE DEF r
<1>6. /\ hfile' \in Seq(Records) /\ Climbs(hfile') /\ Within(hfile', p, nextId - 1)
      /\ \A i \in 1 .. Len(hfile') :
           hfile'[i].id \in trimmed \/ \E k \in 1 .. Len(content) : content[k] = hfile'[i]
  <2>1. CASE hfile' = hfile
    <3>1. \A i \in 1 .. Len(hfile) : hfile[i].n <= p /\ hfile[i].id <= nextId - 1
      <4>1. \A i \in 1 .. Len(hfile) : hfile[i].n \in Nat /\ hfile[i].id \in Nat
        BY Zenon, <1>2, RecordsTyped
      <4> QED
        BY <1>2, <1>3, <4>1 DEF Within
    <3> QED
      BY Zenon, <1>2, <1>3, <2>1, <3>1 DEF Within
  <2>2. CASE hfile' = Append(hfile, r)
    <3>1. p - 1 \in Int /\ nextId - 2 \in Int /\ p - 1 < r.n /\ nextId - 2 < r.id
      BY <1>2, <1>4
    <3>2. Climbs(hfile') /\ Within(hfile', p, nextId - 1)
      BY Zenon, <1>2, <1>3, <1>4, <2>2, <3>1, AppendClimbs
    <3>3. /\ hfile' \in Seq(Records) /\ Len(hfile') = Len(hfile) + 1 /\ Len(hfile) \in Nat
          /\ \A i \in 1 .. Len(hfile) : hfile'[i] = hfile[i]
          /\ hfile'[Len(hfile) + 1] = r
      BY <1>2, <1>4, <2>2, AppendIs
    <3>4. ASSUME NEW i \in 1 .. Len(hfile')
          PROVE  hfile'[i].id \in trimmed \/ \E k \in 1 .. Len(content) : content[k] = hfile'[i]
      <4>1. CASE i = Len(hfile) + 1
        BY Zenon, <1>4, <3>3, <4>1 DEF r
      <4>2. CASE i \in 1 .. Len(hfile)
        BY Zenon, <1>3, <3>3, <4>2
      <4> QED
        BY <3>3, <4>1, <4>2
    <3> QED
      BY Zenon, <3>2, <3>3, <3>4
  <2> QED
    BY Zenon, <1>5, <2>1, <2>2
<1>7. HstfTypeOK'
  BY Zenon, <1>1, <1>2, <1>6 DEF HstfInv, HstfTypeOK, followerVars, historyVars
<1>8. OplogOK'
  BY Zenon, <1>1, <1>3, <1>6 DEF OplogOK, Climbs, Within, historyVars
<1>9. FollowersOK'
  BY Zenon, <1>1, <1>7, SameNumbers DEF historyVars
<1> QED
  BY Zenon, <1>7, <1>8, <1>9 DEF HstfInv

LEMMA IdsOfIs ==
  ASSUME NEW s \in Seq(Records), NEW x
  PROVE  x \in IdsOf(s) <=> \E i \in 1 .. Len(s) : s[i].id = x
<1>1. DOMAIN s = 1 .. Len(s)
  OBVIOUS
<1> QED
  BY <1>1, Zenon DEF IdsOf, Range

\* clear() keeps the end of content; the records before it are told by their identities.
LEMMA ClearMemoryInv ==
  ASSUME HstfInv, ClearMemory
  PROVE  HstfInv'
<1>0. PICK len \in Nat : len = Len(content)
  BY DEF HstfInv, HstfTypeOK
<1>1. /\ writing = "no" /\ writing' = "clear" /\ hfile' = hfile /\ p' = p /\ nextId' = nextId
      /\ content' = SubSeq(content, len - Keep + 1, len) /\ len >= Keep
      /\ trimmed' = trimmed \cup (IdsOf(content) \ IdsOf(content'))
      /\ UNCHANGED <<followerVars, done, refused, stale, fresh, passed>>
  <2>1. Len(content) > Keep \/ Len(content) = Keep
    BY Zenon DEF ClearMemory
  <2>2. len >= Keep
    BY <1>0, <2>1, KeepNat
  <2> QED
    BY Zenon, <1>0, <2>2 DEF ClearMemory
<1>2. /\ content \in Seq(Records) /\ p \in Nat /\ nextId \in Nat \ {0} /\ hfile \in Seq(Records)
      /\ trimmed \subseteq Nat /\ \A i \in 1 .. len : content[i].id \in Nat
  BY Zenon, <1>0, RecordsTyped DEF HstfInv, HstfTypeOK
<1>3. len - Keep + 1 \in Nat \ {0} /\ len - Keep \in Nat /\ Keep \in Nat
  BY <1>1, KeepNat
<1>4. /\ content' \in Seq(Records) /\ Len(content') = Keep
      /\ \A i \in 1 .. Keep : content'[i] = content[len - Keep + 1 + i - 1]
  BY <1>0, <1>1, <1>2, <1>3, SubSeqIs
<1>5. \A i \in 1 .. Keep : content'[i] = content[len - Keep + i] /\ len - Keep + i \in 1 .. len
  BY <1>3, <1>4
<1>6. /\ Climbs(content) /\ Within(content, p, nextId - 1) /\ Climbs(hfile) /\ Within(hfile, p, nextId - 1)
      /\ \A i \in 1 .. Len(hfile) :
           hfile[i].id \in trimmed \/ \E k \in 1 .. len : content[k] = hfile[i]
  BY Zenon, <1>0, <1>1 DEF HstfInv, OplogOK
<1>7. Climbs(content')
  BY <1>0, <1>1, <1>2, <1>3, <1>6, PieceClimbs
<1>8. Within(content', p, nextId - 1)
  BY <1>0, <1>4, <1>5, <1>6 DEF Within
<1>9. ASSUME NEW k \in 1 .. len, content[k].id \notin trimmed'
      PROVE  \E i \in 1 .. Keep : content'[i] = content[k]
  <2>1. content[k].id \in IdsOf(content')
    BY Zenon, <1>0, <1>1, <1>2, <1>9, IdsOfIs
  <2>2. PICK i \in 1 .. Keep : content'[i].id = content[k].id
    BY <1>4, <2>1, IdsOfIs
  <2> DEFINE j == len - Keep + i
  <2>3. j \in 1 .. len /\ content'[i] = content[j]
    BY Zenon, <1>5
  <2> HIDE DEF j
  <2>4. ~(j < k) /\ ~(k < j)
    BY <1>0, <1>2, <1>6, <2>2, <2>3 DEF Climbs
  <2>5. j = k
    BY <2>3, <2>4
  <2> QED
    BY Zenon, <2>3, <2>5
<1>10. OplogOK'
  <2>1. \A i \in 1 .. Len(hfile) :
          hfile[i].id \in trimmed' \/ \E k \in 1 .. Len(content') : content'[k] = hfile[i]
    <3> SUFFICES ASSUME NEW i \in 1 .. Len(hfile), hfile[i].id \notin trimmed'
        PROVE  \E k \in 1 .. Len(content') : content'[k] = hfile[i]
      BY Zenon
    <3>1. hfile[i].id \notin trimmed
      BY Zenon, <1>1
    <3>2. PICK k \in 1 .. len : content[k] = hfile[i]
      BY Zenon, <1>6, <3>1
    <3> QED
      BY <1>4, <1>9, <3>2
  <2> QED
    BY ZenonT(40), <1>1, <1>6, <1>7, <1>8, <2>1 DEF OplogOK, Climbs, Within
<1>11. HstfTypeOK'
  <2>1. IdsOf(content) \subseteq Nat
    BY Zenon, <1>0, <1>2, IdsOfIs
  <2>2. trimmed' \in SUBSET Nat
    BY Zenon, <1>1, <1>2, <2>1
  <2> QED
    BY Zenon, <1>1, <1>2, <1>4, <2>2 DEF HstfInv, HstfTypeOK, followerVars
<1>12. FollowersOK'
  <2>1. \A i \in 1 .. Len(content') : \E k \in 1 .. Len(content) : content[k] = content'[i]
    BY Zenon, <1>0, <1>4, <1>5
  <2>2. trimmed \subseteq trimmed'
    BY Zenon, <1>1
  <2> QED
    BY Zenon, <1>1, <1>11, <2>1, <2>2, SameNumbers
<1> QED
  BY Zenon, <1>10, <1>11, <1>12 DEF HstfInv

LEMMA ClearFileInv ==
  ASSUME HstfInv, ClearFile
  PROVE  HstfInv'
<1>1. /\ writing = "clear" /\ writing' = "no" /\ content' = content /\ p' = p /\ nextId' = nextId
      /\ hfile' = hfile \/ hfile' = content
      /\ UNCHANGED <<followerVars, historyVars>>
  BY Zenon DEF ClearFile
<1>2. HstfTypeOK'
  BY Zenon, <1>1 DEF HstfInv, HstfTypeOK, followerVars, historyVars
<1>3. OplogOK'
  BY Zenon, <1>1 DEF HstfInv, OplogOK, Climbs, Within, historyVars
<1>4. FollowersOK'
  BY Zenon, <1>1, <1>2, SameNumbers DEF historyVars
<1> QED
  BY Zenon, <1>2, <1>3, <1>4 DEF HstfInv

\* Whatever a crash leaves in h_file climbs, and nothing in it is new.
LEMMA LeftOK ==
  ASSUME HstfInv, NEW left \in FilesLeft
  PROVE  /\ left \in Seq(Records) /\ Climbs(left)
         /\ \A i \in 1 .. Len(left) :
              /\ left[i].id <= nextId - 1
              /\ left[i].id \in trimmed \/ \E k \in 1 .. Len(content) : content[k] = left[i]
<1>1. /\ content \in Seq(Records) /\ p \in Nat /\ nextId \in Nat \ {0} /\ hfile \in Seq(Records)
      /\ Len(content) \in Nat /\ writing \in {"no", "add", "clear"}
  BY DEF HstfInv, HstfTypeOK
<1>2. /\ Climbs(hfile) /\ Climbs(content) /\ Within(content, p, nextId - 1)
      /\ \A i \in 1 .. Len(hfile) :
           hfile[i].id \in trimmed \/ \E k \in 1 .. Len(content) : content[k] = hfile[i]
  BY Zenon DEF HstfInv, OplogOK
<1>3. \A i \in 1 .. Len(hfile) : hfile[i].id <= nextId - 1
  <2>1. \A i \in 1 .. Len(hfile) : hfile[i].id \in Nat
    BY Zenon, <1>1, RecordsTyped
  <2> QED
    BY <1>1, <2>1 DEF HstfInv, OplogOK, Within
<1>4. CASE left = hfile
  BY Zenon, <1>1, <1>2, <1>3, <1>4
<1>5. CASE left = <<>>
  <2>1. left \in Seq(Records) /\ Len(left) = 0
    BY <1>5
  <2> QED
    BY <2>1 DEF Climbs
<1>6. ASSUME writing = "add", left = Append(hfile, content[Len(content)])
      PROVE  /\ left \in Seq(Records) /\ Climbs(left)
             /\ \A i \in 1 .. Len(left) :
                  /\ left[i].id <= nextId - 1
                  /\ left[i].id \in trimmed \/ \E k \in 1 .. Len(content) : content[k] = left[i]
  <2>1. /\ Len(content) > 0 /\ content[Len(content)] = Record(p, nextId - 1)
        /\ Within(hfile, p - 1, nextId - 2)
    BY Zenon, <1>6 DEF HstfInv, OplogOK
  <2> DEFINE r == content[Len(content)]
  <2>2. r \in Records /\ r.n = p /\ r.id = nextId - 1 /\ Len(content) \in 1 .. Len(content)
    BY <1>1, <2>1 DEF Record
  <2>3. left = Append(hfile, r)
    BY Zenon, <1>1, <1>6
  <2> HIDE DEF r
  <2>4. p - 1 \in Int /\ nextId - 2 \in Int /\ p - 1 < r.n /\ nextId - 2 < r.id
    BY <1>1, <2>2
  <2>5. Climbs(left) /\ Within(left, p, nextId - 1)
    BY Zenon, <1>1, <1>2, <2>1, <2>2, <2>3, <2>4, AppendClimbs
  <2>6. /\ left \in Seq(Records) /\ Len(left) = Len(hfile) + 1 /\ Len(hfile) \in Nat
        /\ \A i \in 1 .. Len(hfile) : left[i] = hfile[i]
        /\ left[Len(hfile) + 1] = r
    BY <1>1, <2>2, <2>3, AppendIs
  <2>7. ASSUME NEW i \in 1 .. Len(left)
        PROVE  left[i].id \in trimmed \/ \E k \in 1 .. Len(content) : content[k] = left[i]
    <3>1. CASE i = Len(hfile) + 1
      BY Zenon, <2>2, <2>6, <3>1 DEF r
    <3>2. CASE i \in 1 .. Len(hfile)
      BY Zenon, <1>2, <2>6, <3>2
    <3> QED
      BY <2>6, <3>1, <3>2
  <2> QED
    BY Zenon, <2>5, <2>6, <2>7 DEF Within
<1>7. ASSUME NEW k \in 0 .. Len(content), left = SubSeq(content, 1, k)
      PROVE  /\ left \in Seq(Records) /\ Climbs(left)
             /\ \A i \in 1 .. Len(left) :
                  /\ left[i].id <= nextId - 1
                  /\ left[i].id \in trimmed \/ \E j \in 1 .. Len(content) : content[j] = left[i]
  <2>1. /\ left \in Seq(Records)
        /\ \A i \in 1 .. Len(left) : left[i] = content[1 + i - 1] /\ 1 + i - 1 \in 1 .. Len(content)
    BY <1>1, <1>7, SubSeqIs
  <2>2. Climbs(left)
    BY <1>1, <1>2, <1>7, PieceClimbs
  <2> QED
    BY Zenon, <1>2, <2>1, <2>2 DEF Within
<1>8. \/ left = hfile \/ left = <<>>
      \/ writing = "add" /\ left = Append(hfile, content[Len(content)])
      \/ \E k \in 0 .. Len(content) : left = SubSeq(content, 1, k)
  BY Zenon, <1>1 DEF FilesLeft
<1> QED
  BY Zenon, <1>4, <1>5, <1>6, <1>7, <1>8

LEMMA OriginRestartInv ==
  ASSUME HstfInv, OriginRestart
  PROVE  HstfInv'
<1>1. PICK left \in FilesLeft :
       LET q == IF left = <<>> THEN 0 ELSE left[Len(left)].n IN
       /\ hfile' = left
       /\ content' = left
       /\ p' = q
       /\ stale' = [b \in Followers |-> stale[b] \/ remote[b] > q \/ saved[b] > q
                                                \/ (step[b] # "sleep" /\ up[b] > q)]
       /\ fresh' = [b \in Followers |-> fresh[b] /\ ~(step[b] # "sleep" /\ up[b] > q)]
  BY Zenon DEF OriginRestart
<1> DEFINE q == IF left = <<>> THEN 0 ELSE left[Len(left)].n
<1>2. /\ hfile' = left /\ content' = left /\ p' = q /\ nextId' = nextId /\ writing' = "no"
      /\ stale' = [b \in Followers |-> stale[b] \/ remote[b] > q \/ saved[b] > q
                                                \/ (step[b] # "sleep" /\ up[b] > q)]
      /\ fresh' = [b \in Followers |-> fresh[b] /\ ~(step[b] # "sleep" /\ up[b] > q)]
      /\ UNCHANGED <<followerVars, done, refused, passed, trimmed>>
  BY Zenon, <1>1 DEF OriginRestart
<1>3. /\ left \in Seq(Records) /\ Climbs(left)
      /\ \A i \in 1 .. Len(left) :
           /\ left[i].id <= nextId - 1
           /\ left[i].id \in trimmed \/ \E k \in 1 .. Len(content) : content[k] = left[i]
  BY Zenon, LeftOK
<1>4. q \in Nat /\ \A i \in 1 .. Len(left) : left[i].n <= q
  <2>1. CASE left = <<>>
    BY <2>1
  <2>2. CASE left # <<>>
    <3>0. PICK len \in Nat : len = Len(left)
      BY <1>3
    <3>1. len \in 1 .. len
      BY <1>3, <2>2, <3>0
    <3>2. q = left[len].n /\ \A i \in 1 .. len : left[i].n \in Nat
      BY Zenon, <1>3, <2>2, <3>0, RecordsTyped
    <3>3. \A i \in 1 .. len : left[i].n + (len - i) <= left[len].n
      <4>1. \A i, k \in 1 .. len : i <= k => left[i].n + (k - i) <= left[k].n
        BY Zenon, <1>3, <3>0 DEF Climbs
      <4>2. \A i \in 1 .. len : i <= len
        OBVIOUS
      <4> QED
        BY <3>1, <4>1, <4>2, Zenon
    <3>4. \A x, y, g \in Int : g >= 0 /\ x + g <= y => x <= y
      OBVIOUS
    <3>5. \A i \in 1 .. len : len - i \in Int /\ len - i >= 0
      OBVIOUS
    <3>6. \A i \in 1 .. len : left[i].n <= left[len].n
      <4> SUFFICES ASSUME NEW i \in 1 .. len PROVE left[i].n <= left[len].n
        BY Zenon
      <4>1. left[i].n \in Int /\ left[len].n \in Int
        BY <3>1, <3>2
      <4> QED
        BY <3>3, <3>4, <3>5, <4>1, Zenon
    <3> QED
      BY Zenon, <3>0, <3>1, <3>2, <3>6
  <2> QED
    BY Zenon, <2>1, <2>2
<1> HIDE DEF q
<1>5. HstfTypeOK'
  <2>1. stale' \in [Followers -> BOOLEAN] /\ fresh' \in [Followers -> BOOLEAN]
    BY <1>2, Zenon DEF HstfInv, HstfTypeOK
  <2> QED
    BY Zenon, <1>2, <1>3, <1>4, <2>1 DEF HstfInv, HstfTypeOK, followerVars
<1>6. OplogOK'
  <2>1. \A i \in 1 .. Len(left) :
           left[i].id \in trimmed \/ \E k \in 1 .. Len(left) : left[k] = left[i]
    BY Zenon
  <2> QED
    BY <1>2, <1>3, <1>4, <2>1 DEF OplogOK, Climbs, Within
<1>7. FollowersOK'
  <2>1. \A b \in Followers : remote[b] \in Nat /\ saved[b] \in Nat /\ up[b] \in Nat
    BY Zenon DEF HstfInv, HstfTypeOK
  <2>2. \A b \in Followers : ~stale'[b] => /\ ~stale[b] /\ ~(remote[b] > q) /\ ~(saved[b] > q)
                                           /\ ~(step[b] # "sleep" /\ up[b] > q)
    BY <1>2, Zenon
  <2>3. \A b \in Followers : fresh'[b] => fresh[b] /\ ~(step[b] # "sleep" /\ up[b] > q)
    BY <1>2, Zenon
  <2>4. \A b \in Followers : /\ ~(remote[b] > q) => remote[b] <= q
                             /\ ~(saved[b] > q) => saved[b] <= q
                             /\ ~(up[b] > q) => up[b] <= q
    BY <1>4, <2>1
  <2>5. \A b \in Followers : ~stale'[b] => ~stale[b] /\ remote[b] <= p' /\ saved[b] <= p'
    BY Zenon, <1>2, <2>2, <2>4
  <2>6. \A b \in Followers : step[b] # "sleep" /\ (fresh'[b] \/ ~stale'[b])
                                => (fresh[b] \/ ~stale[b]) /\ up[b] <= p'
    BY Zenon, <1>2, <2>2, <2>3, <2>4
  <2> QED
    BY Zenon, <1>2, <1>3, <1>5, <2>5, <2>6, OriginStep
<1> QED
  BY Zenon, <1>5, <1>6, <1>7 DEF HstfInv

\* A step of the follower b: what it does not change, and the others.
LEMMA OneFollower ==
  ASSUME HstfInv, HstfTypeOK', NEW b \in Followers, UNCHANGED <<originVars, trimmed>>, FollowerOK(b)',
         \A c \in Followers \ {b} :
            /\ remote'[c] = remote[c] /\ saved'[c] = saved[c] /\ step'[c] = step[c]
            /\ batch'[c] = batch[c] /\ up'[c] = up[c] /\ done'[c] = done[c]
            /\ refused'[c] = refused[c] /\ passed'[c] = passed[c]
            /\ stale'[c] = stale[c] /\ fresh'[c] = fresh[c]
  PROVE  HstfInv'
<1>1. content' = content /\ p' = p /\ hfile' = hfile /\ writing' = writing /\ nextId' = nextId
  BY Zenon DEF originVars
<1>2. OplogOK'
  BY ZenonT(40), <1>1 DEF HstfInv, OplogOK, Climbs, Within
<1>3. ASSUME NEW c \in Followers \ {b} PROVE FollowerOK(c)'
  <2>1. Settled(c)' = Settled(c) /\ FollowerOK(c)
    BY Zenon, <1>3 DEF Settled, HstfInv, FollowersOK
  <2> QED
    BY SMTT(40), <1>1, <1>3, <2>1 DEF FollowerOK
<1> QED
  BY Zenon, <1>2, <1>3 DEF HstfInv, FollowersOK

LEMMA PollInv ==
  ASSUME HstfInv, NEW b \in Followers, Poll(b)
  PROVE  HstfInv'
<1> DEFINE a == Answer(remote[b])
<1>1. /\ batch' = [batch EXCEPT ![b] = a] /\ up' = [up EXCEPT ![b] = p]
      /\ fresh' = [fresh EXCEPT ![b] = TRUE] /\ step' = [step EXCEPT ![b] = "answer"]
      /\ UNCHANGED <<originVars, remote, saved, done, refused, stale, passed, trimmed>>
  BY Zenon DEF Poll
<1>2. /\ a \in Seq(Records) /\ remote[b] \in Nat /\ p \in Nat
      /\ \A i \in 1 .. Len(content) : content[i].n > remote[b] => \E k \in 1 .. Len(a) : a[k] = content[i]
  BY Zenon, AnswerHasAll DEF HstfInv, HstfTypeOK
<1> HIDE DEF a
<1>3. fresh' \in [Followers -> BOOLEAN]
  BY <1>1, Zenon DEF HstfInv, HstfTypeOK
<1>4. HstfTypeOK'
  BY Zenon, <1>1, <1>2, <1>3 DEF HstfInv, HstfTypeOK, originVars, Steps
<1>5. /\ batch'[b] = a /\ up'[b] = p /\ step'[b] = "answer" /\ content' = content /\ p' = p
      /\ Settled(b)' = Settled(b) /\ FollowerOK(b)
  BY Zenon, <1>1 DEF HstfInv, HstfTypeOK, originVars, Settled, FollowersOK
<1>6. FollowerOK(b)'
  <2>1. ASSUME ~stale[b], NEW i \in 1 .. Len(content)
        PROVE  content[i].id \in Settled(b) \/ \E k \in 1 .. Len(a) : a[k].id = content[i].id
    <3>1. content[i].n \in Nat
      BY Zenon, RecordsTyped DEF HstfInv, HstfTypeOK
    <3>2. content[i].n <= remote[b] \/ content[i].n > remote[b]
      BY <1>2, <3>1
    <3> QED
      BY Zenon, <1>2, <1>5, <2>1, <3>2 DEF FollowerOK
  <2> QED
    BY SMTT(40), <1>1, <1>2, <1>5, <2>1 DEF FollowerOK
<1>7. \A c \in Followers \ {b} :
        batch'[c] = batch[c] /\ up'[c] = up[c] /\ step'[c] = step[c] /\ fresh'[c] = fresh[c]
  BY Zenon, <1>1 DEF HstfInv, HstfTypeOK
<1> QED
  BY Zenon, <1>1, <1>4, <1>6, <1>7, OneFollower

LEMMA AnswerInv ==
  ASSUME HstfInv, NEW b \in Followers, AnswerLost(b) \/ AnswerArrives(b)
  PROVE  HstfInv'
<1>1. /\ step' = [step EXCEPT ![b] = step'[b]] /\ step[b] = "answer" /\ step'[b] \in {"sleep", "process"}
      /\ UNCHANGED <<originVars, remote, saved, batch, up, historyVars>>
  BY Zenon DEF AnswerLost, AnswerArrives, HstfInv, HstfTypeOK
<1>2. HstfTypeOK'
  BY ZenonT(40), <1>1 DEF HstfInv, HstfTypeOK, originVars, historyVars, Steps
<1>3. FollowerOK(b) /\ Settled(b)' = Settled(b) /\ content' = content /\ p' = p
      /\ stale' = stale /\ fresh' = fresh
  BY Zenon, <1>1 DEF HstfInv, FollowersOK, Settled, historyVars, originVars
<1>4. FollowerOK(b)'
  BY <1>1, <1>3 DEF FollowerOK
<1>5. \A c \in Followers \ {b} : step'[c] = step[c]
  BY Zenon, <1>1 DEF HstfInv, HstfTypeOK
<1> QED
  BY Zenon, <1>1, <1>2, <1>4, <1>5, OneFollower DEF historyVars

LEMMA ProcessInv ==
  ASSUME HstfInv, NEW b \in Followers, Process(b)
  PROVE  HstfInv'
<1> DEFINE q == batch[b]
           id == Head(q).id
<1>1. /\ step[b] = "process" /\ q # <<>> /\ batch' = [batch EXCEPT ![b] = Tail(q)]
      /\ \/ done' = [done EXCEPT ![b] = @ \cup {id}] /\ refused' = refused
         \/ refused' = [refused EXCEPT ![b] = @ \cup {id}] /\ done' = done
      /\ UNCHANGED <<originVars, remote, saved, step, up, stale, fresh, passed, trimmed>>
  BY Zenon DEF Process
<1>2. q \in Seq(Records) /\ FollowerOK(b)
  BY Zenon DEF HstfInv, HstfTypeOK, FollowersOK
<1>3. Head(q) = q[1] /\ Head(q) \in Records /\ Tail(q) \in Seq(Records)
  BY <1>1, <1>2
<1>4. id \in Nat
  BY Zenon, <1>3 DEF Records
<1>5. \A k \in 1 .. Len(q) : k = 1 \/ (k - 1 \in 1 .. Len(Tail(q)) /\ Tail(q)[k - 1] = q[k])
  BY <1>1, <1>2
<1> HIDE DEF id
<1>6. /\ done' \in [Followers -> SUBSET Nat] /\ refused' \in [Followers -> SUBSET Nat]
      /\ done[b] \cup refused[b] \cup {id} \subseteq done'[b] \cup refused'[b]
      /\ \A c \in Followers \ {b} : done'[c] = done[c] /\ refused'[c] = refused[c]
  <2>t. done \in [Followers -> SUBSET Nat] /\ refused \in [Followers -> SUBSET Nat]
    BY Zenon DEF HstfInv, HstfTypeOK
  <2>1. CASE done' = [done EXCEPT ![b] = @ \cup {id}] /\ refused' = refused
    BY Zenon, <1>4, <2>t, <2>1
  <2>2. CASE refused' = [refused EXCEPT ![b] = @ \cup {id}] /\ done' = done
    BY Zenon, <1>4, <2>t, <2>2
  <2> QED
    BY Zenon, <1>1, <2>1, <2>2
<1>7. batch' \in [Followers -> Seq(Records)] /\ batch'[b] = Tail(q)
      /\ \A c \in Followers \ {b} : batch'[c] = batch[c]
  BY Zenon, <1>1, <1>3 DEF HstfInv, HstfTypeOK
<1>8. HstfTypeOK'
  BY Zenon, <1>1, <1>6, <1>7 DEF HstfInv, HstfTypeOK, originVars
<1>9. content' = content /\ p' = p /\ Settled(b) \cup {id} \subseteq Settled(b)'
  BY Zenon, <1>1, <1>6 DEF originVars, Settled
<1>10. FollowerOK(b)'
  <2>1. ASSUME NEW x, NEW k \in 1 .. Len(q), q[k].id = x
        PROVE  x \in Settled(b)' \/ \E j \in 1 .. Len(Tail(q)) : Tail(q)[j].id = x
    <3>1. CASE k = 1
      BY Zenon, <1>3, <1>9, <2>1, <3>1 DEF id
    <3>2. CASE k # 1
      BY Zenon, <1>5, <2>1, <3>2
    <3> QED
      BY Zenon, <3>1, <3>2
  <2>2. ASSUME ~stale[b], NEW i \in 1 .. Len(content), content[i].n <= up[b]
        PROVE  content[i].id \in Settled(b)' \/ \E j \in 1 .. Len(Tail(q)) : Tail(q)[j].id = content[i].id
    <3>1. content[i].id \in Settled(b) \/ \E k \in 1 .. Len(q) : q[k].id = content[i].id
      BY Zenon, <1>1, <1>2, <2>2 DEF FollowerOK
    <3> QED
      BY Zenon, <1>9, <2>1, <3>1
  <2> HIDE DEF q
  <2> QED
    BY <1>1, <1>2, <1>7, <1>9, <2>2 DEF FollowerOK
<1> QED
  BY Zenon, <1>1, <1>6, <1>7, <1>8, <1>10, OneFollower

\* The new number is taken: the records up to it are dealt with, or were passed over
\* because of a stale number.
LEMMA AdvanceInv ==
  ASSUME HstfInv, NEW b \in Followers, Advance(b)
  PROVE  HstfInv'
<1> DEFINE over == {r.id : r \in {q \in Range(content) : q.n <= up[b]}} \ (done[b] \cup refused[b])
<1>1. /\ step[b] = "process" /\ batch[b] = <<>>
      /\ remote' = [remote EXCEPT ![b] = up[b]]
      /\ stale' = [stale EXCEPT ![b] = ~fresh[b] \/ (@ /\ saved'[b] \notin {0, up[b]})]
      /\ passed' = IF stale[b] THEN [passed EXCEPT ![b] = @ \cup over] ELSE passed
      /\ \/ step' = [step EXCEPT ![b] = "save"] /\ saved' = [saved EXCEPT ![b] = 0]
         \/ step' = [step EXCEPT ![b] = "sleep"] /\ saved' = saved
      /\ UNCHANGED <<originVars, batch, up, done, refused, fresh, trimmed>>
  BY Zenon DEF Advance
<1>2. FollowerOK(b) /\ up[b] \in Nat /\ content \in Seq(Records)
  BY Zenon DEF HstfInv, HstfTypeOK, FollowersOK
<1>3. \A i \in 1 .. Len(content) : content[i].n <= up[b] => content[i].id \in over \cup done[b] \cup refused[b]
  <2>1. DOMAIN content = 1 .. Len(content)
    BY <1>2
  <2> QED
    BY <2>1, Zenon DEF Range
<1>4. over \subseteq Nat
  <2>1. \A i \in 1 .. Len(content) : content[i].id \in Nat
    BY Zenon, <1>2, RecordsTyped
  <2>2. DOMAIN content = 1 .. Len(content)
    BY <1>2
  <2> QED
    BY <2>1, <2>2, Zenon DEF Range
<1> HIDE DEF over
<1>5. /\ stale' \in [Followers -> BOOLEAN] /\ \A c \in Followers \ {b} : stale'[c] = stale[c]
      /\ stale'[b] <=> ~fresh[b] \/ (stale[b] /\ saved'[b] \notin {0, up[b]})
  BY <1>1, Zenon DEF HstfInv, HstfTypeOK
<1>6. /\ passed' \in [Followers -> SUBSET Nat] /\ \A c \in Followers \ {b} : passed'[c] = passed[c]
      /\ passed[b] \subseteq passed'[b] /\ (stale[b] => over \subseteq passed'[b])
  BY Zenon, <1>1, <1>4 DEF HstfInv, HstfTypeOK
<1>7. /\ remote' \in [Followers -> Nat] /\ remote'[b] = up[b]
      /\ \A c \in Followers \ {b} : remote'[c] = remote[c]
  BY Zenon, <1>1, <1>2 DEF HstfInv, HstfTypeOK
<1>8. /\ saved' \in [Followers -> Nat] /\ step' \in [Followers -> Steps]
      /\ \A c \in Followers \ {b} : saved'[c] = saved[c] /\ step'[c] = step[c]
      /\ step'[b] \in {"save", "sleep"} /\ saved'[b] \in {0, saved[b]}
  <2>t. saved \in [Followers -> Nat] /\ step \in [Followers -> Steps]
    BY Zenon DEF HstfInv, HstfTypeOK
  <2>1. CASE step' = [step EXCEPT ![b] = "save"] /\ saved' = [saved EXCEPT ![b] = 0]
    BY Zenon, <2>t, <2>1 DEF Steps
  <2>2. CASE step' = [step EXCEPT ![b] = "sleep"] /\ saved' = saved
    BY Zenon, <2>t, <2>2 DEF Steps
  <2> QED
    BY Zenon, <1>1, <2>1, <2>2
<1>9. HstfTypeOK'
  BY Zenon, <1>1, <1>5, <1>6, <1>7, <1>8 DEF HstfInv, HstfTypeOK, originVars
<1>10. content' = content /\ p' = p /\ Settled(b) \subseteq Settled(b)'
       /\ (stale[b] => over \cup done[b] \cup refused[b] \subseteq Settled(b)')
  BY Zenon, <1>1, <1>6 DEF originVars, Settled
<1>11. ASSUME NEW i \in 1 .. Len(content), content[i].n <= up[b]
       PROVE  content[i].id \in Settled(b)'
  <2>1. CASE stale[b]
    BY Zenon, <1>3, <1>10, <1>11, <2>1
  <2>2. CASE ~stale[b]
    <3>1. Len(batch[b]) = 0
      BY <1>1
    <3>2. content[i].id \in Settled(b)
      BY SMTT(40), <1>1, <1>2, <1>11, <2>2, <3>1 DEF FollowerOK
    <3> QED
      BY Zenon, <1>10, <3>2
  <2> QED
    BY Zenon, <2>1, <2>2
<1>12. ~stale'[b] => up[b] <= p
  BY Zenon, <1>1, <1>2, <1>5 DEF FollowerOK
<1>13. ASSUME ~stale'[b]
       PROVE  /\ saved'[b] <= p
              /\ \A i \in 1 .. Len(content) : content[i].n <= saved'[b] => content[i].id \in Settled(b)'
  <2>1. CASE saved'[b] = 0
    <3>1. p \in Nat /\ \A i \in 1 .. Len(content) : content[i].n \in Nat \ {0}
      BY Zenon, RecordsTyped DEF HstfInv, HstfTypeOK
    <3>2. 0 <= p /\ \A i \in 1 .. Len(content) : ~(content[i].n <= 0)
      BY <3>1
    <3> QED
      BY Zenon, <2>1, <3>2
  <2>2. CASE saved'[b] = up[b]
    BY Zenon, <1>11, <1>12, <1>13, <2>2
  <2>3. CASE ~stale[b] /\ saved'[b] = saved[b]
    BY Zenon, <1>2, <1>10, <2>3 DEF FollowerOK
  <2> QED
    BY Zenon, <1>5, <1>8, <1>13, <2>1, <2>2, <2>3
<1>14. FollowerOK(b)'
  <2>1. step'[b] # "sleep" /\ (fresh[b] \/ ~stale'[b]) => up[b] <= p
    BY Zenon, <1>1, <1>2, <1>12 DEF FollowerOK
  <2> QED
    BY Zenon, <1>1, <1>7, <1>8, <1>10, <1>11, <1>12, <1>13, <2>1 DEF FollowerOK
<1> QED
  BY <1>1, <1>5, <1>6, <1>7, <1>8, <1>9, <1>14, OneFollower

LEMMA SaveInv ==
  ASSUME HstfInv, NEW b \in Followers, Save(b)
  PROVE  HstfInv'
<1>1. /\ step[b] = "save" /\ saved' = [saved EXCEPT ![b] = remote[b]] /\ step' = [step EXCEPT ![b] = "sleep"]
      /\ UNCHANGED <<originVars, remote, batch, up, historyVars>>
  BY Zenon DEF Save
<1>2. HstfTypeOK'
  BY Zenon, <1>1 DEF HstfInv, HstfTypeOK, originVars, historyVars, Steps
<1>3. FollowerOK(b) /\ Settled(b)' = Settled(b) /\ content' = content /\ p' = p
      /\ stale' = stale /\ fresh' = fresh /\ saved'[b] = remote[b] /\ step'[b] = "sleep"
  BY Zenon, <1>1 DEF HstfInv, HstfTypeOK, FollowersOK, Settled, historyVars, originVars
<1>4. FollowerOK(b)'
  BY Zenon, <1>1, <1>3 DEF FollowerOK
<1>5. \A c \in Followers \ {b} : step'[c] = step[c] /\ saved'[c] = saved[c]
  BY Zenon, <1>1 DEF HstfInv, HstfTypeOK
<1> QED
  BY Zenon, <1>1, <1>2, <1>4, <1>5, OneFollower DEF historyVars

\* A follower starts again from the number on its disk: 0 while it is being written.
LEMMA FollowerRestartInv ==
  ASSUME HstfInv, NEW b \in Followers, FollowerRestart(b)
  PROVE  HstfInv'
<1>1. /\ remote' = [remote EXCEPT ![b] = saved[b]] /\ step' = [step EXCEPT ![b] = "sleep"]
      /\ batch' = [batch EXCEPT ![b] = <<>>]
      /\ UNCHANGED <<originVars, saved, up, historyVars>>
  BY Zenon DEF FollowerRestart
<1>2. HstfTypeOK'
  <2>1. <<>> \in Seq(Records)
    OBVIOUS
  <2> QED
    BY Zenon, <1>1, <2>1 DEF HstfInv, HstfTypeOK, originVars, historyVars, Steps
<1>3. FollowerOK(b) /\ Settled(b)' = Settled(b) /\ content' = content /\ p' = p
      /\ stale' = stale /\ fresh' = fresh /\ remote'[b] = saved[b] /\ step'[b] = "sleep"
  BY Zenon, <1>1 DEF HstfInv, HstfTypeOK, FollowersOK, Settled, historyVars, originVars
<1>4. FollowerOK(b)'
  BY Zenon, <1>1, <1>3 DEF FollowerOK
<1>5. \A c \in Followers \ {b} : step'[c] = step[c] /\ remote'[c] = remote[c] /\ batch'[c] = batch[c]
  BY Zenon, <1>1 DEF HstfInv, HstfTypeOK
<1> QED
  BY Zenon, <1>1, <1>2, <1>4, <1>5, OneFollower DEF historyVars

LEMMA HstfInitInv == HstfInit => HstfInv
<1> SUFFICES ASSUME HstfInit PROVE HstfInv
  BY Zenon
<1>1. <<>> \in Seq(Records) /\ Len(<<>>) = 0
  OBVIOUS
<1>2. stale \in [Followers -> BOOLEAN] /\ fresh \in [Followers -> BOOLEAN]
  BY Zenon DEF HstfInit
<1>3. HstfTypeOK
  BY <1>1, <1>2 DEF HstfInit, HstfTypeOK, Steps
<1>4. OplogOK
  BY <1>1 DEF HstfInit, OplogOK, Climbs, Within
<1>5. FollowersOK
  BY SMTT(40), <1>1 DEF HstfInit, FollowersOK, FollowerOK
<1> QED
  BY Zenon, <1>3, <1>4, <1>5 DEF HstfInv

LEMMA HstfNextInv == HstfInv /\ [HstfNext]_hstfVars => HstfInv'
<1> SUFFICES ASSUME HstfInv, [HstfNext]_hstfVars PROVE HstfInv'
  BY Zenon
<1>1. CASE AddMemory \/ AddFile \/ ClearMemory \/ ClearFile \/ OriginRestart
  BY Zenon, <1>1, AddMemoryInv, AddFileInv, ClearMemoryInv, ClearFileInv, OriginRestartInv
<1>2. ASSUME NEW b \in Followers, Follower(b) \/ FollowerRestart(b) PROVE HstfInv'
  BY ZenonT(40), <1>2, PollInv, AnswerInv, ProcessInv, AdvanceInv, SaveInv, FollowerRestartInv DEF Follower
<1>3. CASE UNCHANGED hstfVars
  BY SMTT(60), <1>3 DEF HstfInv, HstfTypeOK, OplogOK, Climbs, Within, FollowersOK, FollowerOK, Settled, hstfVars,
              originVars, followerVars, historyVars
<1> QED
  BY Zenon, <1>1, <1>2, <1>3 DEF HstfNext

LEMMA HstfInvariant == HstfSpec => []HstfInv
BY HstfInitInv, HstfNextInv, PTL DEF HstfSpec

\* Through lost answers, trimming, failing writes of h_file and any number of crashes of
\* either side, no record of the origin is passed over by a follower whose number the
\* origin has not gone back behind, be it the number in memory or the one on disk.
THEOREM NoRecordPassedOver == HstfSpec => []NothingPassedOver
<1>1. HstfInv => NothingPassedOver
  <2> SUFFICES ASSUME HstfInv, NEW b \in Followers, ~stale[b], NEW n \in {remote[b], saved[b]}
      PROVE  DealtWith(b, n)
    BY Zenon DEF NothingPassedOver
  <2>1. content \in Seq(Records) /\ \A i \in 1 .. Len(content) : content[i].n \in Nat \ {0}
    BY Zenon, RecordsTyped DEF HstfInv, HstfTypeOK
  <2>2. DOMAIN content = 1 .. Len(content)
    BY SMTT(40), <2>1
  <2>3. FollowerOK(b)
    BY Zenon DEF HstfInv, FollowersOK
  <2>4. \A i \in 1 .. Len(content) : content[i].n <= n => content[i].id \in Settled(b)
    BY Zenon, <2>3 DEF FollowerOK
  <2> QED
    BY <2>2, <2>4, Zenon DEF DealtWith, Range, Settled
<1> QED
  BY <1>1, HstfInvariant, PTL

\* h_file never holds a record that memory had not, and numbers and identities climb in
\* both, gaps left by failed writes included: hstf::get may count positions.
THEOREM OplogClimbs == HstfSpec => [](HstfTypeOK /\ OplogOK)
<1>1. HstfInv => HstfTypeOK /\ OplogOK
  BY Zenon DEF HstfInv
<1> QED
  BY <1>1, HstfInvariant, PTL
==============================================================================
