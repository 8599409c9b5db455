---------------------------- MODULE EventDb_proofs ----------------------------
(***************************************************************************)
(* EventsReachListener for any headers, writers and numbers of events, at  *)
(* any times. An event is with its writer, in the queue of the responser,  *)
(* in a message, or with the listener. To follow it along this way the     *)
(* invariant adds that a number names one event wherever it is met         *)
(* (Numbered), that what stands under a header is announced by that header *)
(* (HeadersKept), and that the epoll thread meets a listener that has made *)
(* its request before it meets the events (Registered).                    *)
(***************************************************************************)
EXTENDS EventDb, FiniteSetTheorems, TLAPS

Event == [id : Nat, at : Nat, hdr : Headers \cup {NoHeader}]
Message == [what : {"header", "value"}, ev : Event]

\* What the variables the proof speaks of hold.
EventTypeOK ==
  /\ clock \in Nat /\ count \in Nat
  /\ storage \in [Headers -> Event] /\ queue \subseteq Event
  /\ writer \in [Writers -> Event] /\ posted \in Seq(Event)
  /\ turn \in {"listeners", "events"} /\ req \in {"none", "slept", "done"}
  /\ toListen \in BOOLEAN /\ listening \in BOOLEAN /\ mid \in BOOLEAN /\ up \in BOOLEAN
  /\ chan \in Seq(Message)

\* An event the server or a message holds.
Known(e) ==
  \/ e = NoEvent \/ e \in queue
  \/ \E h \in Headers : storage[h] = e
  \/ \E w \in Writers : writer[w] = e
  \/ \E i \in DOMAIN posted : posted[i] = e
  \/ \E i \in DOMAIN chan : chan[i].ev = e

\* A number names one event.
Numbered ==
  /\ \A a : Known(a) => a.id <= count
  /\ \A a, b : Known(a) /\ Known(b) /\ a.id = b.id => a = b

\* What stands under a header is of that header, and only that is announced by its header.
HeadersKept ==
  /\ \A e \in queue : e.hdr \notin Headers /\ e.id # 0
  /\ \A h \in Headers : storage[h].id # 0 => storage[h].hdr = h
  /\ \A i \in DOMAIN chan : chan[i].what = "header" => chan[i].ev.hdr \in Headers

\* The listener is where the epoll thread finds it before the events.
Registered ==
  /\ up \/ req = "none"
  /\ req = "done" => ~mid
  /\ mid => turn = "events" /\ toListen
  /\ req # "none" /\ ~mid => listening \/ (toListen /\ turn = "listeners")

EventInv == EventTypeOK /\ Numbered /\ HeadersKept /\ Registered /\ EventsReachListener

\* Where the elements of a sequence come from when one is put at its end.
LEMMA AppendElements ==
  ASSUME NEW T, NEW s \in Seq(T), NEW x \in T, NEW r, r = Append(s, x)
  PROVE  /\ r \in Seq(T)
         /\ \A i \in DOMAIN r : r[i] = x \/ (i \in DOMAIN s /\ r[i] = s[i])
         /\ \A i \in DOMAIN s : i \in DOMAIN r /\ r[i] = s[i]
         /\ \E i \in DOMAIN r : r[i] = x
<1>1. \A i \in DOMAIN s : i \in DOMAIN r /\ r[i] = s[i]
  OBVIOUS
<1>2. Len(s) + 1 \in DOMAIN r /\ r[Len(s) + 1] = x
  OBVIOUS
<1>3. r \in Seq(T) /\ \A i \in DOMAIN r : r[i] = x \/ (i \in DOMAIN s /\ r[i] = s[i])
  OBVIOUS
<1> QED  BY <1>1, <1>2, <1>3, Zenon

\* ... when another is put after it ...
Joins(r, s, t) ==
  /\ \A i \in DOMAIN r : (i \in DOMAIN s /\ r[i] = s[i]) \/ \E j \in DOMAIN t : r[i] = t[j]
  /\ \A i \in DOMAIN s : i \in DOMAIN r /\ r[i] = s[i]
  /\ \A j \in DOMAIN t : \E i \in DOMAIN r : r[i] = t[j]

\* ... and when another one is put behind it.
LEMMA ConcatElements ==
  ASSUME NEW T, NEW s \in Seq(T), NEW t \in Seq(T), NEW r, r = s \o t
  PROVE  r \in Seq(T) /\ Joins(r, s, t)
<1>1. r \in Seq(T) /\ \A i \in DOMAIN s : i \in DOMAIN r /\ r[i] = s[i]
  OBVIOUS
<1>2. ASSUME NEW j \in DOMAIN t PROVE \E i \in DOMAIN r : r[i] = t[j]
  <2>1. Len(s) + j \in DOMAIN r /\ r[Len(s) + j] = t[j]
    OBVIOUS
  <2> QED  BY <2>1, Zenon
<1>3. ASSUME NEW i \in DOMAIN r, i \notin DOMAIN s
      PROVE  \E j \in DOMAIN t : r[i] = t[j]
  <2>1. i - Len(s) \in DOMAIN t /\ r[i] = t[i - Len(s)]
    BY <1>3
  <2> QED  BY <2>1, Zenon
<1> QED  BY <1>1, <1>2, <1>3, Zenon DEF Joins

\* ... and when its first is taken.
LEMMA TailElements ==
  ASSUME NEW T, NEW s \in Seq(T), s # <<>>, NEW r, r = Tail(s)
  PROVE  /\ r \in Seq(T) /\ Head(s) \in T
         /\ 1 \in DOMAIN s /\ s[1] = Head(s)
         /\ \A i \in DOMAIN r : \E j \in DOMAIN s : r[i] = s[j]
         /\ \A j \in DOMAIN s : s[j] = Head(s) \/ \E i \in DOMAIN r : r[i] = s[j]
<1>1. r \in Seq(T) /\ Head(s) \in T /\ 1 \in DOMAIN s /\ s[1] = Head(s)
  OBVIOUS
<1>2. ASSUME NEW i \in DOMAIN r PROVE \E j \in DOMAIN s : r[i] = s[j]
  <2>1. i + 1 \in DOMAIN s /\ r[i] = s[i + 1]
    OBVIOUS
  <2> QED  BY <2>1, Zenon
<1>3. ASSUME NEW j \in DOMAIN s, j # 1 PROVE \E i \in DOMAIN r : r[i] = s[j]
  <2>1. j - 1 \in DOMAIN r /\ r[j - 1] = s[j]
    BY <1>3
  <2> QED  BY <2>1, Zenon
<1> QED  BY <1>1, <1>2, <1>3, Zenon

\* Events of which each has its own number are finitely many.
LEMMA FewEvents ==
  ASSUME NEW S, NEW n \in Nat, S \subseteq Event, \A a \in S : a.id <= n,
         \A a, b \in S : a.id = b.id => a = b
  PROVE  IsFiniteSet(S)
<1> DEFINE f == [a \in S |-> a.id]
<1>1. f \in [S -> 0 .. n]
  BY DEF Event
<1>2. f \in Injection(S, 0 .. n)
  BY <1>1, Zenon DEF Injection, IsInjective
<1>3. IsFiniteSet(0 .. n)
  BY FS_Interval
<1> QED  BY <1>2, <1>3, FS_Injection, Zenon

\* The answers of fetchEvents are the values of the events, of each one.
LEMMA ValuesListed ==
  ASSUME NEW E, E \subseteq Event, IsFiniteSet(E)
  PROVE  /\ ValuesOf(E) \in Seq(Message)
         /\ \A i \in DOMAIN ValuesOf(E) : ValuesOf(E)[i].what = "value" /\ ValuesOf(E)[i].ev \in E
         /\ \A e \in E : \E i \in DOMAIN ValuesOf(E) : ValuesOf(E)[i].ev = e
<1> DEFINE M == {[what |-> "value", ev |-> e] : e \in E}
           Lists(s) == \A m \in M : \E i \in DOMAIN s : s[i] = m
<1> DEFINE g == [m \in M |-> m.ev]
<1>0. g \in Injection(M, E)
  BY DEF Injection, IsInjective
<1>1. IsFiniteSet(M)
  BY <1>0, FS_Injection, Zenon
<1>2. Cardinality(M) \in Nat /\ ExistsBijection(1 .. Cardinality(M), M)
  BY <1>1, FS_CardinalityType, Zenon
<1>3. \E s \in [1 .. Cardinality(M) -> M] : Lists(s)
  BY <1>2, Zenon DEF ExistsBijection, Bijection, Injection, Surjection
<1>4. ValuesOf(E) = CHOOSE s \in [1 .. Cardinality(M) -> M] : Lists(s)
  BY Zenon DEF ValuesOf
<1>5. ValuesOf(E) \in [1 .. Cardinality(M) -> M] /\ Lists(ValuesOf(E))
  <2> HIDE DEF M, Lists
  <2> QED  BY <1>3, <1>4, Zenon
<1>6. M \subseteq Message
  BY DEF Message
<1>7. ValuesOf(E) \in Seq(Message)
  <2> HIDE DEF M
  <2> QED  BY <1>5, <1>6, <1>2
<1>8. \A i \in DOMAIN ValuesOf(E) : ValuesOf(E)[i] \in M
  BY <1>5, Zenon
<1>9. \A i \in DOMAIN ValuesOf(E) : ValuesOf(E)[i].what = "value" /\ ValuesOf(E)[i].ev \in E
  BY <1>8
<1>10. ASSUME NEW e \in E PROVE \E i \in DOMAIN ValuesOf(E) : ValuesOf(E)[i].ev = e
  <2>1. [what |-> "value", ev |-> e] \in M
    OBVIOUS
  <2>2. PICK i \in DOMAIN ValuesOf(E) : ValuesOf(E)[i] = [what |-> "value", ev |-> e]
    BY <1>5, <2>1, Zenon
  <2> QED  BY <2>2
<1> QED  BY <1>7, <1>9, <1>10, Zenon

\* A step that makes no event keeps the numbers.
LEMMA NumberedKept ==
  ASSUME Numbered, count' = count, \A e : Known(e)' => Known(e)
  PROVE  Numbered'
BY Zenon DEF Numbered

\* A step that takes no event from its way but to give it keeps the promise.
LEMMA ReachKept ==
  ASSUME EventsReachListener, up' /\ req' = "done" => up /\ req = "done",
         queue' \subseteq queue, storage' = storage, got \subseteq got', tooOld' = tooOld,
         \A e \in queue' : OnTheWay(e) => OnTheWay(e)' \/ e.id \in got',
         \A h \in Headers : storage[h].id # 0 /\ (OnTheWay(storage[h]) \/ h \in asked \cup merged)
                            => OnTheWay(storage[h])' \/ storage[h].id \in got' \/ h \in asked' \cup merged'
  PROVE  EventsReachListener'
<1> SUFFICES ASSUME up', req' = "done"
             PROVE  /\ \A e \in queue' : e.id \in got' \cup tooOld' \/ OnTheWay(e)'
                    /\ \A h \in Headers : \/ storage'[h].id \in got' \cup tooOld' \cup {0}
                                          \/ OnTheWay(storage[h])' \/ h \in asked' \cup merged'
  BY Zenon DEF EventsReachListener
<1>1. ASSUME NEW e \in queue' PROVE e.id \in got' \cup tooOld' \/ OnTheWay(e)'
  BY <1>1, Zenon DEF EventsReachListener
<1>2. ASSUME NEW h \in Headers
      PROVE  \/ storage'[h].id \in got' \cup tooOld' \cup {0}
             \/ OnTheWay(storage[h])' \/ h \in asked' \cup merged'
  BY <1>2, Zenon DEF EventsReachListener
<1> QED  BY <1>1, <1>2, Zenon

\* The server starts with no event and no listener.
LEMMA EventStart == EventInit => EventInv
<1> SUFFICES ASSUME EventInit PROVE EventInv
  BY Zenon
<1>1. NoEvent \in Event
  BY DEF NoEvent, Event
<1>2. EventTypeOK
  <2>1. turn \in {"listeners", "events"} /\ req \in {"none", "slept", "done"}
        /\ toListen \in BOOLEAN /\ listening \in BOOLEAN /\ mid \in BOOLEAN /\ up \in BOOLEAN
    BY Zenon DEF EventInit
  <2>2. posted \in Seq(Event) /\ chan \in Seq(Message) /\ clock \in Nat /\ count \in Nat
    BY DEF EventInit
  <2>3. storage \in [Headers -> Event] /\ queue \subseteq Event /\ writer \in [Writers -> Event]
    BY <1>1, Zenon DEF EventInit
  <2> QED  BY <2>1, <2>2, <2>3, Zenon DEF EventTypeOK
<1>3. \A e : Known(e) => e = NoEvent
  BY DEF EventInit, Known
<1>4. Numbered
  BY <1>3 DEF Numbered, NoEvent, EventInit
<1>5. HeadersKept
  BY DEF HeadersKept, EventInit, NoEvent
<1>6. Registered /\ EventsReachListener
  BY DEF Registered, EventInit, EventsReachListener
<1> QED  BY <1>2, <1>4, <1>5, <1>6, Zenon DEF EventInv

\* The clock, the turn of the listeners, the dispatch and a new connection.
LEMMA QuietKeeps ==
  ASSUME EventInv, Second \/ TakeListeners \/ ConnectAgain \/ \E h \in Headers : Dispatch(h)
  PROVE  EventInv'
<1> USE DEF EventInv
<1>0. clock' \in Nat
  BY DEF Second, TakeListeners, ConnectAgain, Dispatch, EventTypeOK
<1>1. /\ UNCHANGED <<count, serverVars, req, chan, asked, got, tooOld, merged, mid>>
      /\ turn' \in {"listeners", "events"}
      /\ toListen' \in BOOLEAN /\ listening' \in BOOLEAN /\ up' \in BOOLEAN
  BY Zenon DEF Second, TakeListeners, ConnectAgain, Dispatch, serverVars, clientVars, EventTypeOK
<1>2. EventTypeOK'
  BY <1>0, <1>1, Zenon DEF EventTypeOK, serverVars
<1>3. Numbered'
  <2>1. \A e : Known(e)' => Known(e)
    BY <1>1, Zenon DEF Known, serverVars
  <2> QED  BY <1>1, <2>1, NumberedKept, Zenon
<1>4. HeadersKept'
  BY <1>1, Zenon DEF HeadersKept, serverVars
<1>5. Registered' /\ (up' /\ req' = "done" => up /\ req = "done")
  BY DEF Second, TakeListeners, ConnectAgain, Dispatch, Registered, EventTypeOK, clientVars
<1>6. \A e : OnTheWay(e) => OnTheWay(e)'
  BY <1>1, Zenon DEF OnTheWay, serverVars
<1>7. EventsReachListener'
  BY <1>1, <1>5, <1>6, ReachKept, Zenon DEF serverVars
<1> QED  BY <1>2, <1>3, <1>4, <1>5, <1>7, Zenon

\* The requests that change nothing of the events, the sweep and a lost connection.
LEMMA LetGoKeeps ==
  ASSUME EventInv, Reset \/ Listen \/ Lose
  PROVE  EventInv'
<1> USE DEF EventInv
<1>1. /\ UNCHANGED <<count, storage, writer, posted, got, tooOld, clock>>
      /\ (chan' = chan \/ chan' = <<>>)
      /\ (up' /\ req' = "done" => /\ up /\ req = "done"
                                  /\ UNCHANGED <<chan, asked, merged>>)
      /\ req' \in {"none", "slept", "done"}
      /\ turn' \in {"listeners", "events"}
      /\ toListen' \in BOOLEAN /\ listening' \in BOOLEAN /\ up' \in BOOLEAN
  <2>1. CASE Reset
    BY <2>1, Zenon DEF Reset, serverVars, clientVars, EventTypeOK
  <2>2. CASE Listen
    BY <2>2, Zenon DEF Listen, serverVars, clientVars, EventTypeOK
  <2>3. CASE Lose
    BY <2>3, Zenon DEF Lose, serverVars, clientVars, EventTypeOK
  <2> QED  BY <2>1, <2>2, <2>3, Zenon
<1>9. mid' \in BOOLEAN
  BY DEF Reset, Listen, Lose, serverVars, clientVars, EventTypeOK
<1>0. queue' \subseteq queue
  BY Zenon DEF Reset, Listen, Lose, serverVars
<1>2. EventTypeOK'
  <2>1. chan' \in Seq(Message)
    <3>1. chan \in Seq(Message) /\ <<>> \in Seq(Message)
      BY DEF EventTypeOK
    <3> QED  BY <1>1, <3>1, Zenon
  <2> QED  BY <1>0, <1>1, <1>9, <2>1, Zenon DEF EventTypeOK
<1>3. Numbered'
  <2>1. \A e : Known(e)' => Known(e)
    BY <1>0, <1>1 DEF Known
  <2> QED  BY <1>1, <2>1, NumberedKept, Zenon
<1>4. HeadersKept'
  BY <1>0, <1>1 DEF HeadersKept
<1>5. Registered'
  BY DEF Reset, Listen, Lose, Registered, EventTypeOK, clientVars
<1>7. EventsReachListener'
  BY <1>0, <1>1, Zenon DEF EventsReachListener, OnTheWay
<1> QED  BY <1>2, <1>3, <1>4, <1>5, <1>7, Zenon

\* What is known is an event.
LEMMA KnownTyped == EventTypeOK => \A a : Known(a) => a \in Event
<1> SUFFICES ASSUME EventTypeOK PROVE \A a : Known(a) => a \in Event
  BY Zenon
<1>1. (\A i \in DOMAIN posted : posted[i] \in Event) /\ (\A i \in DOMAIN chan : chan[i] \in Message)
  BY DEF EventTypeOK
<1>2. \A i \in DOMAIN chan : chan[i].ev \in Event
  BY <1>1, Zenon DEF Message
<1>3. NoEvent \in Event
  BY DEF NoEvent, Event
<1> QED  BY <1>1, <1>2, <1>3, Zenon DEF Known, EventTypeOK

\* EDatabaseManager::insert: the new event has a number of its own and is with its writer.
LEMMA InsertKeeps ==
  ASSUME EventInv, NEW w \in Writers, NEW h \in Headers \cup {NoHeader}, Insert(w, h)
  PROVE  EventInv'
<1> USE DEF EventInv
<1>0. PICK e : e = [id |-> count + 1, at |-> clock, hdr |-> h]
  OBVIOUS
<1>1. /\ UNCHANGED <<clock, posted, turn, toListen, listening, mid, tooOld, clientVars>>
      /\ writer' = [writer EXCEPT ![w] = e] /\ count' = count + 1
      /\ IF h \in Headers THEN storage' = [storage EXCEPT ![h] = e] /\ queue' = queue
         ELSE queue' = queue \cup {e} /\ storage' = storage
  BY <1>0, Zenon DEF Insert
<1>2. e \in Event /\ e.id = count + 1 /\ e.hdr = h /\ count' \in Nat
  BY <1>0, <1>1 DEF EventTypeOK, Event
<1>3. EventTypeOK'
  <2>1. writer' \in [Writers -> Event] /\ storage' \in [Headers -> Event] /\ queue' \subseteq Event
    BY <1>1, <1>2, Zenon DEF EventTypeOK
  <2> QED  BY <1>1, <1>2, <2>1, Zenon DEF EventTypeOK, clientVars
<1>4. \A a : Known(a)' => Known(a) \/ a = e
  <2> SUFFICES ASSUME NEW a, Known(a)', ~Known(a) PROVE a = e
    BY Zenon
  <2>1. a # NoEvent /\ a \notin queue /\ (\A j \in Headers : storage[j] # a)
        /\ (\A u \in Writers : writer[u] # a) /\ (\A i \in DOMAIN posted : posted[i] # a)
        /\ (\A i \in DOMAIN chan : chan[i].ev # a)
    BY Zenon DEF Known
  <2>2. CASE a \in queue'
    BY <2>1, <2>2, <1>1, Zenon
  <2>3. CASE \E j \in Headers : storage'[j] = a
    BY <2>1, <2>3, <1>1, Zenon DEF EventTypeOK
  <2>4. CASE \E u \in Writers : writer'[u] = a
    BY <2>1, <2>4, <1>1, Zenon DEF EventTypeOK
  <2> QED  BY <2>1, <2>2, <2>3, <2>4, <1>1, Zenon DEF Known, clientVars
<1>5. \A a : Known(a) => a.id \in Nat
  BY KnownTyped DEF Event
<1>6. Numbered'
  <2>1. \A a : Known(a)' => a.id <= count + 1
    BY <1>2, <1>4, <1>5 DEF Numbered, EventTypeOK
  <2>2. \A a : Known(a) => a.id # count + 1
    BY <1>5 DEF Numbered, EventTypeOK
  <2>3. ASSUME NEW a, NEW b, Known(a)', Known(b)', a.id = b.id PROVE a = b
    BY <2>2, <2>3, <1>2, <1>4, Zenon DEF Numbered
  <2> QED  BY <2>1, <2>3, <1>1, Zenon DEF Numbered
<1>7. HeadersKept'
  <2>0. e.id # 0
    BY <1>2 DEF EventTypeOK
  <2>1. \A q \in queue' : q.hdr \notin Headers /\ q.id # 0
    BY <2>0, <1>1, <1>2, Zenon DEF HeadersKept
  <2>2. \A j \in Headers : storage'[j].id # 0 => storage'[j].hdr = j
    <3> SUFFICES ASSUME NEW j \in Headers PROVE storage'[j].id # 0 => storage'[j].hdr = j
      BY Zenon
    <3>1. (j = h /\ storage'[j] = e) \/ storage'[j] = storage[j]
      BY <1>1, Zenon DEF EventTypeOK
    <3> QED  BY <3>1, <1>2, Zenon DEF HeadersKept
  <2> QED  BY <2>1, <2>2, <1>1, Zenon DEF HeadersKept, clientVars
<1>8. Registered'
  BY <1>1, Zenon DEF Registered, clientVars
<1>9. EventsReachListener'
  <2> SUFFICES ASSUME up', req' = "done"
               PROVE  /\ \A q \in queue' : q.id \in got' \cup tooOld' \/ OnTheWay(q)'
                      /\ \A j \in Headers : \/ storage'[j].id \in got' \cup tooOld' \cup {0}
                                            \/ OnTheWay(storage[j])' \/ j \in asked' \cup merged'
    BY Zenon DEF EventsReachListener
  <2>1. OnTheWay(e)'
    BY <1>1, Zenon DEF OnTheWay, EventTypeOK
  <2>2. \A a : a.id # 0 /\ OnTheWay(a) => OnTheWay(a)'
    <3> SUFFICES ASSUME NEW a, a.id # 0, OnTheWay(a) PROVE OnTheWay(a)'
      BY Zenon
    <3>1. ASSUME NEW u \in Writers, writer[u] = a PROVE writer'[u] = a
      <4>1. u # w
        BY <3>1, Zenon DEF Insert
      <4> QED  BY <4>1, <3>1, <1>1, Zenon DEF EventTypeOK
    <3> QED  BY <3>1, <1>1, Zenon DEF OnTheWay, clientVars
  <2>3. ASSUME NEW q \in queue' PROVE q.id \in got' \cup tooOld' \/ OnTheWay(q)'
    <3>1. q = e \/ (q \in queue /\ q.id # 0)
      BY <1>1, Zenon DEF HeadersKept
    <3> QED  BY <3>1, <2>1, <2>2, <1>1, Zenon DEF EventsReachListener, clientVars
  <2>4. ASSUME NEW j \in Headers, storage'[j].id # 0
        PROVE  \/ storage'[j].id \in got' \cup tooOld' \/ OnTheWay(storage[j])' \/ j \in asked' \cup merged'
    <3>1. storage'[j] = e \/ storage'[j] = storage[j]
      BY <1>1, Zenon DEF EventTypeOK
    <3> QED  BY <3>1, <2>1, <2>2, <2>4, <1>1, Zenon DEF EventsReachListener, clientVars
  <2> QED  BY <2>3, <2>4, Zenon
<1> QED  BY <1>3, <1>6, <1>7, <1>8, <1>9, Zenon

\* responser::add_event: the event goes from its writer to the queue of the epoll thread.
LEMMA AnnounceKeeps ==
  ASSUME EventInv, NEW w \in Writers, Announce(w)
  PROVE  EventInv'
<1> USE DEF EventInv
<1>1. /\ UNCHANGED <<clock, count, storage, queue, turn, toListen, listening, mid, tooOld, clientVars>>
      /\ posted' = Append(posted, writer[w]) /\ writer' = [writer EXCEPT ![w] = NoEvent]
  BY Zenon DEF Announce
<1>2. writer[w] \in Event /\ posted \in Seq(Event)
  BY Zenon DEF EventTypeOK
<1>3. /\ posted' \in Seq(Event)
      /\ \A i \in DOMAIN posted' : posted'[i] = writer[w] \/ (i \in DOMAIN posted /\ posted'[i] = posted[i])
      /\ \A i \in DOMAIN posted : i \in DOMAIN posted' /\ posted'[i] = posted[i]
      /\ \E i \in DOMAIN posted' : posted'[i] = writer[w]
  BY ONLY <1>1, <1>2, AppendElements, SMT
<1>4. NoEvent \in Event
  BY DEF NoEvent, Event
<1>5. EventTypeOK'
  BY <1>1, <1>3, <1>4, Zenon DEF EventTypeOK, clientVars
<1>6. Numbered'
  <2>1. ASSUME NEW e, Known(e)' PROVE Known(e)
    <3>1. ASSUME NEW u \in Writers, writer'[u] = e PROVE Known(e)
      BY <3>1, <1>1, Zenon DEF EventTypeOK, Known
    <3>2. ASSUME NEW i \in DOMAIN posted', posted'[i] = e PROVE Known(e)
      BY <3>2, <1>3, Zenon DEF Known
    <3> QED  BY <2>1, <3>1, <3>2, <1>1, Zenon DEF Known, clientVars
  <2> QED  BY <1>1, <2>1, NumberedKept, Zenon
<1>7. HeadersKept' /\ Registered'
  BY <1>1, Zenon DEF HeadersKept, Registered, clientVars
<1>8. \A e : OnTheWay(e) => OnTheWay(e)'
  <2> SUFFICES ASSUME NEW e, OnTheWay(e) PROVE OnTheWay(e)'
    BY Zenon
  <2>1. ASSUME NEW u \in Writers, writer[u] = e, u # w PROVE writer'[u] = e
    BY <2>1, <1>1, Zenon DEF EventTypeOK
  <2> QED  BY <2>1, <1>1, <1>3, Zenon DEF OnTheWay, clientVars
<1>9. EventsReachListener'
  BY <1>1, <1>8, ReachKept, Zenon DEF clientVars
<1> QED  BY <1>5, <1>6, <1>7, <1>9, Zenon

\* retrieve: the value that is stored now goes to the listener.
LEMMA AnswerKeeps ==
  ASSUME EventInv, NEW h \in Headers, Answer(h)
  PROVE  EventInv'
<1> USE DEF EventInv
<1>0. PICK m : m = [what |-> "value", ev |-> storage[h]]
  OBVIOUS
<1>1. /\ UNCHANGED <<clock, count, serverVars, turn, toListen, listening, mid, tooOld, up, req, items, got, merged>>
      /\ chan' = Append(chan, m) /\ asked' = asked \ {h}
  BY <1>0, Zenon DEF Answer
<1>2. m \in Message /\ chan \in Seq(Message) /\ m.what = "value" /\ m.ev = storage[h]
  BY <1>0 DEF EventTypeOK, Message
<1>3. /\ chan' \in Seq(Message)
      /\ \A i \in DOMAIN chan' : chan'[i] = m \/ (i \in DOMAIN chan /\ chan'[i] = chan[i])
      /\ \A i \in DOMAIN chan : i \in DOMAIN chan' /\ chan'[i] = chan[i]
      /\ \E i \in DOMAIN chan' : chan'[i] = m
  BY ONLY <1>1, <1>2, AppendElements, SMT
<1>5. EventTypeOK'
  BY <1>1, <1>3, Zenon DEF EventTypeOK, serverVars
<1>6. Numbered'
  <2>1. ASSUME NEW e, Known(e)' PROVE Known(e)
    BY <2>1, <1>1, <1>2, <1>3, Zenon DEF Known, serverVars
  <2> QED  BY <1>1, <2>1, NumberedKept, Zenon
<1>7. HeadersKept' /\ Registered'
  BY <1>1, <1>2, <1>3, Zenon DEF HeadersKept, Registered, serverVars
<1>8. \A e : OnTheWay(e) => OnTheWay(e)'
  BY <1>1, <1>3, Zenon DEF OnTheWay, serverVars
<1>9. OnTheWay(storage[h])'
  BY <1>1, <1>2, <1>3, Zenon DEF OnTheWay, serverVars
<1>10. EventsReachListener'
  BY <1>1, <1>8, <1>9, ReachKept, Zenon DEF serverVars
<1> QED  BY <1>5, <1>6, <1>7, <1>10, Zenon

\* fetchEvents: every event that is stored is answered with, or is too old for it.
LEMMA FetchKeeps ==
  ASSUME EventInv, Fetch
  PROVE  EventInv'
<1> USE DEF EventInv
<1>0. PICK E : E = {e \in Stored : Recent(e)}
  OBVIOUS
<1>1. /\ UNCHANGED <<clock, count, serverVars, turn, toListen, listening, mid, up, asked, items, got, merged>>
      /\ up /\ req = "slept" /\ ~mid /\ req' = "done"
      /\ chan' = chan \o ValuesOf(E) /\ tooOld' = 1 .. count \ {e.id : e \in E}
  BY <1>0, Zenon DEF Fetch
<1>2. \A e \in E : e \in Event /\ Known(e)
  <2>1. \A e \in E : Known(e)
    BY <1>0, Zenon DEF Stored, Known
  <2> QED  BY <2>1, KnownTyped, Zenon
<1>3. IsFiniteSet(E)
  <2>1. \A a \in E : a.id <= count
    BY <1>2, Zenon DEF Numbered
  <2>2. \A a, b \in E : a.id = b.id => a = b
    BY <1>2, Zenon DEF Numbered
  <2>3. E \subseteq Event /\ count \in Nat
    BY <1>2, Zenon DEF EventTypeOK
  <2> QED  BY <2>1, <2>2, <2>3, FewEvents, Zenon
<1>4. PICK v : v = ValuesOf(E)
  OBVIOUS
<1>5. /\ v \in Seq(Message)
      /\ \A i \in DOMAIN v : v[i].what = "value" /\ v[i].ev \in E
      /\ \A e \in E : \E i \in DOMAIN v : v[i].ev = e
  <2>1. E \subseteq Event
    BY <1>2, Zenon
  <2> QED  BY <2>1, <1>3, <1>4, ValuesListed, Zenon
<1>6. /\ chan' \in Seq(Message)
      /\ \A i \in DOMAIN chan' : (i \in DOMAIN chan /\ chan'[i] = chan[i]) \/ \E j \in DOMAIN v : chan'[i] = v[j]
      /\ \A j \in DOMAIN v : \E i \in DOMAIN chan' : chan'[i] = v[j]
  <2>1. chan' = chan \o v /\ chan \in Seq(Message)
    BY <1>1, <1>4, Zenon DEF EventTypeOK
  <2>2. chan' \in Seq(Message) /\ Joins(chan', chan, v)
    BY <2>1, <1>5, ConcatElements
  <2> QED  BY <2>2, Zenon DEF Joins
<1>7. EventTypeOK'
  BY <1>1, <1>6, Zenon DEF EventTypeOK, serverVars
<1>8. Numbered'
  <2>1. ASSUME NEW e, Known(e)' PROVE Known(e)
    <3>1. ASSUME NEW i \in DOMAIN chan', chan'[i].ev = e PROVE Known(e)
      BY <3>1, <1>2, <1>5, <1>6, Zenon DEF Known
    <3> QED  BY <2>1, <3>1, <1>1, Zenon DEF Known, serverVars
  <2> QED  BY <1>1, <2>1, NumberedKept, Zenon
<1>9. HeadersKept'
  BY <1>1, <1>5, <1>6, Zenon DEF HeadersKept, serverVars
<1>10. Registered'
  BY <1>1, Zenon DEF Registered
<1>11. ASSUME NEW a, a \in Stored, a.id # 0 PROVE a.id \in tooOld' \/ OnTheWay(a)'
  <2>1. Known(a)
    BY <1>11, Zenon DEF Stored, Known
  <2>2. a.id \in Nat /\ a.id <= count
    <3>1. a \in Event
      BY <2>1, KnownTyped, Zenon
    <3> QED  BY <2>1, <3>1 DEF Numbered, Event
  <2>3. CASE a.id \notin {e.id : e \in E}
    BY <2>2, <2>3, <1>1, <1>11 DEF EventTypeOK
  <2>4. CASE a.id \in {e.id : e \in E}
    <3>1. PICK e \in E : e.id = a.id
      BY <2>4, Zenon
    <3>2. PICK j \in DOMAIN v : v[j].ev = e
      BY <1>5, Zenon
    <3>3. PICK i \in DOMAIN chan' : chan'[i] = v[j]
      BY <1>6, Zenon
    <3> QED  BY <3>1, <3>2, <3>3, Zenon DEF OnTheWay
  <2> QED  BY <2>3, <2>4, Zenon
<1>12. EventsReachListener'
  <2>1. ASSUME NEW e \in queue' PROVE e.id \in tooOld' \/ OnTheWay(e)'
    BY <2>1, <1>1, <1>11, Zenon DEF HeadersKept, Stored, serverVars
  <2>2. ASSUME NEW h \in Headers PROVE storage'[h].id \in tooOld' \cup {0} \/ OnTheWay(storage[h])'
    <3>1. storage'[h] = storage[h]
      BY <1>1, Zenon DEF serverVars
    <3>2. storage[h].id # 0 => storage[h] \in Stored
      BY Zenon DEF Stored
    <3> QED  BY <3>1, <3>2, <1>11, Zenon
  <2> QED  BY <2>1, <2>2, Zenon DEF EventsReachListener
<1> QED  BY <1>7, <1>8, <1>9, <1>10, <1>12, Zenon

\* The epoll thread hands over what is posted; a listener with a request is there to take it.
LEMMA TakeEventsKeeps ==
  ASSUME EventInv, TakeEvents
  PROVE  EventInv'
<1> USE DEF EventInv
<1>1. /\ UNCHANGED <<clock, count, storage, queue, writer, toListen, listening, tooOld, up, req, asked, items, got, merged>>
      /\ turn = "events" /\ turn' = "listeners" /\ mid' = FALSE /\ posted' = <<>>
  BY Zenon DEF TakeEvents
<1>2. PICK v : v = [i \in DOMAIN posted |-> Announcement(posted[i])]
  OBVIOUS
<1>3. chan' = IF listening THEN chan \o v ELSE chan
  BY <1>2, Zenon DEF TakeEvents
<1>4. \A i \in DOMAIN posted : posted[i] \in Event
  BY DEF EventTypeOK
<1>5. \A e \in Event : /\ Announcement(e) \in Message /\ Announcement(e).ev = e
                       /\ Announcement(e).what = "header" => e.hdr \in Headers
  BY DEF Announcement, Message
<1>6. DOMAIN v = DOMAIN posted /\ \A i \in DOMAIN posted : v[i] = Announcement(posted[i])
  BY <1>2, Zenon
<1>7. v \in Seq(Message) /\ posted' \in Seq(Event)
  <2>1. \A i \in DOMAIN posted : v[i] \in Message
    BY <1>4, <1>5, <1>6, Zenon
  <2>2. v = [i \in 1 .. Len(posted) |-> v[i]] /\ Len(posted) \in Nat /\ DOMAIN posted = 1 .. Len(posted)
    BY <1>2 DEF EventTypeOK
  <2> QED  BY <2>1, <2>2, <1>1
<1>8. /\ chan' \in Seq(Message)
      /\ \A i \in DOMAIN chan' : (i \in DOMAIN chan /\ chan'[i] = chan[i]) \/ \E j \in DOMAIN v : chan'[i] = v[j]
      /\ \A i \in DOMAIN chan : i \in DOMAIN chan' /\ chan'[i] = chan[i]
      /\ listening => \A j \in DOMAIN v : \E i \in DOMAIN chan' : chan'[i] = v[j]
  <2>1. chan \in Seq(Message)
    BY Zenon DEF EventTypeOK
  <2>2. CASE listening
    <3>1. chan' = chan \o v
      BY <2>2, <1>3, Zenon
    <3>2. chan' \in Seq(Message) /\ Joins(chan', chan, v)
      BY <3>1, <2>1, <1>7, ConcatElements
    <3> QED  BY <3>2, Zenon DEF Joins
  <2>3. CASE ~listening
    BY <2>1, <2>3, <1>3, Zenon
  <2> QED  BY <2>2, <2>3, Zenon
<1>9. EventTypeOK'
  BY <1>1, <1>7, <1>8, Zenon DEF EventTypeOK
<1>10. Numbered'
  <2>1. ASSUME NEW e, Known(e)' PROVE Known(e)
    <3>1. ASSUME NEW i \in DOMAIN chan', chan'[i].ev = e PROVE Known(e)
      <4>1. CASE i \in DOMAIN chan /\ chan'[i] = chan[i]
        BY <4>1, <3>1, Zenon DEF Known
      <4>2. ASSUME NEW j \in DOMAIN v, chan'[i] = v[j] PROVE Known(e)
        <5>1. v[j].ev = posted[j]
          BY <1>4, <1>5, <1>6, Zenon
        <5> QED  BY <5>1, <4>2, <3>1, <1>6, Zenon DEF Known
      <4> QED  BY <4>1, <4>2, <1>8, Zenon
    <3>2. \A i \in DOMAIN posted' : FALSE
      BY <1>1
    <3> QED  BY <2>1, <3>1, <3>2, <1>1, Zenon DEF Known
  <2> QED  BY <1>1, <2>1, NumberedKept, Zenon
<1>11. HeadersKept'
  <2>1. ASSUME NEW i \in DOMAIN chan', chan'[i].what = "header" PROVE chan'[i].ev.hdr \in Headers
    <3>1. ASSUME NEW j \in DOMAIN v, chan'[i] = v[j] PROVE chan'[i].ev.hdr \in Headers
      <4>1. v[j] = Announcement(posted[j]) /\ posted[j] \in Event
        BY <1>4, <1>6, Zenon
      <4>2. v[j].ev = posted[j] /\ posted[j].hdr \in Headers
        BY <4>1, <3>1, <2>1, <1>5, Zenon
      <4> QED  BY <4>2, <3>1, Zenon
    <3> QED  BY <2>1, <3>1, <1>8, Zenon DEF HeadersKept
  <2> QED  BY <2>1, <1>1, Zenon DEF HeadersKept
<1>12. Registered'
  BY <1>1 DEF Registered, EventTypeOK
<1>13. EventsReachListener'
  <2>1. CASE ~(up /\ req = "done")
    BY <2>1, <1>1, Zenon DEF EventsReachListener
  <2>2. CASE up /\ req = "done"
    <3>1. listening
      BY <2>2, <1>1 DEF Registered
    <3>2. ASSUME NEW e, OnTheWay(e) PROVE OnTheWay(e)'
      <4>1. ASSUME NEW j \in DOMAIN posted, posted[j] = e PROVE OnTheWay(e)'
        <5>1. v[j].ev = e /\ j \in DOMAIN v
          BY <4>1, <1>4, <1>5, <1>6, Zenon
        <5>2. PICK i \in DOMAIN chan' : chan'[i] = v[j]
          BY <5>1, <3>1, <1>8, Zenon
        <5> QED  BY <5>1, <5>2, Zenon DEF OnTheWay
      <4> QED  BY <3>2, <4>1, <1>1, <1>8, Zenon DEF OnTheWay
    <3> QED  BY <3>2, <1>1, ReachKept, Zenon
  <2> QED  BY <2>1, <2>2, Zenon
<1> QED  BY <1>9, <1>10, <1>11, <1>12, <1>13, Zenon

\* The listener takes a message: it has the value then, or it asks for it, or knows that
\* the header is among those to be dispatched.
LEMMA ReceiveKeeps ==
  ASSUME EventInv, ReceiveEvent
  PROVE  EventInv'
<1> USE DEF EventInv
<1>0. PICK m : m = Head(chan)
  OBVIOUS
<1>1. /\ UNCHANGED <<clock, count, serverVars, turn, toListen, listening, mid, tooOld, up, req>>
      /\ chan # <<>> /\ chan' = Tail(chan)
      /\ IF m.what = "header" THEN Handle(m.ev.hdr) /\ got' = got
         ELSE got' = got \cup {m.ev.id} /\ UNCHANGED <<items, asked, merged>>
  BY <1>0, Zenon DEF ReceiveEvent
<1>2. chan \in Seq(Message)
  BY Zenon DEF EventTypeOK
<1>3. chan' \in Seq(Message) /\ m \in Message /\ 1 \in DOMAIN chan /\ chan[1] = m
  BY ONLY <1>0, <1>1, <1>2, TailElements, SMT
<1>4. \A i \in DOMAIN chan' : \E j \in DOMAIN chan : chan'[i] = chan[j]
  BY ONLY <1>1, <1>2, TailElements, SMT
<1>5. \A j \in DOMAIN chan : chan[j] = m \/ \E i \in DOMAIN chan' : chan'[i] = chan[j]
  <2>1. \A j \in DOMAIN chan : chan[j] = Head(chan) \/ \E i \in DOMAIN chan' : chan'[i] = chan[j]
    BY ONLY <1>1, <1>2, TailElements, SMT
  <2> QED  BY <2>1, <1>0, Zenon
<1>6. EventTypeOK'
  BY <1>1, <1>3, Zenon DEF EventTypeOK, serverVars
<1>7. Numbered'
  <2>1. ASSUME NEW e, Known(e)' PROVE Known(e)
    BY <2>1, <1>1, <1>4, Zenon DEF Known, serverVars
  <2> QED  BY <1>1, <2>1, NumberedKept, Zenon
<1>8. HeadersKept' /\ Registered'
  BY <1>1, <1>4, Zenon DEF HeadersKept, Registered, serverVars
<1>9. \A e : OnTheWay(e) => OnTheWay(e)' \/ e.id = m.ev.id
  BY <1>1, <1>5, Zenon DEF OnTheWay, serverVars
<1>10. Known(m.ev) /\ (m.what = "header" => m.ev.hdr \in Headers)
  BY <1>3, Zenon DEF Known, HeadersKept
<1>11. got \subseteq got' /\ (m.what # "header" => m.ev.id \in got')
  BY <1>1, Zenon
<1>12. ASSUME NEW e \in queue', OnTheWay(e) PROVE OnTheWay(e)' \/ e.id \in got'
  <2>1. e \in queue /\ Known(e)
    BY <1>1, Zenon DEF Known, serverVars
  <2>2. e.id = m.ev.id => e = m.ev
    BY <2>1, <1>10, Zenon DEF Numbered
  <2> QED  BY <2>1, <2>2, <1>9, <1>10, <1>11, <1>12, Zenon DEF HeadersKept
<1>13. ASSUME NEW h \in Headers, storage[h].id # 0, OnTheWay(storage[h])
       PROVE  OnTheWay(storage[h])' \/ storage[h].id \in got' \/ h \in asked' \cup merged'
  <2>1. storage' = storage /\ Known(storage[h])
    BY <1>1, Zenon DEF Known, serverVars
  <2>2. storage[h].id = m.ev.id => m.ev.hdr = h
    BY <2>1, <1>10, <1>13, Zenon DEF Numbered, HeadersKept
  <2>3. m.what = "header" /\ m.ev.hdr = h => h \in asked' \cup merged'
    BY <1>1, Zenon DEF Handle
  <2>4. OnTheWay(storage[h])' \/ storage[h].id = m.ev.id
    BY <1>9, <1>13, <2>1, Zenon
  <2> QED  BY <2>2, <2>3, <2>4, <1>11, Zenon
<1>14. \A h \in asked \cup merged : h \in asked' \cup merged'
  BY <1>1, Zenon DEF Handle
<1>15. EventsReachListener'
  BY <1>1, <1>11, <1>12, <1>13, <1>14, ReachKept, Zenon DEF serverVars
<1> QED  BY <1>6, <1>7, <1>8, <1>15, Zenon

\* An event that is kept reaches the listener that asked for events and stays connected,
\* whatever the headers, the writers and the times are.
THEOREM EventsDelivered == EventSpec => []EventsReachListener
<1>1. ASSUME EventInv, EventNext PROVE EventInv'
  BY <1>1, QuietKeeps, LetGoKeeps, InsertKeeps, AnnounceKeeps, AnswerKeeps, FetchKeeps,
     TakeEventsKeeps, ReceiveKeeps, Zenon DEF EventNext
<1>2. ASSUME EventInv, UNCHANGED eventVars PROVE EventInv'
  <2>1. EventTypeOK' /\ HeadersKept' /\ Registered'
    BY <1>2, Zenon DEF EventInv, eventVars, serverVars, clientVars, EventTypeOK, HeadersKept, Registered
  <2>2. \A e : (Known(e)' => Known(e)) /\ (OnTheWay(e) => OnTheWay(e)')
    BY <1>2, Zenon DEF eventVars, serverVars, clientVars, Known, OnTheWay
  <2>3. Numbered'
    BY <1>2, <2>2, NumberedKept, Zenon DEF EventInv, eventVars
  <2>4. EventsReachListener'
    BY <1>2, <2>2, ReachKept, Zenon DEF EventInv, eventVars, serverVars, clientVars
  <2> QED  BY <2>1, <2>3, <2>4, Zenon DEF EventInv
<1>3. EventInv => EventsReachListener
  BY Zenon DEF EventInv
<1> QED  BY <1>1, <1>2, <1>3, EventStart, PTL DEF EventSpec
==============================================================================
