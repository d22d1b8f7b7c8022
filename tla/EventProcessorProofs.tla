------------------------- MODULE EventProcessorProofs -------------------------
(***************************************************************************)
(* What holds of EventProcessor and its UserCache for every log, whatever  *)
(* the sizes of its events, and every limit of the buffers and the cache.  *)
(***************************************************************************)
EXTENDS EventProcessor, TLAPS, FiniteSetTheorems, SequenceTheorems

-----------------------------------------------------------------------------
(* The inductive invariant                                                 *)

(* The map and the list of the cache describe the same entries.            *)
MapInv ==
  /\ IsFiniteSet(Cached) /\ Cardinality(Cached) = Len(lru)
  /\ \A i \in 1 .. Len(lru) : lru[i].sid \in Cached /\ cache[lru[i].sid] = lru[i].node

(* The list is the beginning of the history, cut off behind the limit.     *)
RecentInv ==
  /\ \A i, j \in 1 .. Len(recency) : recency[i] = recency[j] => i = j
  /\ Len(lru) <= Len(recency)
  /\ \A i \in 1 .. Len(lru) : lru[i].sid = recency[i]
  /\ MaxCacheSize > 0 => Len(lru) <= MaxCacheSize + 1
  /\ Len(lru) < Len(recency) => MaxCacheSize > 0 /\ Len(lru) = MaxCacheSize + 1

(* An allocation that failed ends the program.                             *)
CacheInv ==
  /\ NoDanglingIterator
  /\ pc # "terminated" => failures = 0 /\ MapInv /\ RecentInv
  /\ pc = "terminated" => failures > 0

(* What of the event was rendered, part by part.                           *)
SystemIsOwn ==
  /\ event.values <= ValuesLimit
  /\ data.system = event.values
  /\ valuesBuf.holds = event /\ valuesBuf.size >= event.values

DataInv ==
  /\ pc \in {"system", "account", "xml", "format"} => event \in Events
  /\ pc = "system" => data = NoData /\ faults = {}
  /\ pc = "account" => SystemIsOwn /\ data.user = NULL /\ data.xml = 0 /\ faults = {}
  /\ pc = "xml" =>
       /\ SystemIsOwn /\ data.xml = 0 /\ "xml" \notin faults
       /\ data.user = (IF "account" \in faults THEN NULL ELSE event.sid)
       /\ data.user # NULL => account = data.user
  /\ pc = "format" =>
       \/ data = NoData /\ event.values > ValuesLimit
       \/ /\ SystemIsOwn
          /\ data.xml = (IF event.xml <= XmlLimit /\ "xml" \notin faults THEN event.xml ELSE 0)
          /\ data.xml > 0 => xmlBuf.holds = event /\ xmlBuf.size >= data.xml
          /\ data.user = (IF "account" \in faults THEN NULL ELSE event.sid)
          /\ data.user # NULL => account = data.user

ProcessorInv == TypeOK /\ CacheInv /\ DataInv
-----------------------------------------------------------------------------
(* Sequences that are used as lists                                        *)

LEMMA Prepended ==
  ASSUME NEW S, NEW q \in Seq(S), NEW e \in S
  PROVE  LET r == <<e>> \o q
         IN  /\ r \in Seq(S) /\ Len(r) = Len(q) + 1
             /\ \A k \in 1 .. Len(r) : r[k] = IF k = 1 THEN e ELSE q[k - 1]
<1>1. <<e>> \in Seq(S) /\ Len(<<e>>) = 1 /\ <<e>>[1] = e
  OBVIOUS
<1>2. <<e>> \o q \in Seq(S) /\ Len(<<e>> \o q) = Len(q) + 1
  BY <1>1, ConcatProperties
<1>3. ASSUME NEW k \in 1 .. (Len(q) + 1)
      PROVE  (<<e>> \o q)[k] = IF k = 1 THEN e ELSE q[k - 1]
  BY <1>1, ConcatProperties
<1>4. QED
  BY <1>2, <1>3

LEMMA FrontOf ==
  ASSUME NEW S, NEW q \in Seq(S), Len(q) > 0
  PROVE  /\ Front(q) \in Seq(S) /\ Len(Front(q)) = Len(q) - 1
         /\ \A k \in 1 .. (Len(q) - 1) : Front(q)[k] = q[k]
<1>1. Len(q) \in Nat /\ Len(q) - 1 \in 0 .. Len(q)
  OBVIOUS
<1>2. SubSeq(q, 1, Len(q) - 1) \in Seq(S)
  BY <1>1
<1>3. Len(SubSeq(q, 1, Len(q) - 1)) = Len(q) - 1
  <2> DEFINE n == Len(q) - 1
  <2>1. n \in Int /\ \A i \in 1 .. n : q[i] \in S
    BY <1>1
  <2> HIDE DEF n
  <2>2. Len(SubSeq(q, 1, n)) = IF 1 <= n THEN n - 1 + 1 ELSE 0
    BY <2>1, SubSeqProperties
  <2>3. n \in Nat
    BY <1>1 DEF n
  <2>4. Len(SubSeq(q, 1, n)) = n
    BY <2>2, <2>3
  <2>5. QED
    BY <2>4 DEF n
<1>4. \A k \in 1 .. (Len(q) - 1) : SubSeq(q, 1, Len(q) - 1)[k] = q[k]
  BY <1>1
<1>5. QED
  BY <1>2, <1>3, <1>4 DEF Front

(***************************************************************************)
(* An entry is moved to the front: the ones before it move up.             *)
(***************************************************************************)
LEMMA FrontMoved ==
  ASSUME NEW S, NEW q \in Seq(S), NEW i \in 1 .. Len(q)
  PROVE  LET r == <<q[i]>> \o RemoveAt(q, i)
         IN  /\ r \in Seq(S) /\ Len(r) = Len(q)
             /\ \A k \in 1 .. Len(q) :
                  r[k] = IF k = 1 THEN q[i] ELSE IF k <= i THEN q[k - 1] ELSE q[k]
<1> DEFINE a == SubSeq(q, 1, i - 1)
           b == SubSeq(q, i + 1, Len(q))
           d == RemoveAt(q, i)
<1>1. Len(q) \in Nat /\ i \in Nat /\ i >= 1 /\ i <= Len(q) /\ q[i] \in S
  OBVIOUS
<1>2. a \in Seq(S) /\ Len(a) = i - 1 /\ \A k \in 1 .. (i - 1) : a[k] = q[k]
  BY <1>1
<1>3. b \in Seq(S) /\ Len(b) = Len(q) - i /\ \A k \in 1 .. (Len(q) - i) : b[k] = q[k + i]
  BY <1>1
<1>4. d = a \o b
  BY DEF RemoveAt
<1> HIDE DEF a, b, d
<1>5. d \in Seq(S) /\ Len(d) = Len(q) - 1
  <2>1. a \o b \in Seq(S) /\ Len(a \o b) = Len(a) + Len(b)
    BY <1>2, <1>3, ConcatProperties
  <2>2. (i - 1) + (Len(q) - i) = Len(q) - 1
    BY <1>1
  <2>3. QED
    BY <1>2, <1>3, <1>4, <2>1, <2>2
<1>6. ASSUME NEW k \in 1 .. (Len(q) - 1)
      PROVE  d[k] = IF k <= i - 1 THEN q[k] ELSE q[k + 1]
  <2>1. d[k] = IF k <= Len(a) THEN a[k] ELSE b[k - Len(a)]
    BY <1>1, <1>2, <1>3, <1>4, <1>5, ConcatProperties
  <2>2. CASE k <= i - 1
    BY <1>1, <1>2, <2>1, <2>2
  <2>3. CASE k > i - 1
    <3>1. k - (i - 1) \in 1 .. (Len(q) - i) /\ (k - (i - 1)) + i = k + 1
      BY <1>1, <2>3
    <3>2. d[k] = b[k - (i - 1)]
      BY <1>1, <1>2, <2>1, <2>3
    <3>3. QED
      BY <1>1, <1>3, <2>3, <3>1, <3>2
  <2>4. QED
    BY <1>1, <2>2, <2>3
<1>7. LET r == <<q[i]>> \o d
      IN  /\ r \in Seq(S) /\ Len(r) = Len(d) + 1
          /\ \A k \in 1 .. Len(r) : r[k] = IF k = 1 THEN q[i] ELSE d[k - 1]
  BY <1>1, <1>5, Prepended
<1>8. ASSUME NEW k \in 1 .. Len(q)
      PROVE  (<<q[i]>> \o d)[k] = IF k = 1 THEN q[i] ELSE IF k <= i THEN q[k - 1] ELSE q[k]
  <2>1. CASE k = 1
    BY <1>1, <1>5, <1>7, <2>1
  <2>2. CASE k # 1
    <3>1. k - 1 \in 1 .. (Len(q) - 1) /\ (k - 1) + 1 = k /\ (k - 1 <= i - 1 <=> k <= i)
          /\ k \in 1 .. (Len(d) + 1)
      BY <1>1, <1>5, <2>2
    <3>2. (<<q[i]>> \o d)[k] = d[k - 1]
      BY <1>7, <2>2, <3>1
    <3>3. QED
      BY <1>6, <2>2, <3>1, <3>2
  <2>3. QED
    BY <2>1, <2>2
<1>9. QED
  BY <1>1, <1>5, <1>7, <1>8 DEF d
-----------------------------------------------------------------------------
(* The rendering buffers                                                   *)

(***************************************************************************)
(* Whatever is left in a buffer, an event fits after the buffer was grown  *)
(* unless it is larger than the limit.                                     *)
(***************************************************************************)
LEMMA Preparing ==
  ASSUME NEW limit \in Nat, NEW b \in Buffers(limit), NEW n \in Nat
  PROVE  /\ Prepared(b, n, limit) \in Buffers(limit)
         /\ Overflows(b, n, limit) <=> n > limit
         /\ n <= limit => Prepared(b, n, limit).size >= n
<1>1. b.size \in 0 .. limit /\ b.size \in Nat
  BY DEF Buffers
<1>2. CASE b.size >= n
  BY <1>1, <1>2 DEF Prepared, Overflows, Fits
<1>3. CASE ~(b.size >= n) /\ n > limit
  BY <1>1, <1>3 DEF Prepared, Overflows, Fits, Resize
<1>4. CASE ~(b.size >= n) /\ ~(n > limit)
  <2>1. Prepared(b, n, limit) = [size |-> n, holds |-> NULL]
    BY <1>1, <1>4 DEF Prepared, Fits, Resize
  <2>2. [size |-> n, holds |-> NULL] \in Buffers(limit)
    BY <1>4 DEF Buffers
  <2>3. QED
    BY <1>4, <2>1, <2>2 DEF Overflows, Fits
<1>5. QED
  BY <1>2, <1>3, <1>4

LEMMA Filling ==
  ASSUME NEW limit \in Nat, NEW b \in Buffers(limit), NEW n \in Nat, n <= limit,
         event \in Events
  PROVE  LET f == Filled(Prepared(b, n, limit))
         IN  f \in Buffers(limit) /\ f.holds = event /\ f.size >= n
<1>1. Prepared(b, n, limit) \in Buffers(limit) /\ Prepared(b, n, limit).size >= n
  BY Preparing
<1>2. QED
  BY <1>1 DEF Filled, Buffers

LEMMA Failing ==
  ASSUME NEW limit \in Nat, NEW b \in Buffers(limit), NEW n \in Nat
  PROVE  Failed(b, n, limit) \subseteq Buffers(limit)
<1>1. Prepared(b, n, limit) \in Buffers(limit)
  BY Preparing
<1>2. \A c \in Buffers(limit) : Spoilt(c) \in Buffers(limit)
  BY DEF Spoilt, Buffers
<1>3. QED
  BY <1>1, <1>2 DEF Failed

-----------------------------------------------------------------------------
(* process                                                                 *)

(* All but the cache.                                                      *)
OwnOK ==
  /\ pc \in {"idle", "system", "account", "xml", "format", "terminated"}
  /\ event \in Events \union {NULL}
  /\ valuesBuf \in Buffers(ValuesLimit) /\ xmlBuf \in Buffers(XmlLimit)
  /\ account \in Sids \union {NULL}
  /\ data \in [system : 0 .. ValuesLimit, user : Sids \union {NULL}, xml : 0 .. XmlLimit]
  /\ faults \subseteq {"system", "account", "xml"}

LEMMA EventTypes ==
  ASSUME event \in Events
  PROVE  /\ event.values \in Nat \ {0} /\ event.xml \in Nat \ {0}
         /\ event.sid \in Sids \union {NULL} /\ event # NULL
BY ProcessorAssumption

LEMMA StepsKeepData ==
  ASSUME OwnOK, DataInv, [Next]_vars
  PROVE  OwnOK' /\ DataInv'
<1> USE ProcessorAssumption DEF OwnOK, DataInv, SystemIsOwn, buffers
<1>1. CASE Start
  <2>1. NoData \in [system : 0 .. ValuesLimit, user : Sids \union {NULL}, xml : 0 .. XmlLimit]
    BY DEF NoData
  <2>2. QED
    BY <1>1, <2>1 DEF Start, Begin
<1>2. CASE SystemRendered
  <2>1. event \in Events /\ event.values \in Nat /\ event.values <= ValuesLimit /\ data = NoData
    BY <1>2, EventTypes, Preparing DEF SystemRendered
  <2>2. valuesBuf' \in Buffers(ValuesLimit) /\ valuesBuf'.holds = event
        /\ valuesBuf'.size >= event.values
    BY <1>2, <2>1, Filling DEF SystemRendered
  <2>3. data' = [system |-> event.values, user |-> NULL, xml |-> 0]
    BY <1>2, <2>1 DEF SystemRendered, NoData
  <2>4. pc' = "account" /\ UNCHANGED <<event, xmlBuf, account, faults>> /\ pc = "system"
    BY <1>2 DEF SystemRendered
  <2>5. data'.system = event.values /\ data'.user = NULL /\ data'.xml = 0
    BY <2>3
  <2>6. data' \in [system : 0 .. ValuesLimit, user : Sids \union {NULL}, xml : 0 .. XmlLimit]
    BY <2>1, <2>3
  <2>7. QED
    BY <2>1, <2>2, <2>4, <2>5, <2>6
<1>3. CASE SystemOverflows
  <2>1. event \in Events /\ event.values \in Nat /\ event.values > ValuesLimit /\ data = NoData
    BY <1>3, EventTypes, Preparing DEF SystemOverflows
  <2>2. QED
    BY <1>3, <2>1 DEF SystemOverflows
<1>4. CASE SystemFails
  <2>1. event \in Events /\ event.values \in Nat
    BY <1>4, EventTypes DEF SystemFails
  <2>2. valuesBuf' \in Buffers(ValuesLimit)
    BY <1>4, <2>1, Failing DEF SystemFails
  <2>3. QED
    BY <1>4, <2>2 DEF SystemFails
<1>5. CASE NoUser
  <2>1. event \in Events /\ event.sid \in Sids \union {NULL}
    BY <1>5, EventTypes DEF NoUser
  <2>2. pc = "account" /\ pc' = "xml" /\ account' = NULL
        /\ UNCHANGED <<event, valuesBuf, xmlBuf, data>>
    BY <1>5 DEF NoUser
  <2>3. \/ event.sid = NULL /\ faults' = faults
        \/ faults' = faults \union {"account"}
    BY <1>5 DEF NoUser
  <2>4. data.user = NULL /\ faults = {}
    BY <2>2
  <2>5. data.user = (IF "account" \in faults' THEN NULL ELSE event.sid) /\ "xml" \notin faults'
        /\ faults' \subseteq {"system", "account", "xml"}
    BY <2>3, <2>4
  <2>6. QED
    BY <2>1, <2>2, <2>4, <2>5
<1>6. CASE UserFound
  <2>1. event \in Events /\ event.sid \in Sids
    BY <1>6, EventTypes DEF UserFound
  <2>2. pc = "account" /\ pc' = "xml" /\ account' = event.sid
        /\ data' = [data EXCEPT !.user = event.sid]
        /\ UNCHANGED <<event, valuesBuf, xmlBuf, faults>>
    BY <1>6 DEF UserFound, FoundUser
  <2>3. data'.user = event.sid /\ data'.system = data.system /\ data'.xml = data.xml
        /\ data' \in [system : 0 .. ValuesLimit, user : Sids \union {NULL}, xml : 0 .. XmlLimit]
    BY <2>1, <2>2
  <2>4. QED
    BY <2>1, <2>2, <2>3
<1>7. CASE CacheThrows
  BY <1>7 DEF CacheThrows
<1>8. CASE XmlRendered
  <2>1. event \in Events /\ event.xml \in Nat /\ event.xml <= XmlLimit
    BY <1>8, EventTypes, Preparing DEF XmlRendered
  <2>2. xmlBuf' \in Buffers(XmlLimit) /\ xmlBuf'.holds = event /\ xmlBuf'.size >= event.xml
    BY <1>8, <2>1, Filling DEF XmlRendered
  <2>3. data' = [data EXCEPT !.xml = event.xml]
    BY <1>8 DEF XmlRendered
  <2>4. data'.xml = event.xml /\ data'.system = data.system /\ data'.user = data.user
        /\ data' \in [system : 0 .. ValuesLimit, user : Sids \union {NULL}, xml : 0 .. XmlLimit]
    BY <2>1, <2>3
  <2>5. pc = "xml" /\ pc' = "format" /\ UNCHANGED <<event, valuesBuf, account, faults>>
    BY <1>8 DEF XmlRendered
  <2>6. QED
    BY <2>1, <2>2, <2>4, <2>5
<1>9. CASE XmlLeftOut
  <2>1. pc = "xml" /\ pc' = "format" /\ UNCHANGED <<event, valuesBuf, account>>
        /\ data' = [data EXCEPT !.xml = 0]
    BY <1>9 DEF XmlLeftOut
  <2>2. event \in Events /\ event.xml \in Nat
    BY <2>1, EventTypes
  <2>3. data'.xml = 0 /\ data'.system = data.system /\ data'.user = data.user
        /\ data' \in [system : 0 .. ValuesLimit, user : Sids \union {NULL}, xml : 0 .. XmlLimit]
    BY <2>1
  <2>4. CASE Overflows(xmlBuf, event.xml, XmlLimit) /\ UNCHANGED <<xmlBuf, faults>>
    <3>1. event.xml > XmlLimit
      BY <2>2, <2>4, Preparing
    <3>2. QED
      BY <2>1, <2>2, <2>3, <2>4, <3>1
  <2>5. CASE xmlBuf' \in Failed(xmlBuf, event.xml, XmlLimit) /\ faults' = faults \union {"xml"}
    <3>1. xmlBuf' \in Buffers(XmlLimit)
      BY <2>2, <2>5, Failing
    <3>2. "xml" \in faults' /\ ("account" \in faults' <=> "account" \in faults)
          /\ faults' \subseteq {"system", "account", "xml"}
      BY <2>5
    <3>3. QED
      BY <2>1, <2>2, <2>3, <3>1, <3>2
  <2>6. QED
    BY <1>9, <2>4, <2>5 DEF XmlLeftOut
<1>10. CASE Format
  BY <1>10 DEF Format
<1>11. CASE UNCHANGED vars
  BY <1>11 DEF vars
<1>12. QED
  BY <1>1, <1>2, <1>3, <1>4, <1>5, <1>6, <1>7, <1>8, <1>9, <1>10, <1>11 DEF Next
-----------------------------------------------------------------------------
(* The cache                                                               *)

Entry == [node : Nodes, sid : Sids]

LEMMA CacheFacts ==
  ASSUME CacheTypeOK
  PROVE  /\ lru \in Seq(Entry) /\ Len(lru) \in Nat /\ \A i \in 1 .. Len(lru) : lru[i] \in Entry
         /\ recency \in Seq(Sids) /\ Len(recency) \in Nat
         /\ MaxCacheSize \in Nat
<1>1. lru \in Seq(Entry) /\ recency \in Seq(Sids)
  BY DEF CacheTypeOK, Entry
<1>2. Len(lru) \in Nat /\ Len(recency) \in Nat
  BY <1>1
<1>3. \A i \in 1 .. Len(lru) : lru[i] \in Entry
  BY <1>1
<1>4. QED
  BY <1>1, <1>2, <1>3, CacheAssumption

(***************************************************************************)
(* A full cache drops the last entry of the list, and the SID of that      *)
(* entry from the map: what is left of the two still fits together.        *)
(***************************************************************************)
LEMMA Kept ==
  ASSUME CacheTypeOK, NoDanglingIterator, MapInv
  PROVE  /\ IsFull => Len(lru) > 0 /\ Len(lru) > MaxCacheSize
         /\ ListKept \in Seq(Entry)
         /\ Len(ListKept) = IF IsFull THEN Len(lru) - 1 ELSE Len(lru)
         /\ \A k \in 1 .. Len(ListKept) : k \in 1 .. Len(lru) /\ ListKept[k] = lru[k]
         /\ DOMAIN CacheKept \subseteq Cached
         /\ \A s \in DOMAIN CacheKept : CacheKept[s] = cache[s]
         /\ \A s \in DOMAIN CacheKept :
              \E i \in 1 .. Len(ListKept) : ListKept[i] = [node |-> cache[s], sid |-> s]
         /\ \A k \in 1 .. Len(ListKept) : ListKept[k].sid \in DOMAIN CacheKept
         /\ IsFiniteSet(DOMAIN CacheKept) /\ Cardinality(DOMAIN CacheKept) = Len(ListKept)
<1>1. CASE ~IsFull
  <2>1. ListKept = lru /\ CacheKept = cache
    BY <1>1 DEF ListKept, CacheKept
  <2>2. QED
    BY <1>1, <2>1, CacheFacts DEF MapInv, NoDanglingIterator, Cached
<1>2. CASE IsFull
  <2> DEFINE l == Len(lru)
             last == lru[l].sid
  <2>1. l > MaxCacheSize /\ l > 0 /\ l \in Nat /\ l \in 1 .. l
    BY <1>2, CacheFacts DEF IsFull, MapInv
  <2>2. ListKept = Front(lru) /\ DOMAIN CacheKept = Cached \ {last}
        /\ \A s \in Cached \ {last} : CacheKept[s] = cache[s]
    BY <1>2 DEF ListKept, CacheKept, CachedKept, Last
  <2>3. /\ ListKept \in Seq(Entry) /\ Len(ListKept) = l - 1
        /\ \A k \in 1 .. (l - 1) : ListKept[k] = lru[k]
    BY <2>1, <2>2, FrontOf, CacheFacts
  <2>4. last \in Cached
    BY <2>1 DEF MapInv
  <2>5. ASSUME NEW s \in Cached \ {last}
        PROVE  \E i \in 1 .. (l - 1) : lru[i] = [node |-> cache[s], sid |-> s]
    <3>1. PICK i \in 1 .. l : lru[i] = [node |-> cache[s], sid |-> s]
      BY <2>5 DEF NoDanglingIterator
    <3>2. lru[i].sid = s
      BY <3>1
    <3>3. i # l
      BY <2>5, <3>2
    <3>4. QED
      BY <2>1, <3>1, <3>3
  <2>6. ASSUME NEW k \in 1 .. (l - 1)
        PROVE  lru[k].sid \in Cached \ {last}
    <3>1. k \in 1 .. l /\ k # l
      BY <2>1
    <3>2. cache[lru[k].sid] = lru[k].node /\ cache[last] = lru[l].node
      BY <2>1, <3>1 DEF MapInv
    <3>3. lru[k].node # lru[l].node
      BY <2>1, <3>1 DEF CacheTypeOK
    <3>4. QED
      BY <3>1, <3>2, <3>3 DEF MapInv
  <2>7. IsFiniteSet(Cached \ {last}) /\ Cardinality(Cached \ {last}) = l - 1
    BY <2>4, FS_RemoveElement DEF MapInv
  <2> HIDE DEF l, last
  <2>8. \A k \in 1 .. (l - 1) : k \in 1 .. l
    BY <2>1
  <2>9. QED
    BY <1>2, <2>1, <2>2, <2>3, <2>5, <2>6, <2>7, <2>8 DEF l
<1>3. QED
  BY <1>1, <1>2

(***************************************************************************)
(* What the history becomes: the SID that was answered is first, and the   *)
(* ones before its earlier place move up.                                  *)
(***************************************************************************)
LEMMA HistoryMoves ==
  ASSUME recency \in Seq(Sids), NEW s \in Sids, Answered(s)
  PROVE  /\ recency' \in Seq(Sids)
         /\ \/ /\ \A j \in 1 .. Len(recency) : recency[j] # s
               /\ Len(recency') = Len(recency) + 1
               /\ \A k \in 1 .. Len(recency') : recency'[k] = IF k = 1 THEN s ELSE recency[k - 1]
            \/ \E i \in 1 .. Len(recency) :
                 /\ recency[i] = s /\ Len(recency') = Len(recency)
                 /\ \A k \in 1 .. Len(recency) :
                      recency'[k] = IF k = 1 THEN s ELSE IF k <= i THEN recency[k - 1] ELSE recency[k]
<1>1. CASE (\A i \in 1 .. Len(recency) : recency[i] # s) /\ recency' = <<s>> \o recency
  BY <1>1, Prepended
<1>2. ASSUME NEW i \in 1 .. Len(recency), recency[i] = s, recency' = <<s>> \o RemoveAt(recency, i)
      PROVE  /\ recency' \in Seq(Sids) /\ Len(recency') = Len(recency)
             /\ \A k \in 1 .. Len(recency) :
                  recency'[k] = IF k = 1 THEN s ELSE IF k <= i THEN recency[k - 1] ELSE recency[k]
  BY <1>2, FrontMoved
<1>3. QED
  BY <1>1, <1>2 DEF Answered
(***************************************************************************)
(* A SID that is in the cache is moved to the front of the list, and of    *)
(* the history, from the same place in both.                               *)
(***************************************************************************)
LEMMA HitKeeps ==
  ASSUME CacheTypeOK, NoDanglingIterator, MapInv, RecentInv, NEW s \in Sids, Hit(s)
  PROVE  CacheTypeOK' /\ NoDanglingIterator' /\ MapInv' /\ RecentInv'
<1> DEFINE l == Len(lru)
           h == Len(recency)
<1>1. PICK i \in 1 .. l : lru[i].node = cache[s] /\ lru' = ToFront(i)
  BY DEF Hit
<1> DEFINE from(k) == IF k = 1 THEN i ELSE IF k <= i THEN k - 1 ELSE k
<1>2. l \in Nat /\ h \in Nat /\ l <= h
  BY CacheFacts DEF RecentInv
<1>3. lru' \in Seq(Entry) /\ Len(lru') = l /\ \A k \in 1 .. l : lru'[k] = lru[from(k)]
  BY <1>1, CacheFacts, FrontMoved DEF ToFront
<1>4. lru[i].sid = s
  <2>1. PICK j \in 1 .. l : lru[j] = [node |-> cache[s], sid |-> s]
    BY DEF Hit, NoDanglingIterator
  <2>2. lru[j].node = lru[i].node /\ lru[j].sid = s
    BY <1>1, <2>1
  <2>3. j = i
    BY <1>1, <2>2 DEF CacheTypeOK
  <2>4. QED
    BY <2>2, <2>3
<1>5. i \in 1 .. h /\ recency[i] = s
  BY <1>1, <1>2, <1>4 DEF RecentInv
<1>6. recency' \in Seq(Sids) /\ Len(recency') = h /\ \A k \in 1 .. h : recency'[k] = recency[from(k)]
  <2>1. Answered(s) /\ recency \in Seq(Sids)
    BY CacheFacts DEF Hit
  <2>2. recency' \in Seq(Sids)
    BY <2>1, HistoryMoves
  <2>3. PICK j \in 1 .. h :
          /\ recency[j] = s /\ Len(recency') = h
          /\ \A k \in 1 .. h : recency'[k] = IF k = 1 THEN s ELSE IF k <= j THEN recency[k - 1] ELSE recency[k]
    BY <1>5, <2>1, HistoryMoves
  <2>4. j = i
    BY <1>5, <2>3 DEF RecentInv
  <2>5. QED
    BY <1>5, <2>2, <2>3, <2>4
<1>7. UNCHANGED <<cache, failures>> /\ Cached' = Cached
  BY DEF Hit, Cached
<1>8. /\ \A k \in 1 .. l : from(k) \in 1 .. l
      /\ \A k \in 1 .. h : from(k) \in 1 .. h
      /\ \A k1, k2 \in 1 .. h : from(k1) = from(k2) => k1 = k2
      /\ \A j \in 1 .. l : \E k \in 1 .. l : from(k) = j
  <2>1. ASSUME NEW j \in 1 .. l PROVE \E k \in 1 .. l : from(k) = j
    <3>1. CASE j = i
      <4>1. 1 \in 1 .. l /\ from(1) = j
        BY <1>1, <1>2, <3>1
      <4>2. QED
        BY <4>1, Zenon
    <3>2. CASE j < i
      <4>1. j + 1 \in 1 .. l /\ from(j + 1) = j
        BY <1>1, <1>2, <3>2
      <4>2. QED
        BY <4>1, Zenon
    <3>3. CASE j > i
      <4>1. from(j) = j
        BY <1>1, <1>2, <3>3
      <4>2. QED
        BY <4>1, Zenon
    <3>4. QED
      BY <1>1, <1>2, <3>1, <3>2, <3>3
  <2>2. QED
    BY <1>1, <1>2, <1>5, <2>1
<1> HIDE DEF from, l, h
<1>9. CacheTypeOK'
  <2>1. \A k1, k2 \in 1 .. l : lru'[k1].node = lru'[k2].node => k1 = k2
    <3>1. \A k \in 1 .. l : k \in 1 .. h
      BY <1>2
    <3>2. SUFFICES ASSUME NEW k1 \in 1 .. l, NEW k2 \in 1 .. l, lru'[k1].node = lru'[k2].node
                   PROVE  k1 = k2
      OBVIOUS
    <3>3. lru[from(k1)].node = lru[from(k2)].node /\ from(k1) \in 1 .. l /\ from(k2) \in 1 .. l
      BY <1>3, <1>8, <3>2
    <3>4. from(k1) = from(k2)
      BY <3>3 DEF CacheTypeOK, l
    <3>5. QED
      BY <1>8, <3>1, <3>4
  <2>2. QED
    BY <1>3, <1>6, <1>7, <2>1 DEF CacheTypeOK, Entry
<1>10. NoDanglingIterator'
  <2>1. ASSUME NEW t \in Cached
        PROVE  \E k \in 1 .. l : lru'[k] = [node |-> cache[t], sid |-> t]
    <3>1. PICK j \in 1 .. l : lru[j] = [node |-> cache[t], sid |-> t]
      BY <2>1 DEF NoDanglingIterator, l
    <3>2. PICK k \in 1 .. l : from(k) = j
      BY <1>8
    <3>3. QED
      BY <1>3, <3>1, <3>2
  <2>2. QED
    BY <1>3, <1>7, <2>1 DEF NoDanglingIterator
<1>11. MapInv'
  <2>1. ASSUME NEW k \in 1 .. l
        PROVE  lru'[k].sid \in Cached /\ cache[lru'[k].sid] = lru'[k].node
    <3>1. lru'[k] = lru[from(k)] /\ from(k) \in 1 .. l
      BY <1>3, <1>8
    <3>2. QED
      BY <3>1 DEF MapInv, l
  <2>2. IsFiniteSet(Cached') /\ Cardinality(Cached') = Len(lru')
    BY <1>3, <1>7 DEF MapInv, l
  <2>3. QED
    BY <1>3, <1>7, <2>1, <2>2 DEF MapInv
<1>12. RecentInv'
  <2>1. \A k1, k2 \in 1 .. h : recency'[k1] = recency'[k2] => k1 = k2
    <3>1. SUFFICES ASSUME NEW k1 \in 1 .. h, NEW k2 \in 1 .. h, recency'[k1] = recency'[k2]
                   PROVE  k1 = k2
      OBVIOUS
    <3>2. recency[from(k1)] = recency[from(k2)] /\ from(k1) \in 1 .. h /\ from(k2) \in 1 .. h
      BY <1>6, <1>8, <3>1
    <3>3. from(k1) = from(k2)
      BY <3>2 DEF RecentInv, h
    <3>4. QED
      BY <1>8, <3>3
  <2>2. \A k \in 1 .. l : lru'[k].sid = recency'[k]
    <3>1. \A k \in 1 .. l : k \in 1 .. h
      BY <1>2
    <3>2. QED
      BY <1>3, <1>6, <1>8, <3>1 DEF RecentInv, l
  <2>3. QED
    BY <1>3, <1>6, <2>1, <2>2 DEF RecentInv, l, h
<1>13. QED
  BY <1>9, <1>10, <1>11, <1>12

(***************************************************************************)
(* A SID that is not in the cache comes first; the entry that makes room   *)
(* for it is the one that was answered least recently.                     *)
(***************************************************************************)
LEMMA MissKeeps ==
  ASSUME CacheTypeOK, NoDanglingIterator, MapInv, RecentInv, NEW s \in Sids, Miss(s)
  PROVE  CacheTypeOK' /\ NoDanglingIterator' /\ MapInv' /\ RecentInv'
<1> DEFINE l == Len(lru)
           h == Len(recency)
           d == DOMAIN CacheKept
           k == Len(ListKept)
<1>1. PICK n \in FreeNodes :
        /\ lru' = <<[node |-> n, sid |-> s]>> \o ListKept
        /\ cache' = [t \in DOMAIN CacheKept \union {s} |-> IF t = s THEN n ELSE CacheKept[t]]
  BY DEF Miss
<1> DEFINE new == [node |-> n, sid |-> s]
<1>2. /\ l \in Nat /\ h \in Nat /\ l <= h /\ k \in Nat
      /\ k = IF IsFull THEN l - 1 ELSE l
      /\ IsFull => l > 0
  BY CacheFacts, Kept DEF RecentInv
<1>3. n \in Nodes /\ new \in Entry /\ \A i \in 1 .. k : ListKept[i].node # n
  BY <1>1 DEF FreeNodes, Entry
<1>4. /\ lru' \in Seq(Entry) /\ Len(lru') = k + 1
      /\ \A i \in 1 .. (k + 1) : lru'[i] = IF i = 1 THEN new ELSE ListKept[i - 1]
  BY <1>1, <1>3, Kept, Prepended
<1>5. s \notin Cached /\ Answered(s) /\ UNCHANGED failures
  BY DEF Miss
<1>6. /\ Cached' = d \union {s} /\ cache'[s] = n
      /\ \A t \in d : t # s /\ t \in Cached /\ cache'[t] = cache[t]
  <2>1. d \subseteq Cached /\ \A t \in d : CacheKept[t] = cache[t]
    BY Kept
  <2>2. Cached' = d \union {s}
    BY <1>1 DEF Cached
  <2>3. QED
    BY <1>1, <1>5, <2>1, <2>2
<1>7. \A i \in 1 .. k : i \in 1 .. l /\ ListKept[i] = lru[i] /\ ListKept[i].sid \in d
  BY Kept
<1>8. \A i \in 1 .. l : lru[i].sid # s
  BY <1>5 DEF MapInv
<1> HIDE DEF l, h, d, k, new
<1>9. ASSUME NEW i \in 1 .. (k + 1), i # 1
      PROVE  /\ i - 1 \in 1 .. k /\ i - 1 \in 1 .. l
             /\ lru'[i] = lru[i - 1] /\ lru'[i].node # n /\ lru'[i].sid \in d
  <2>1. i - 1 \in 1 .. k
    BY <1>2, <1>9
  <2>2. lru'[i] = ListKept[i - 1]
    BY <1>4, <1>9
  <2>3. QED
    BY <1>3, <1>7, <2>1, <2>2
<1>10. lru'[1] = new /\ 1 \in 1 .. (k + 1) /\ new.node = n /\ new.sid = s
  BY <1>2, <1>4 DEF new
<1>11. CacheTypeOK'
  <2>1. ASSUME NEW i \in 1 .. (k + 1), NEW j \in 1 .. (k + 1), lru'[i].node = lru'[j].node
        PROVE  i = j
    <3>1. CASE i # 1 /\ j # 1
      <4>1. lru[i - 1].node = lru[j - 1].node /\ i - 1 \in 1 .. l /\ j - 1 \in 1 .. l
        BY <1>9, <2>1, <3>1
      <4>2. i - 1 = j - 1
        BY <4>1 DEF CacheTypeOK, l
      <4>3. QED
        BY <1>2, <4>2
    <3>2. CASE i = 1 \/ j = 1
      BY <1>9, <1>10, <2>1, <3>2
    <3>3. QED
      BY <3>1, <3>2
  <2>2. \A t \in Cached' : t \in Sids /\ cache'[t] \in Nodes
    BY <1>3, <1>6 DEF CacheTypeOK
  <2>3. recency' \in Seq(Sids)
    BY <1>5, CacheFacts, HistoryMoves
  <2>4. QED
    BY <1>4, <1>5, <2>1, <2>2, <2>3 DEF CacheTypeOK, Entry
<1>12. NoDanglingIterator'
  <2>1. ASSUME NEW t \in Cached'
        PROVE  \E i \in 1 .. (k + 1) : lru'[i] = [node |-> cache'[t], sid |-> t]
    <3>1. CASE t = s
      BY <1>6, <1>10, <3>1 DEF new
    <3>2. CASE t \in d
      <4>1. PICK i \in 1 .. k : ListKept[i] = [node |-> cache[t], sid |-> t]
        BY <3>2, Kept DEF d, k
      <4>2. i + 1 \in 1 .. (k + 1) /\ i + 1 # 1 /\ (i + 1) - 1 = i
        BY <1>2
      <4>3. lru'[i + 1] = ListKept[i]
        BY <1>4, <4>2
      <4>4. lru'[i + 1] = [node |-> cache'[t], sid |-> t]
        BY <1>6, <3>2, <4>1, <4>3
      <4>5. QED
        BY <4>2, <4>4
    <3>3. QED
      BY <1>6, <2>1, <3>1, <3>2
  <2>2. QED
    BY <1>4, <2>1 DEF NoDanglingIterator
<1>13. MapInv'
  <2>1. IsFiniteSet(d) /\ Cardinality(d) = k
    BY Kept DEF d, k
  <2>2. s \notin d
    BY <1>6
  <2>3. IsFiniteSet(Cached') /\ Cardinality(Cached') = k + 1
    BY <1>6, <2>1, <2>2, FS_AddElement
  <2>4. ASSUME NEW i \in 1 .. (k + 1)
        PROVE  lru'[i].sid \in Cached' /\ cache'[lru'[i].sid] = lru'[i].node
    <3>1. CASE i = 1
      BY <1>6, <1>10, <3>1
    <3>2. CASE i # 1
      <4>1. lru'[i] = lru[i - 1] /\ i - 1 \in 1 .. l /\ lru'[i].sid \in d
        BY <1>9, <3>2
      <4>2. cache[lru[i - 1].sid] = lru[i - 1].node
        BY <4>1 DEF MapInv, l
      <4>3. QED
        BY <1>6, <4>1, <4>2
    <3>3. QED
      BY <3>1, <3>2
  <2>5. QED
    BY <1>4, <2>3, <2>4 DEF MapInv
<1>14. RecentInv'
  <2>1. /\ MaxCacheSize \in Nat
        /\ IsFull <=> MaxCacheSize > 0 /\ l > MaxCacheSize
        /\ MaxCacheSize > 0 => l <= MaxCacheSize + 1
        /\ l < h => MaxCacheSize > 0 /\ l = MaxCacheSize + 1
    BY CacheFacts DEF IsFull, MapInv, RecentInv, l, h
  <2>2. \A i \in 1 .. l : lru[i].sid = recency[i]
    BY DEF RecentInv, l
  <2>3. ASSUME NEW g, g = Len(recency'), g \in Nat, k + 1 <= g,
               k + 1 < g => MaxCacheSize > 0 /\ k + 1 = MaxCacheSize + 1,
               recency'[1] = s,
               \A i \in 2 .. (k + 1) : recency'[i] = recency[i - 1],
               \A i, j \in 1 .. g : recency'[i] = recency'[j] => i = j
        PROVE  RecentInv'
    <3>1. ASSUME NEW i \in 1 .. (k + 1)
          PROVE  lru'[i].sid = recency'[i]
      <4>1. CASE i = 1
        BY <1>10, <2>3, <4>1
      <4>2. CASE i # 1
        <5>1. i \in 2 .. (k + 1) /\ i - 1 \in 1 .. l /\ lru'[i] = lru[i - 1]
          BY <1>9, <1>2, <4>2
        <5>2. QED
          BY <2>2, <2>3, <5>1
      <4>3. QED
        BY <4>1, <4>2
    <3>2. MaxCacheSize > 0 => k + 1 <= MaxCacheSize + 1
      BY <1>2, <2>1
    <3>3. QED
      BY <1>4, <2>3, <3>1, <3>2 DEF RecentInv
  <2>4. CASE \A j \in 1 .. h : recency[j] # s
    <3>1. /\ Len(recency') = h + 1
          /\ \A i \in 1 .. (h + 1) : recency'[i] = IF i = 1 THEN s ELSE recency[i - 1]
      BY <1>5, <2>4, CacheFacts, HistoryMoves DEF h
    <3>2. k + 1 <= h + 1 /\ (k + 1 < h + 1 => MaxCacheSize > 0 /\ k + 1 = MaxCacheSize + 1)
      BY <1>2, <2>1
    <3>3. recency'[1] = s /\ \A i \in 2 .. (k + 1) : recency'[i] = recency[i - 1]
      BY <1>2, <3>1, <3>2
    <3>4. ASSUME NEW i \in 1 .. (h + 1), NEW j \in 1 .. (h + 1), recency'[i] = recency'[j]
          PROVE  i = j
      <4>1. CASE i # 1 /\ j # 1
        <5>1. i - 1 \in 1 .. h /\ j - 1 \in 1 .. h /\ recency[i - 1] = recency[j - 1]
          BY <1>2, <3>1, <3>4, <4>1
        <5>2. i - 1 = j - 1
          BY <5>1 DEF RecentInv, h
        <5>3. QED
          BY <1>2, <5>2
      <4>2. CASE i = 1 /\ j # 1
        <5>1. j - 1 \in 1 .. h /\ recency[j - 1] = s
          BY <1>2, <3>1, <3>4, <4>2
        <5>2. QED
          BY <2>4, <5>1
      <4>3. CASE i # 1 /\ j = 1
        <5>1. i - 1 \in 1 .. h /\ recency[i - 1] = s
          BY <1>2, <3>1, <3>4, <4>3
        <5>2. QED
          BY <2>4, <5>1
      <4>4. QED
        BY <4>1, <4>2, <4>3
    <3>5. QED
      BY <1>2, <2>3, <3>1, <3>2, <3>3, <3>4
  <2>5. CASE \E j \in 1 .. h : recency[j] = s
    <3>1. PICK j \in 1 .. h :
            /\ recency[j] = s /\ Len(recency') = h
            /\ \A i \in 1 .. h :
                 recency'[i] = IF i = 1 THEN s ELSE IF i <= j THEN recency[i - 1] ELSE recency[i]
      BY <1>5, <2>5, CacheFacts, HistoryMoves DEF h
    <3>2. j > l
      BY <1>2, <1>8, <2>2, <3>1
    <3>3. l < h /\ IsFull /\ k + 1 = l /\ k + 1 = MaxCacheSize + 1
      BY <1>2, <2>1, <3>1, <3>2
    <3>4. recency'[1] = s /\ \A i \in 2 .. (k + 1) : recency'[i] = recency[i - 1]
      BY <1>2, <3>1, <3>2, <3>3
    <3> DEFINE from(i) == IF i = 1 THEN j ELSE IF i <= j THEN i - 1 ELSE i
    <3>5. /\ \A i \in 1 .. h : recency'[i] = recency[from(i)] /\ from(i) \in 1 .. h
          /\ \A i1, i2 \in 1 .. h : from(i1) = from(i2) => i1 = i2
      BY <1>2, <3>1
    <3> HIDE DEF from
    <3>6. ASSUME NEW i1 \in 1 .. h, NEW i2 \in 1 .. h, recency'[i1] = recency'[i2]
          PROVE  i1 = i2
      <4>1. recency[from(i1)] = recency[from(i2)] /\ from(i1) \in 1 .. h /\ from(i2) \in 1 .. h
        BY <3>5, <3>6
      <4>2. from(i1) = from(i2)
        BY <4>1 DEF RecentInv, h
      <4>3. QED
        BY <3>5, <4>2
    <3>7. QED
      BY <1>2, <2>1, <2>3, <3>1, <3>3, <3>4, <3>6
  <2>6. QED
    BY <2>4, <2>5
<1>15. QED
  BY <1>11, <1>12, <1>13, <1>14
(***************************************************************************)
(* An allocation that fails leaves nothing dangling: the list has an entry *)
(* less, or one that the map does not know of.                             *)
(***************************************************************************)
LEMMA ThrowKeeps ==
  ASSUME CacheTypeOK, NoDanglingIterator, MapInv, NEW s \in Sids, Throws(s)
  PROVE  CacheTypeOK' /\ NoDanglingIterator' /\ failures' > 0
<1> DEFINE k == Len(ListKept)
<1>1. /\ failures' \in 0 .. MaxFailures /\ failures' > 0 /\ UNCHANGED recency
      /\ cache' = CacheKept
  BY CacheAssumption DEF Throws, ListAllocationFails, MapAllocationFails, CacheTypeOK
<1>2. /\ ListKept \in Seq(Entry) /\ k \in Nat
      /\ \A i \in 1 .. k : i \in 1 .. Len(lru) /\ ListKept[i] = lru[i]
      /\ Cached' \subseteq Cached /\ \A t \in Cached' : cache'[t] = cache[t]
      /\ \A t \in Cached' : \E i \in 1 .. k : ListKept[i] = [node |-> cache[t], sid |-> t]
  BY <1>1, Kept DEF Cached
<1>3. \A i, j \in 1 .. k : ListKept[i].node = ListKept[j].node => i = j
  BY <1>2 DEF CacheTypeOK
<1>4. Cached' \subseteq Sids /\ \A t \in Cached' : cache'[t] \in Nodes
  BY <1>2 DEF CacheTypeOK
<1>5. CASE lru' = ListKept
  <2>1. CacheTypeOK'
    BY <1>1, <1>2, <1>3, <1>4, <1>5 DEF CacheTypeOK, Entry
  <2>2. NoDanglingIterator'
    BY <1>2, <1>5 DEF NoDanglingIterator
  <2>3. QED
    BY <1>1, <2>1, <2>2
<1>6. ASSUME NEW n \in FreeNodes, lru' = <<[node |-> n, sid |-> s]>> \o ListKept
      PROVE  CacheTypeOK' /\ NoDanglingIterator' /\ failures' > 0
  <2> DEFINE new == [node |-> n, sid |-> s]
  <2>1. n \in Nodes /\ new \in Entry /\ \A i \in 1 .. k : ListKept[i].node # n
    BY DEF FreeNodes, Entry
  <2>2. /\ lru' \in Seq(Entry) /\ Len(lru') = k + 1
        /\ \A i \in 1 .. (k + 1) : lru'[i] = IF i = 1 THEN new ELSE ListKept[i - 1]
    BY <1>2, <1>6, <2>1, Prepended
  <2>3. new.node = n
    OBVIOUS
  <2> HIDE DEF new, k
  <2>4. ASSUME NEW i \in 1 .. (k + 1), NEW j \in 1 .. (k + 1), lru'[i].node = lru'[j].node
        PROVE  i = j
    <3>1. CASE i # 1 /\ j # 1
      <4>1. i - 1 \in 1 .. k /\ j - 1 \in 1 .. k /\ ListKept[i - 1].node = ListKept[j - 1].node
        BY <1>2, <2>2, <2>4, <3>1
      <4>2. i - 1 = j - 1
        BY <1>3, <4>1
      <4>3. QED
        BY <1>2, <4>2
    <3>2. CASE i = 1 /\ j # 1
      <4>1. j - 1 \in 1 .. k /\ ListKept[j - 1].node = n
        BY <1>2, <2>2, <2>3, <2>4, <3>2
      <4>2. QED
        BY <2>1, <4>1
    <3>3. CASE i # 1 /\ j = 1
      <4>1. i - 1 \in 1 .. k /\ ListKept[i - 1].node = n
        BY <1>2, <2>2, <2>3, <2>4, <3>3
      <4>2. QED
        BY <2>1, <4>1
    <3>4. QED
      BY <3>1, <3>2, <3>3
  <2>5. CacheTypeOK'
    BY <1>1, <1>4, <2>2, <2>4 DEF CacheTypeOK, Entry
  <2>6. ASSUME NEW t \in Cached'
        PROVE  \E i \in 1 .. (k + 1) : lru'[i] = [node |-> cache'[t], sid |-> t]
    <3>1. PICK i \in 1 .. k : ListKept[i] = [node |-> cache[t], sid |-> t]
      BY <1>2
    <3>2. i + 1 \in 1 .. (k + 1) /\ i + 1 # 1 /\ (i + 1) - 1 = i
      BY <1>2
    <3>3. lru'[i + 1] = [node |-> cache'[t], sid |-> t]
      BY <1>2, <2>2, <3>1, <3>2
    <3>4. QED
      BY <3>2, <3>3
  <2>7. NoDanglingIterator'
    BY <2>2, <2>6 DEF NoDanglingIterator
  <2>8. QED
    BY <1>1, <2>5, <2>7
<1>7. QED
  BY <1>5, <1>6 DEF Throws, ListAllocationFails, MapAllocationFails

LEMMA CacheFrame ==
  ASSUME UNCHANGED cacheVars
  PROVE  /\ CacheTypeOK => CacheTypeOK'
         /\ NoDanglingIterator => NoDanglingIterator'
         /\ MapInv => MapInv'
         /\ RecentInv => RecentInv'
BY DEF cacheVars, CacheTypeOK, NoDanglingIterator, MapInv, RecentInv, Cached

LEMMA StepsKeepCache ==
  ASSUME TypeOK, CacheInv, DataInv, [Next]_vars
  PROVE  CacheTypeOK' /\ CacheInv'
<1> USE DEF TypeOK, CacheInv
<1>1. CASE UserFound
  <2>1. event.sid \in Sids /\ pc = "account" /\ pc' = "xml"
    BY <1>1, EventTypes DEF UserFound, DataInv
  <2>2. CASE Hit(event.sid)
    <3>1. UNCHANGED failures
      BY <2>2 DEF Hit
    <3>2. QED
      BY <2>1, <2>2, <3>1, HitKeeps
  <2>3. CASE Miss(event.sid)
    <3>1. UNCHANGED failures
      BY <2>3 DEF Miss
    <3>2. QED
      BY <2>1, <2>3, <3>1, MissKeeps
  <2>4. QED
    BY <1>1, <2>2, <2>3 DEF UserFound
<1>2. CASE CacheThrows
  <2>1. event.sid \in Sids /\ pc = "account" /\ pc' = "terminated" /\ Throws(event.sid)
    BY <1>2, EventTypes DEF CacheThrows, DataInv
  <2>2. QED
    BY <2>1, ThrowKeeps
<1>3. CASE UNCHANGED cacheVars /\ (pc' = "terminated" <=> pc = "terminated")
  BY <1>3, CacheFrame DEF cacheVars
<1>4. CASE Start \/ SystemRendered \/ SystemOverflows \/ SystemFails
  BY <1>3, <1>4 DEF Start, Begin, SystemRendered, SystemOverflows, SystemFails
<1>5. CASE NoUser
  BY <1>3, <1>5 DEF NoUser, NoAccount
<1>6. CASE XmlRendered \/ XmlLeftOut \/ Format
  BY <1>3, <1>6 DEF XmlRendered, XmlLeftOut, Format
<1>7. CASE UNCHANGED vars
  BY <1>3, <1>7 DEF vars
<1>8. QED
  BY <1>1, <1>2, <1>4, <1>5, <1>6, <1>7 DEF Next

-----------------------------------------------------------------------------
(* The theorems                                                            *)

(***************************************************************************)
(* The invariant of the processor: what was rendered of the event so far   *)
(* is in the buffers it was rendered to, and the map, the list and the     *)
(* history of the cache fit together until an allocation fails.            *)
(***************************************************************************)
THEOREM ProcessorInvariant == Spec => []ProcessorInv
<1>1. Init => ProcessorInv
  <2> SUFFICES ASSUME Init PROVE ProcessorInv
    OBVIOUS
  <2>1. /\ lru = <<>> /\ Cached = {} /\ failures = 0 /\ recency = <<>>
        /\ pc = "idle"
    BY DEF Init, CacheInit, Cached
  <2>2. TypeOK
    <3>1. CacheTypeOK
      BY <2>1, CacheAssumption DEF CacheTypeOK
    <3>2. OwnOK
      BY ProcessorAssumption DEF Init, OwnOK, Buffers, NoData
    <3>3. QED
      BY <3>1, <3>2 DEF TypeOK, OwnOK
  <2>3. CacheInv
    <3>1. NoDanglingIterator
      BY <2>1 DEF NoDanglingIterator
    <3>2. Len(lru) = 0 /\ Len(recency) = 0
      BY <2>1
    <3>3. MapInv
      <4>1. IsFiniteSet(Cached) /\ Cardinality(Cached) = 0
        BY <2>1, FS_EmptySet
      <4>2. QED
        BY <3>2, <4>1 DEF MapInv
    <3>4. RecentInv
      BY <3>2, CacheAssumption DEF RecentInv
    <3>5. QED
      BY <2>1, <3>1, <3>3, <3>4 DEF CacheInv
  <2>4. DataInv
    BY <2>1 DEF DataInv
  <2>5. QED
    BY <2>2, <2>3, <2>4 DEF ProcessorInv
<1>2. ProcessorInv /\ [Next]_vars => ProcessorInv'
  <2> SUFFICES ASSUME ProcessorInv, [Next]_vars PROVE ProcessorInv'
    OBVIOUS
  <2>1. OwnOK' /\ DataInv'
    BY StepsKeepData DEF ProcessorInv, TypeOK, OwnOK
  <2>2. CacheTypeOK' /\ CacheInv'
    BY StepsKeepCache DEF ProcessorInv
  <2>3. QED
    BY <2>1, <2>2 DEF ProcessorInv, TypeOK, OwnOK
<1>3. QED
  BY <1>1, <1>2, PTL DEF Spec

(***************************************************************************)
(* Every state is well typed: no buffer grows beyond its limit, and no two *)
(* entries of the cache have the same node.                                *)
(***************************************************************************)
THEOREM ProcessorTypes == Spec => []TypeOK
BY ProcessorInvariant, PTL DEF ProcessorInv

(***************************************************************************)
(* No position in the map dangles, also after an allocation failed half-   *)
(* way through an addition and when the allocator reuses addresses.        *)
(***************************************************************************)
THEOREM IteratorsAreValid == Spec => []NoDanglingIterator
BY ProcessorInvariant, PTL DEF ProcessorInv, CacheInv

LEMMA LesserOfTwo ==
  ASSUME NEW a \in Nat, NEW b \in Nat
  PROVE  Min({a, b}) = IF a <= b THEN a ELSE b
<1>1. \E x \in {a, b} : \A y \in {a, b} : x <= y
  BY Z3
<1>2. Min({a, b}) \in {a, b} /\ \A y \in {a, b} : Min({a, b}) <= y
  BY <1>1 DEF Min
<1>3. QED
  BY <1>2

(***************************************************************************)
(* For every limit of the cache and every sequence of events, the cache    *)
(* holds the SIDs that were answered last, at least as many as its limit.  *)
(***************************************************************************)
THEOREM CacheIsMostRecent == Spec => []HoldsMostRecent
<1>1. ProcessorInv => HoldsMostRecent
  <2> SUFFICES ASSUME ProcessorInv, failures = 0, MaxCacheSize > 0
               PROVE  \E n \in Min({Len(recency), MaxCacheSize}) .. Len(recency) :
                        Cached = {recency[i] : i \in 1 .. n}
    BY DEF HoldsMostRecent
  <2>1. MapInv /\ RecentInv /\ NoDanglingIterator /\ CacheTypeOK
    BY CacheAssumption DEF ProcessorInv, CacheInv, TypeOK
  <2>2. Len(lru) \in Nat /\ Len(recency) \in Nat /\ MaxCacheSize \in Nat
    BY <2>1, CacheFacts
  <2>3. Len(lru) \in Min({Len(recency), MaxCacheSize}) .. Len(recency)
    <3>1. Min({Len(recency), MaxCacheSize}) =
            IF Len(recency) <= MaxCacheSize THEN Len(recency) ELSE MaxCacheSize
      BY <2>2, LesserOfTwo
    <3>2. Len(lru) = Len(recency) \/ (Len(lru) = MaxCacheSize + 1 /\ Len(lru) < Len(recency))
      BY <2>1, <2>2 DEF RecentInv
    <3>3. QED
      BY <2>2, <3>1, <3>2
  <2>4. \A i \in 1 .. Len(lru) : recency[i] \in Cached
    BY <2>1 DEF MapInv, RecentInv
  <2>5. \A s \in Cached : \E i \in 1 .. Len(lru) : recency[i] = s
    <3>1. SUFFICES ASSUME NEW s \in Cached PROVE \E i \in 1 .. Len(lru) : recency[i] = s
      OBVIOUS
    <3>2. PICK i \in 1 .. Len(lru) : lru[i] = [node |-> cache[s], sid |-> s]
      BY <2>1 DEF NoDanglingIterator
    <3>3. lru[i].sid = s
      BY <3>2
    <3>4. QED
      BY <2>1, <3>3 DEF RecentInv
  <2>6. Cached = {recency[i] : i \in 1 .. Len(lru)}
    BY <2>4, <2>5
  <2>7. QED
    BY <2>3, <2>6
<1>2. QED
  BY <1>1, ProcessorInvariant, PTL

(***************************************************************************)
(* What the formatter reads is of the event that is formatted, whatever    *)
(* earlier events left in the buffers.                                     *)
(***************************************************************************)
THEOREM FormatterReadsOwnData == Spec => []FormattedIsOwn
<1>1. ProcessorInv => FormattedIsOwn
  BY EventTypes DEF ProcessorInv, DataInv, SystemIsOwn, FormattedIsOwn, NoData
<1>2. QED
  BY <1>1, ProcessorInvariant, PTL

(***************************************************************************)
(* What is missing in an event is missing for a reason of its own: it is   *)
(* too large, or its own rendering failed.                                 *)
(***************************************************************************)
THEOREM OthersCostNothing == Spec => []LeftOutByItsOwnFault
<1>1. ProcessorInv => LeftOutByItsOwnFault
  <2> SUFFICES ASSUME ProcessorInv, pc = "format" PROVE LeftOutByItsOwnFault
    BY DEF LeftOutByItsOwnFault
  <2>1. event \in Events /\ event.values \in Nat \ {0} /\ event.xml \in Nat \ {0}
        /\ ValuesLimit \in Nat /\ XmlLimit \in Nat
    BY EventTypes, ProcessorAssumption DEF ProcessorInv, DataInv
  <2>2. NoData.system = 0
    BY DEF NoData
  <2>3. QED
    BY <2>1, <2>2 DEF ProcessorInv, DataInv, SystemIsOwn, LeftOutByItsOwnFault
<1>2. QED
  BY <1>1, ProcessorInvariant, PTL

=============================================================================
