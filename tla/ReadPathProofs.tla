--------------------------- MODULE ReadPathProofs ---------------------------
(* What concurrent readers and the owner are promised by ReadPath, for every   *)
(* number of keys, classes, readers, cached files and faults: no file is read  *)
(* after it was unmapped, a walk without failures answers exactly, no map      *)
(* grows inside its segment, and the counters follow the answers.              *)
EXTENDS ReadPath, SetLemmas, TLAPS, FiniteSetTheorems, SequenceTheorems

--------------------------------------------------------------------------------
(* What capacity_policy.hpp and insert_transition.hpp assert of their tables,   *)
(* for every bucket count and every live growth point.                          *)

\* max_size_without_rehash divides before it multiplies and still gives
\* floor(7n/8), the growth point of the map.
THEOREM GrowthPointExact ==
  \A n \in Nat : MaxSizeWithoutRehash(n) = (7 * n) \div 8
<1> SUFFICES ASSUME NEW n \in Nat PROVE MaxSizeWithoutRehash(n) = (7 * n) \div 8
  OBVIOUS
<1>1. PICK q \in Nat, r \in 0 .. 7 : n = 8 * q + r
  <2> WITNESS n \div 8 \in Nat, n % 8 \in 0 .. 7
  <2> QED OBVIOUS
<1>2. n \div 8 = q /\ n % 8 = r
  BY <1>1
<1> QED BY <1>1, <1>2 DEF MaxSizeWithoutRehash

\* The threshold of a live generation is never past the growth point, and from 23
\* buckets on strictly below it: the smallest table of capacity_policy.hpp has 959.
THEOREM RotatesBelowGrowth ==
  \A n \in Nat : /\ MaxEntriesFor(n) <= MaxSizeWithoutRehash(n)
                 /\ n >= 23 => MaxEntriesFor(n) < MaxSizeWithoutRehash(n)
<1> SUFFICES ASSUME NEW n \in Nat
             PROVE  /\ MaxEntriesFor(n) <= (7 * n) \div 8
                    /\ n >= 23 => MaxEntriesFor(n) < (7 * n) \div 8
  BY GrowthPointExact
<1> QED BY DEF MaxEntriesFor

\* can_insert_safely answers yes only below the live growth point, whatever the
\* erasures left of it, so the emplace that follows adds the key and neither grows
\* the map nor asks the allocator for anything.
THEOREM SafeInsertNeverGrows ==
  ASSUME NEW m, NEW key,
         m.buckets \in Nat \ {0}, m.load \in Nat, SizeOf(m) \in Nat,
         ~MapFull(m), key \notin m.keys
  PROVE  Emplaced(m, key) = {[map |-> [m EXCEPT !.keys = @ \cup {key}], threw |-> FALSE]}
<1>1. SizeOf(m) < m.load
  BY DEF MapFull, EffectiveInsertLimit, MaxEntriesFor
<1> QED BY <1>1 DEF Emplaced
--------------------------------------------------------------------------------
(* The inductive invariant *)

\* The generations that are there.
Catalogued == {g \in Gen : g[2] \in catalog[g[1]]}

Map == [keys : SUBSET Key, buckets : {Buckets}, load : Nat]

\* Each generation of the catalogue has its map, as wide as it was made, and each
\* key is in one of them at most.
StoreInv ==
  /\ catalog \in [Class -> (SUBSET Version) \ {{}}]
  /\ maps \in [Catalogued -> Map]
  /\ \A g, h \in Catalogued : g # h => \A x \in maps[g].keys : x \notin maps[h].keys
  /\ refusals = 0

Field == {"pc", "batch", "seen", "todo", "next", "pending", "found", "failure", "tally"}

\* The locals of a walk.
IsWalk(w) == w = [f \in Field |-> w[f]] /\ w.pc \in {"walk", "probe"}

\* One thread walks at a time: a reader that does holds the mutex, and while a
\* reader is in a call the owner is in none.
ThreadInv ==
  /\ call = [t \in Thread |-> call[t]]
  /\ \A t \in Thread : \/ call[t] = IdleCall
                       \/ t # Owner /\ call[t] = [pc |-> "wait", batch |-> call[t].batch]
                       \/ IsWalk(call[t])
  /\ \A r \in Reader : Walking(r) => lock = r
  /\ \A r \in Reader : call[r] # IdleCall => call[Owner] = IdleCall

IsSeq(s) == \E S : s \in Seq(S)

\* The cache keeps to its limit and holds files of older generations only.
CacheInv == IsSeq(cache) /\ Len(cache) <= MaxCached /\ ToSet(cache) \subseteq Older

Asked(t) == WorkingSet(call[t].batch)
ActiveKeys == UNION {ActiveMap(c).keys : c \in Class}

\* What a walk has yet to visit, as long as it met no failure: a generation is on
\* the list, or of a class not yet listed, or holds no key that is looked for.
Visits(t) ==
  Complete(t) =>
    \A g \in Older : \/ g \in call[t].todo
                     \/ g[1] >= call[t].next /\ g \notin call[t].seen
                     \/ \A x \in maps[g].keys : x \notin call[t].pending

\* What it has settled: a reader found the keys that are no longer looked for, the
\* owner erased them.
Settled(t) ==
  /\ call[t].pending \subseteq Asked(t)
  /\ t # Owner => call[t].found = Asked(t) \ call[t].pending /\ call[t].found \subseteq OlderKeys
  /\ t = Owner => \A x \in Asked(t) : /\ x \notin ActiveKeys
                                      /\ x \notin call[t].pending => x \notin OlderKeys

WalkInv(t) ==
  /\ call[t].todo \subseteq Older /\ call[t].seen \subseteq Older /\ call[t].next \in 0 .. Classes
  /\ call[t].pc = "probe" => call[t].todo # {} /\ Cached(InHand(t))
  /\ Visits(t) /\ Settled(t)

ReadInv ==
  /\ StoreInv /\ ThreadInv /\ CacheInv
  /\ \A t \in Thread : Walking(t) => WalkInv(t)

--------------------------------------------------------------------------------
(* The catalogue and the order of a walk *)

\* The numbers of the model are numbers.
LEMMA Bounds ==
  /\ Classes \in Nat \ {0} /\ MaxVersion \in Nat /\ Class \subseteq Nat /\ Version \subseteq Nat
  /\ \A S \in SUBSET Version : IsFiniteSet(S)
<1>1. Classes \in Nat \ {0} /\ MaxVersion \in Nat
  BY ReadPathAssumption
<1>2. Class \subseteq Nat /\ Version \subseteq Nat
  BY <1>1 DEF Class, Version
<1>3. IsFiniteSet(Version)
  BY <1>1, FS_Interval DEF Version
<1>. QED
  BY <1>1, <1>2, <1>3, FS_Subset

\* The active generation is the newest of its class.
LEMMA CurrentNewest ==
  ASSUME StoreInv, NEW c \in Class
  PROVE  /\ Current(c) \in catalog[c] /\ Current(c) \in Version /\ ActiveGen(c) \in Catalogued
         /\ \A v \in catalog[c] : v <= Current(c)
<1>1. catalog[c] \in SUBSET Version /\ catalog[c] # {}
  BY DEF StoreInv
<1>2. catalog[c] \in SUBSET (0 .. MaxVersion)
  BY <1>1 DEF Version
<1>3. Current(c) \in catalog[c] /\ \A v \in catalog[c] : v <= Current(c)
  BY <1>1, <1>2, Bounds, MaxOf DEF Current
<1>4. ActiveGen(c) \in Catalogued
  BY <1>1, <1>3 DEF ActiveGen, Catalogued, Gen
<1>. QED
  BY <1>1, <1>3, <1>4

\* The older generations are those of the catalogue that are not active.
LEMMA OlderMeans ==
  ASSUME StoreInv
  PROVE  Older = {g \in Catalogued : g[2] # Current(g[1])}
<1>1. \A c \in Class : catalog[c] \subseteq Version
  BY DEF StoreInv
<1>2. ASSUME NEW g \in Older PROVE g \in Catalogued /\ g[2] # Current(g[1])
  <2>1. PICK c \in Class : g \in Below(c)
    BY <1>2 DEF Older
  <2>2. PICK v \in catalog[c] : v # Current(c) /\ g = <<c, v>>
    BY <2>1 DEF Below
  <2>. QED
    BY <1>1, <2>2 DEF Catalogued, Gen
<1>3. ASSUME NEW g \in Catalogued, g[2] # Current(g[1]) PROVE g \in Older
  <2>1. g[1] \in Class /\ g[2] \in catalog[g[1]] /\ g = <<g[1], g[2]>>
    BY DEF Catalogued, Gen
  <2>2. g \in Below(g[1])
    BY <1>3, <2>1 DEF Below
  <2>. QED
    BY <2>1, <2>2 DEF Older
<1>. QED
  BY <1>2, <1>3

\* A list that is not empty has a first file.
LEMMA FirstMember ==
  ASSUME NEW S \in SUBSET Gen, S # {}
  PROVE  FirstOf(S) \in S
<1>. DEFINE cs == {g[1] : g \in S}
<1>1. cs \in SUBSET Nat /\ cs # {}
  BY Bounds DEF Gen
<1>2. Min(cs) \in cs /\ \A c \in cs : Min(cs) <= c
  BY <1>1, MinOf
<1>3. PICK c \in cs : \A d \in cs : c <= d
  BY <1>2
<1>. DEFINE vs == {g[2] : g \in {h \in S : h[1] = c}}
<1>4. vs \in SUBSET (0 .. MaxVersion) /\ vs \in SUBSET Nat /\ vs # {}
  BY <1>3, Bounds DEF Gen, Version
<1>5. Max(vs) \in vs /\ \A v \in vs : v <= Max(vs)
  BY <1>4, Bounds, MaxOf
<1>6. PICK v \in vs : \A u \in vs : u <= v
  BY <1>5
<1>7. PICK g \in S : g[1] = c /\ g[2] = v
  BY <1>6
<1>8. \A h \in S : g[1] < h[1] \/ (g[1] = h[1] /\ g[2] >= h[2])
  <2>. SUFFICES ASSUME NEW h \in S PROVE g[1] < h[1] \/ (g[1] = h[1] /\ g[2] >= h[2])
    OBVIOUS
  <2>1. c <= h[1] /\ c \in Nat /\ h[1] \in Nat /\ v \in Nat
    BY <1>1, <1>3, <1>4
  <2>2. CASE h[1] = c
    <3>1. h[2] \in vs
      BY <2>2
    <3>. QED
      BY <1>4, <1>6, <1>7, <2>1, <2>2, <3>1
  <2>3. CASE h[1] # c
    BY <1>7, <2>1, <2>3
  <2>. QED
    BY <2>2, <2>3
<1>. QED
  BY <1>8 DEF FirstOf

--------------------------------------------------------------------------------
(* The file cache *)

\* A sequence is a function on its indices.
LEMMA SeqFacts ==
  ASSUME NEW s, IsSeq(s)
  PROVE  Len(s) \in Nat /\ DOMAIN s = 1 .. Len(s)
<1>1. PICK S : s \in Seq(S)
  BY DEF IsSeq
<1>. QED
  BY <1>1, LenProperties

\* Adding a file at the end.
LEMMA AppendFacts ==
  ASSUME NEW s, IsSeq(s), NEW e
  PROVE  /\ IsSeq(Append(s, e)) /\ Len(Append(s, e)) = Len(s) + 1
         /\ ToSet(Append(s, e)) = ToSet(s) \cup {e}
<1>1. PICK S : s \in Seq(S)
  BY DEF IsSeq
<1>. DEFINE T == S \cup {e}
<1>2. s \in Seq(T)
  BY <1>1, SeqMonotonic
<1>3. e \in T
  OBVIOUS
<1>. HIDE DEF T
<1>4. /\ Append(s, e) \in Seq(T) /\ Len(Append(s, e)) = Len(s) + 1
      /\ \A i \in 1 .. Len(s) : Append(s, e)[i] = s[i]
      /\ Append(s, e)[Len(s) + 1] = e
  BY <1>2, <1>3, AppendProperties
<1>5. Len(s) \in Nat /\ DOMAIN s = 1 .. Len(s) /\ DOMAIN Append(s, e) = 1 .. Len(s) + 1
  BY <1>2, <1>4, LenProperties
<1>6. ToSet(Append(s, e)) = ToSet(s) \cup {e}
  <2>1. ASSUME NEW x \in ToSet(Append(s, e)) PROVE x \in ToSet(s) \cup {e}
    <3>1. PICK i \in 1 .. Len(s) + 1 : x = Append(s, e)[i]
      BY <1>5, <2>1 DEF ToSet
    <3>2. CASE i = Len(s) + 1
      BY <1>4, <3>1, <3>2
    <3>3. CASE i \in 1 .. Len(s)
      BY <1>4, <1>5, <3>1, <3>3 DEF ToSet
    <3>. QED
      BY <1>5, <3>2, <3>3
  <2>2. ASSUME NEW x \in ToSet(s) PROVE x \in ToSet(Append(s, e))
    <3>1. PICK i \in 1 .. Len(s) : x = s[i]
      BY <1>5, <2>2 DEF ToSet
    <3>2. i \in 1 .. Len(s) + 1
      BY <1>5
    <3>. QED
      BY <1>4, <1>5, <3>1, <3>2 DEF ToSet
  <2>3. e \in ToSet(Append(s, e))
    <3>1. Len(s) + 1 \in 1 .. Len(s) + 1
      BY <1>5
    <3>. QED
      BY <1>4, <1>5, <3>1 DEF ToSet
  <2>. QED
    BY <2>1, <2>2, <2>3
<1>. QED
  BY <1>4, <1>6 DEF IsSeq

\* Evicting the least recently used file.
LEMMA TailFacts ==
  ASSUME NEW s, IsSeq(s), s # <<>>
  PROVE  /\ IsSeq(Tail(s)) /\ Len(Tail(s)) = Len(s) - 1
         /\ ToSet(Tail(s)) \subseteq ToSet(s)
<1>1. PICK S : s \in Seq(S)
  BY DEF IsSeq
<1>2. /\ Tail(s) \in Seq(S) /\ Len(Tail(s)) = Len(s) - 1
      /\ \A i \in 1 .. Len(Tail(s)) : Tail(s)[i] = s[i + 1]
  BY <1>1, HeadTailProperties
<1>3. Len(s) \in Nat /\ DOMAIN s = 1 .. Len(s) /\ DOMAIN Tail(s) = 1 .. Len(s) - 1
  BY <1>1, <1>2, LenProperties
<1>4. ASSUME NEW x \in ToSet(Tail(s)) PROVE x \in ToSet(s)
  <2>1. PICK i \in 1 .. Len(s) - 1 : x = Tail(s)[i]
    BY <1>3, <1>4 DEF ToSet
  <2>2. x = s[i + 1] /\ i + 1 \in 1 .. Len(s)
    BY <1>2, <1>3, <2>1
  <2>. QED
    BY <1>3, <2>2 DEF ToSet
<1>. QED
  BY <1>2, <1>4 DEF IsSeq

\* Taking one file out from where it is.
LEMMA RemoveFacts ==
  ASSUME NEW s, IsSeq(s), NEW i \in 1 .. Len(s)
  PROVE  /\ IsSeq(RemoveAt(s, i)) /\ Len(RemoveAt(s, i)) = Len(s) - 1
         /\ ToSet(s) \subseteq ToSet(RemoveAt(s, i)) \cup {s[i]}
         /\ ToSet(RemoveAt(s, i)) \subseteq ToSet(s)
<1>1. PICK S : s \in Seq(S)
  BY DEF IsSeq
<1>. DEFINE a == SubSeq(s, 1, i - 1)
            b == SubSeq(s, i + 1, Len(s))
<1>2. Len(s) \in Nat /\ DOMAIN s = 1 .. Len(s) /\ i \in Nat /\ i >= 1 /\ i <= Len(s)
  BY <1>1, LenProperties
<1>3. /\ a \in Seq(S) /\ Len(a) = i - 1
      /\ \A j \in 1 .. i - 1 : a[j] = s[j]
  <2>1. \A j \in 1 .. i - 1 : s[j] \in S
    BY <1>1, <1>2, ElementOfSeq
  <2>2. /\ a \in Seq(S) /\ Len(a) = IF 1 <= i - 1 THEN (i - 1) - 1 + 1 ELSE 0
        /\ \A j \in 1 .. (i - 1) - 1 + 1 : a[j] = s[1 + j - 1]
    BY <1>2, <2>1, SubSeqProperties
  <2>. QED
    BY <1>2, <2>2
<1>4. /\ b \in Seq(S) /\ Len(b) = Len(s) - i
      /\ \A j \in 1 .. Len(s) - i : b[j] = s[i + j]
  <2>1. \A j \in i + 1 .. Len(s) : s[j] \in S
    BY <1>1, <1>2, ElementOfSeq
  <2>2. Len(b) = IF i + 1 <= Len(s) THEN Len(s) - (i + 1) + 1 ELSE 0
    BY <1>2, <2>1, SubSeqProperties
  <2>3. b \in Seq(S) /\ \A j \in 1 .. Len(s) - (i + 1) + 1 : b[j] = s[(i + 1) + j - 1]
    BY <1>2, <2>1, SubSeqProperties
  <2>. HIDE DEF b
  <2>4. Len(b) = Len(s) - i
    <3>1. \A m, n \in Nat : m <= n => (IF m + 1 <= n THEN n - (m + 1) + 1 ELSE 0) = n - m
      OBVIOUS
    <3>. QED
      BY <1>2, <2>2, <3>1, Zenon
  <2>5. \A j \in 1 .. Len(s) - i : j \in 1 .. Len(s) - (i + 1) + 1 /\ (i + 1) + j - 1 = i + j
    BY <1>2
  <2>6. \A j \in 1 .. Len(s) - i : b[j] = s[i + j]
    BY <2>3, <2>5
  <2>. QED
    BY <2>3, <2>4, <2>6
<1>. HIDE DEF a, b
<1>5. RemoveAt(s, i) = a \o b
  BY DEF RemoveAt, a, b
<1>6. /\ a \o b \in Seq(S) /\ Len(a \o b) = Len(s) - 1
      /\ \A j \in 1 .. Len(s) - 1 : (a \o b)[j] = IF j <= i - 1 THEN a[j] ELSE b[j - (i - 1)]
  <2>1. /\ a \o b \in Seq(S) /\ Len(a \o b) = Len(a) + Len(b)
        /\ \A j \in 1 .. Len(a) + Len(b) :
             (a \o b)[j] = IF j <= Len(a) THEN a[j] ELSE b[j - Len(a)]
    BY <1>3, <1>4, ConcatProperties
  <2>2. Len(a) + Len(b) = Len(s) - 1
    BY <1>2, <1>3, <1>4
  <2>. QED
    BY <1>3, <2>1, <2>2
<1>7. DOMAIN (a \o b) = 1 .. Len(s) - 1
  BY <1>6, LenProperties
<1>8. ASSUME NEW x \in ToSet(a \o b) PROVE x \in ToSet(s)
  <2>1. PICK j \in 1 .. Len(s) - 1 : x = (a \o b)[j]
    BY <1>7, <1>8 DEF ToSet
  <2>2. CASE j <= i - 1
    <3>1. j \in 1 .. i - 1 /\ j \in 1 .. Len(s)
      BY <1>2, <2>2
    <3>2. x = s[j]
      BY <1>3, <1>6, <2>1, <2>2, <3>1
    <3>. QED
      BY <1>2, <3>1, <3>2 DEF ToSet
  <2>3. CASE ~(j <= i - 1)
    <3>1. j - (i - 1) \in 1 .. Len(s) - i /\ i + (j - (i - 1)) = j + 1 /\ j + 1 \in 1 .. Len(s)
      BY <1>2, <2>3
    <3>2. x = s[j + 1]
      BY <1>4, <1>6, <2>1, <2>3, <3>1
    <3>. QED
      BY <1>2, <3>1, <3>2 DEF ToSet
  <2>. QED
    BY <2>2, <2>3
<1>9. ASSUME NEW x \in ToSet(s), x # s[i] PROVE x \in ToSet(a \o b)
  <2>1. PICK j \in 1 .. Len(s) : x = s[j]
    BY <1>2, <1>9 DEF ToSet
  <2>2. CASE j < i
    <3>1. j \in 1 .. i - 1 /\ j \in 1 .. Len(s) - 1
      BY <1>2, <2>2
    <3>2. (a \o b)[j] = x
      BY <1>2, <1>3, <1>6, <2>1, <3>1
    <3>. QED
      BY <1>7, <3>1, <3>2 DEF ToSet
  <2>3. CASE j > i
    <3>1. j - 1 \in 1 .. Len(s) - 1 /\ ~(j - 1 <= i - 1) /\ j - i \in 1 .. Len(s) - i
          /\ (j - 1) - (i - 1) = j - i /\ i + (j - i) = j
      BY <1>2, <2>3
    <3>2. (a \o b)[j - 1] = b[j - i] /\ b[j - i] = s[j]
      BY <1>4, <1>6, <3>1
    <3>. QED
      BY <1>7, <2>1, <3>1, <3>2 DEF ToSet
  <2>. QED
    BY <1>2, <1>9, <2>1, <2>2, <2>3
<1>. QED
  BY <1>5, <1>6, <1>8, <1>9 DEF IsSeq

--------------------------------------------------------------------------------
(* Frames: what a step leaves alone *)

\* A step that keeps the maps and the catalogue keeps everything read from them.
LEMMA StoreKept ==
  ASSUME maps' = maps, catalog' = catalog
  PROVE  /\ Older' = Older /\ OlderKeys' = OlderKeys /\ ActiveKeys' = ActiveKeys
         /\ Catalogued' = Catalogued
         /\ StoreInv /\ refusals' = refusals => StoreInv'
<1>1. \A c : Current(c)' = Current(c)
  BY DEF Current
<1>2. \A c : Below(c)' = Below(c) /\ ActiveMap(c)' = ActiveMap(c)
  BY <1>1 DEF Below, ActiveMap, ActiveGen
<1>3. Older' = Older
  BY <1>2 DEF Older
<1>4. OlderKeys' = OlderKeys /\ ActiveKeys' = ActiveKeys
  BY <1>2, <1>3 DEF OlderKeys, ActiveKeys
<1>5. Catalogued' = Catalogued
  BY DEF Catalogued
<1>. QED
  BY <1>3, <1>4, <1>5 DEF StoreInv

\* An idle thread is in no walk, and neither is one that waits for the mutex.
LEMMA WalkingMeans ==
  ASSUME ReadInv, NEW t \in Thread
  PROVE  /\ Walking(t) => IsWalk(call[t]) /\ call[t] # IdleCall
         /\ call[t] = IdleCall => ~Walking(t)
         /\ call[t].pc = "wait" => t \in Reader /\ call[t] # IdleCall /\ ~Walking(t)
         /\ call[t] # IdleCall => call[t].pc \in {"wait", "walk", "probe"}
<1>1. \/ call[t] = IdleCall
      \/ t # Owner /\ call[t] = [pc |-> "wait", batch |-> call[t].batch]
      \/ IsWalk(call[t])
  BY DEF ReadInv, ThreadInv
<1>2. CASE call[t] = IdleCall
  BY <1>2 DEF IdleCall, Walking
<1>3. CASE t # Owner /\ call[t] = [pc |-> "wait", batch |-> call[t].batch]
  <2>1. call[t].pc = "wait"
    BY <1>3
  <2>2. t \in Reader
    BY <1>3 DEF Thread
  <2>. QED
    BY <2>1, <2>2 DEF IdleCall, Walking
<1>4. CASE IsWalk(call[t])
  BY <1>4 DEF IdleCall, Walking, IsWalk
<1>. QED
  BY <1>1, <1>2, <1>3, <1>4

\* One thread walks at a time.
LEMMA Alone ==
  ASSUME ReadInv, NEW t \in Thread, Walking(t), NEW u \in Thread, u # t
  PROVE  ~Walking(u)
<1>1. Walking(t) => call[t] # IdleCall
  BY WalkingMeans
<1>2. Walking(u) => call[u] # IdleCall
  BY WalkingMeans
<1>3. /\ \A r \in Reader : Walking(r) => lock = r
      /\ \A r \in Reader : call[r] # IdleCall => call[Owner] = IdleCall
  BY DEF ReadInv, ThreadInv
<1>. QED
  BY <1>1, <1>2, <1>3 DEF Thread

\* A step of one call that keeps the store: the other calls are as they were.
LEMMA CallFrame ==
  ASSUME ReadInv, NEW t \in Thread, NEW w,
         call' = [call EXCEPT ![t] = w], maps' = maps, catalog' = catalog, refusals' = refusals,
         cache' = cache \/ Walking(t),
         ThreadInv', CacheInv', Walking(t)' => WalkInv(t)'
  PROVE  ReadInv'
<1>1. StoreInv'
  BY StoreKept DEF ReadInv
<1>2. ASSUME NEW u \in Thread, Walking(u)' PROVE WalkInv(u)'
  <2>1. CASE u = t
    BY <1>2, <2>1
  <2>2. CASE u # t
    <3>1. call'[u] = call[u]
      BY <2>2 DEF ReadInv, ThreadInv
    <3>2. Walking(u)
      BY <1>2, <3>1 DEF Walking
    <3>3. cache' = cache
      BY <2>2, <3>2, Alone
    <3>4. WalkInv(u)
      BY <3>2 DEF ReadInv
    <3>5. Older' = Older /\ OlderKeys' = OlderKeys /\ ActiveKeys' = ActiveKeys
      BY StoreKept
    <3>6. Visits(u)'
      <4>1. Visits(u)
        BY <3>4 DEF WalkInv
      <4>. QED
        BY <3>1, <3>5, <4>1 DEF Visits, Complete
    <3>7. Settled(u)'
      <4>1. Settled(u)
        BY <3>4 DEF WalkInv
      <4>. QED
        BY <3>1, <3>5, <4>1 DEF Settled, Asked
    <3>. QED
      BY <3>1, <3>3, <3>4, <3>5, <3>6, <3>7 DEF WalkInv, Cached, InHand
  <2>. QED
    BY <2>1, <2>2
<1>. QED
  BY <1>1, <1>2 DEF ReadInv

\* A walk that goes on keeps the mutex.
LEMMA WalkGoesOn ==
  ASSUME ReadInv, NEW t \in Thread, Walking(t), NEW w,
         call' = [call EXCEPT ![t] = w], lock' = lock, IsWalk(w)
  PROVE  ThreadInv' /\ \A u \in Thread : u # t => ~Walking(u)'
<1>1. ThreadInv /\ call[t] # IdleCall
  BY WalkingMeans DEF ReadInv
<1>2. \A u \in Thread : call'[u] = IF u = t THEN w ELSE call[u]
  BY <1>1 DEF ThreadInv
<1>3. w # IdleCall /\ w.pc \in {"walk", "probe"}
  BY DEF IsWalk, IdleCall
<1>4. ThreadInv'
  <2>1. call' = [u \in Thread |-> call'[u]]
    BY <1>1 DEF ThreadInv
  <2>2. \A u \in Thread : \/ call'[u] = IdleCall
                          \/ u # Owner /\ call'[u] = [pc |-> "wait", batch |-> call'[u].batch]
                          \/ IsWalk(call'[u])
    <3>. SUFFICES ASSUME NEW u \in Thread
                  PROVE  \/ call'[u] = IdleCall
                         \/ u # Owner /\ call'[u] = [pc |-> "wait", batch |-> call'[u].batch]
                         \/ IsWalk(call'[u])
      OBVIOUS
    <3>1. CASE u = t
      BY <1>2, <3>1
    <3>2. CASE u # t
      <4>1. call'[u] = call[u]
        BY <1>2, <3>2
      <4>2. \/ call[u] = IdleCall
            \/ u # Owner /\ call[u] = [pc |-> "wait", batch |-> call[u].batch]
            \/ IsWalk(call[u])
        BY <1>1 DEF ThreadInv
      <4>. QED
        BY <4>1, <4>2
    <3>. QED
      BY <3>1, <3>2
  <2>3. \A r \in Reader : Walking(r)' => lock' = r
    BY <1>1, <1>2 DEF Walking, ThreadInv, Thread
  <2>4. \A r \in Reader : call'[r] # IdleCall => call'[Owner] = IdleCall
    BY <1>1, <1>2, ReadPathAssumption DEF ThreadInv, Thread
  <2>. QED
    BY <2>1, <2>2, <2>3, <2>4 DEF ThreadInv, IsWalk, Walking
<1>5. \A u \in Thread : u # t => ~Walking(u)'
  BY <1>2, Alone DEF Walking
<1>. QED
  BY <1>4, <1>5

\* A step of a walk that keeps the store and the mutex.
LEMMA WalkFrame ==
  ASSUME ReadInv, NEW t \in Thread, Walking(t), NEW w,
         call' = [call EXCEPT ![t] = w], maps' = maps, catalog' = catalog, refusals' = refusals,
         lock' = lock, IsWalk(w), CacheInv', WalkInv(t)'
  PROVE  ReadInv'
  BY WalkGoesOn, CallFrame

\* A call that returns, with the mutex or without having held it.
LEMMA ReturnFrame ==
  ASSUME ReadInv, NEW t \in Thread, call' = [call EXCEPT ![t] = IdleCall],
         maps' = maps, catalog' = catalog, refusals' = refusals, cache' = cache,
         lock' = lock \/ Walking(t)
  PROVE  ReadInv'
<1>1. ThreadInv /\ CacheInv
  BY DEF ReadInv
<1>2. \A u \in Thread : call'[u] = IF u = t THEN IdleCall ELSE call[u]
  BY <1>1 DEF ThreadInv
<1>3. ~Walking(t)'
  BY <1>2 DEF Walking, IdleCall
<1>4. ThreadInv'
  <2>1. call' = [u \in Thread |-> call'[u]]
    BY <1>1 DEF ThreadInv
  <2>2. \A u \in Thread : \/ call'[u] = IdleCall
                          \/ u # Owner /\ call'[u] = [pc |-> "wait", batch |-> call'[u].batch]
                          \/ IsWalk(call'[u])
    BY <1>1, <1>2 DEF ThreadInv, IsWalk
  <2>3. \A r \in Reader : Walking(r)' => lock' = r
    <3>. SUFFICES ASSUME NEW r \in Reader, Walking(r)' PROVE lock' = r
      OBVIOUS
    <3>1. r \in Thread /\ r # t /\ Walking(r)
      BY <1>2, <1>3 DEF Thread, Walking
    <3>2. ~Walking(t)
      BY <3>1, Alone
    <3>. QED
      BY <1>1, <3>1, <3>2 DEF ThreadInv
  <2>4. \A r \in Reader : call'[r] # IdleCall => call'[Owner] = IdleCall
    BY <1>1, <1>2 DEF ThreadInv, Thread
  <2>. QED
    BY <2>1, <2>2, <2>3, <2>4 DEF ThreadInv, IsWalk, Walking
<1>5. CacheInv'
  BY <1>1, StoreKept DEF CacheInv
<1>. QED
  BY <1>3, <1>4, <1>5, CallFrame

--------------------------------------------------------------------------------
(* The steps of a walk *)

\* The older generations of a class.
LEMMA BelowMeans ==
  ASSUME StoreInv, NEW c \in Class
  PROVE  /\ Older \subseteq Gen
         /\ \A g : g \in Below(c) <=> g \in Older /\ g[1] = c
<1>1. Older = {g \in Catalogued : g[2] # Current(g[1])}
  BY OlderMeans
<1>2. Older \subseteq Gen
  BY <1>1 DEF Catalogued
<1>3. ASSUME NEW g \in Below(c) PROVE g \in Older /\ g[1] = c
  BY <1>3 DEF Older, Below
<1>4. ASSUME NEW g \in Older, g[1] = c PROVE g \in Below(c)
  <2>1. g[2] \in catalog[c] /\ g[2] # Current(c) /\ g = <<c, g[2]>>
    BY <1>1, <1>4 DEF Catalogued, Gen
  <2>. QED
    BY <2>1 DEF Below
<1>. QED
  BY <1>2, <1>3, <1>4

\* Where a walk stands: its fields, and the file in hand.
LEMMA WalkFacts ==
  ASSUME ReadInv, NEW t \in Thread, Walking(t)
  PROVE  /\ StoreInv /\ ThreadInv /\ CacheInv /\ IsWalk(call[t]) /\ WalkInv(t)
         /\ call[t].next \in Nat /\ call[t].todo \subseteq Older /\ Older \subseteq Gen
         /\ call[t].todo # {} => InHand(t) \in call[t].todo
<1>1. StoreInv /\ ThreadInv /\ CacheInv /\ WalkInv(t)
  BY DEF ReadInv
<1>2. IsWalk(call[t])
  BY WalkingMeans
<1>3. call[t].todo \subseteq Older /\ call[t].next \in Nat
  BY <1>1, Bounds DEF WalkInv
<1>4. Older \subseteq Gen
  BY <1>1, OlderMeans DEF Catalogued
<1>5. call[t].todo # {} => InHand(t) \in call[t].todo
  BY <1>3, <1>4, FirstMember DEF InHand
<1>. QED
  BY <1>1, <1>2, <1>3, <1>4, <1>5

\* A class is listed: what it has left to search joins the list.
LEMMA ListClassKeeps == ASSUME ReadInv, NEW t \in Thread, ListClass(t) PROVE ReadInv'
<1>. DEFINE w == [call[t] EXCEPT !.todo = Remaining(t, call[t].next), !.next = @ + 1]
<1>1. /\ call[t].pc = "walk" /\ call[t].todo = {} /\ call[t].next < Classes
      /\ call' = [call EXCEPT ![t] = w] /\ maps' = maps /\ catalog' = catalog
      /\ refusals' = refusals /\ cache' = cache /\ lock' = lock
  BY DEF ListClass, Becomes, store
<1>2. Walking(t)
  BY <1>1 DEF Walking
<1>3. /\ StoreInv /\ ThreadInv /\ CacheInv /\ IsWalk(call[t]) /\ WalkInv(t)
      /\ call[t].next \in Nat /\ call[t].todo \subseteq Older /\ Older \subseteq Gen
  BY <1>2, WalkFacts
<1>4. /\ IsWalk(w) /\ w.pc = "walk" /\ w.todo = Remaining(t, call[t].next)
      /\ w.next = call[t].next + 1 /\ w.batch = call[t].batch /\ w.seen = call[t].seen
      /\ w.pending = call[t].pending /\ w.found = call[t].found /\ w.failure = call[t].failure
  BY <1>1, <1>3 DEF IsWalk, Field
<1>. HIDE DEF w
<1>5. call'[t] = w
  BY <1>1, <1>3 DEF ThreadInv
<1>6. Older' = Older /\ OlderKeys' = OlderKeys /\ ActiveKeys' = ActiveKeys
  BY <1>1, StoreKept
<1>7. CacheInv'
  BY <1>1, <1>3, <1>6 DEF CacheInv
<1>8. call[t].next \in Class /\ w.next \in 0 .. Classes
  BY <1>1, <1>3, <1>4, Bounds DEF Class
<1>9. Visits(t)'
  <2>1. SUFFICES ASSUME w.failure = "none", NEW g \in Older
                 PROVE  \/ g \in w.todo
                        \/ g[1] >= w.next /\ g \notin w.seen
                        \/ \A x \in maps[g].keys : x \notin w.pending
    BY <1>1, <1>5, <1>6 DEF Visits, Complete
  <2>2. Visits(t)
    BY <1>3 DEF WalkInv
  <2>3. \/ g \in call[t].todo
        \/ g[1] >= call[t].next /\ g \notin call[t].seen
        \/ \A x \in maps[g].keys : x \notin call[t].pending
    BY <1>4, <2>1, <2>2 DEF Visits, Complete
  <2>4. g[1] \in Nat
    BY <1>3, Bounds DEF Gen
  <2>5. CASE g[1] = call[t].next /\ g \notin call[t].seen
    <3>1. g \in Below(call[t].next)
      BY <1>3, <1>8, <2>5, BelowMeans
    <3>. QED
      BY <1>4, <2>5, <3>1 DEF Remaining
  <2>6. CASE g[1] >= call[t].next /\ g[1] # call[t].next /\ g \notin call[t].seen
    BY <1>3, <1>4, <2>4, <2>6
  <2>7. CASE \A x \in maps[g].keys : x \notin call[t].pending
    BY <1>4, <2>7
  <2>. QED
    BY <1>1, <2>3, <2>5, <2>6, <2>7
<1>10. Settled(t)'
  <2>1. Settled(t)
    BY <1>3 DEF WalkInv
  <2>. QED
    BY <1>4, <1>5, <1>6, <2>1 DEF Settled, Asked
<1>11. w.todo \subseteq Older
  BY <1>3, <1>4, <1>8, BelowMeans DEF Remaining
<1>12. WalkInv(t)'
  BY <1>3, <1>4, <1>5, <1>6, <1>8, <1>9, <1>10, <1>11 DEF WalkInv
<1>. QED
  BY <1>1, <1>2, <1>4, <1>7, <1>12, WalkFrame

\* A class that cannot be listed: the walk is no longer complete.
LEMMA ListFailsKeeps == ASSUME ReadInv, NEW t \in Thread, ListFails(t) PROVE ReadInv'
<1>. DEFINE w == [call[t] EXCEPT !.next = @ + 1, !.failure = "catalog_unreadable"]
<1>1. /\ call[t].pc = "walk" /\ call[t].todo = {} /\ call[t].next < Classes
      /\ call' = [call EXCEPT ![t] = w] /\ maps' = maps /\ catalog' = catalog
      /\ refusals' = refusals /\ cache' = cache /\ lock' = lock
  BY DEF ListFails, Becomes, store
<1>2. Walking(t)
  BY <1>1 DEF Walking
<1>3. /\ StoreInv /\ ThreadInv /\ CacheInv /\ IsWalk(call[t]) /\ WalkInv(t)
      /\ call[t].next \in Nat
  BY <1>2, WalkFacts
<1>4. /\ IsWalk(w) /\ w.pc = "walk" /\ w.todo = call[t].todo
      /\ w.next = call[t].next + 1 /\ w.batch = call[t].batch /\ w.seen = call[t].seen
      /\ w.pending = call[t].pending /\ w.found = call[t].found /\ w.failure # "none"
  BY <1>1, <1>3 DEF IsWalk, Field
<1>. HIDE DEF w
<1>5. call'[t] = w
  BY <1>1, <1>3 DEF ThreadInv
<1>6. Older' = Older /\ OlderKeys' = OlderKeys /\ ActiveKeys' = ActiveKeys
  BY <1>1, StoreKept
<1>7. CacheInv'
  BY <1>1, <1>3, <1>6 DEF CacheInv
<1>8. w.next \in 0 .. Classes
  BY <1>1, <1>3, <1>4, Bounds
<1>9. Visits(t)'
  BY <1>4, <1>5 DEF Visits, Complete
<1>10. Settled(t)'
  <2>1. Settled(t)
    BY <1>3 DEF WalkInv
  <2>. QED
    BY <1>4, <1>5, <1>6, <2>1 DEF Settled, Asked
<1>11. WalkInv(t)'
  BY <1>3, <1>4, <1>5, <1>6, <1>8, <1>9, <1>10 DEF WalkInv
<1>. QED
  BY <1>1, <1>2, <1>4, <1>7, <1>11, WalkFrame

\* A step that answers nothing: the list stays as it is, or loses a file and the
\* walk is no longer complete.
LEMMA NothingAnswered ==
  ASSUME ReadInv, NEW t \in Thread, Walking(t), NEW w,
         call' = [call EXCEPT ![t] = w], maps' = maps, catalog' = catalog, refusals' = refusals,
         lock' = lock, CacheInv', IsWalk(w),
         w.batch = call[t].batch, w.seen = call[t].seen, w.next = call[t].next,
         w.pending = call[t].pending, w.found = call[t].found,
         \/ w.todo = call[t].todo /\ w.failure = call[t].failure
         \/ w.todo \subseteq call[t].todo /\ w.failure # "none",
         w.pc = "probe" => w.todo # {} /\ FirstOf(w.todo) \in ToSet(cache')
  PROVE  ReadInv'
<1>1. /\ StoreInv /\ ThreadInv /\ CacheInv /\ WalkInv(t) /\ call[t].todo \subseteq Older
  BY WalkFacts
<1>2. call'[t] = w
  BY <1>1 DEF ThreadInv
<1>3. Older' = Older /\ OlderKeys' = OlderKeys /\ ActiveKeys' = ActiveKeys
  BY StoreKept
<1>4. Visits(t)'
  <2>1. Visits(t)
    BY <1>1 DEF WalkInv
  <2>. QED
    BY <1>2, <1>3, <2>1 DEF Visits, Complete
<1>5. Settled(t)'
  <2>1. Settled(t)
    BY <1>1 DEF WalkInv
  <2>. QED
    BY <1>2, <1>3, <2>1 DEF Settled, Asked
<1>6. WalkInv(t)'
  <2>1. w.todo \subseteq Older
    BY <1>1
  <2>2. w.pc = "probe" => w.todo # {} /\ Cached(InHand(t))'
    BY <1>2 DEF Cached, InHand
  <2>. QED
    BY <1>1, <1>2, <1>3, <1>4, <1>5, <2>1, <2>2 DEF WalkInv
<1>. QED
  BY <1>6, WalkFrame

\* What the cache is once room was made: a file shorter when it was full.
LEMMA EvictedFacts ==
  ASSUME CacheInv
  PROVE  /\ IsSeq(Evicted) /\ ToSet(Evicted) \subseteq ToSet(cache)
         /\ Len(Evicted) \in Nat /\ Len(Evicted) < MaxCached
<1>1. IsSeq(cache) /\ Len(cache) <= MaxCached /\ Len(cache) \in Nat /\ MaxCached \in Nat \ {0}
  BY SeqFacts, ReadPathAssumption DEF CacheInv
<1>2. CASE Len(cache) >= MaxCached
  <2>1. Len(cache) = MaxCached /\ Len(cache) # 0
    BY <1>1, <1>2
  <2>2. cache # <<>>
    BY <2>1, EmptySeq
  <2>3. /\ IsSeq(Tail(cache)) /\ Len(Tail(cache)) = Len(cache) - 1
        /\ ToSet(Tail(cache)) \subseteq ToSet(cache)
    BY <1>1, <2>2, TailFacts
  <2>. QED
    BY <1>1, <1>2, <2>1, <2>3 DEF Evicted
<1>3. CASE ~(Len(cache) >= MaxCached)
  BY <1>1, <1>3 DEF Evicted
<1>. QED
  BY <1>2, <1>3

\* The call once a mapping was handed out.
LEMMA HandedFacts ==
  ASSUME NEW t, NEW hit, IsWalk(call[t])
  PROVE  LET w == Handed(t, hit)
         IN /\ IsWalk(w) /\ w.pc = "probe" /\ w.batch = call[t].batch /\ w.seen = call[t].seen
            /\ w.next = call[t].next /\ w.pending = call[t].pending /\ w.found = call[t].found
            /\ w.todo = call[t].todo /\ w.failure = call[t].failure
            /\ w.tally = Opened(call[t].tally, InHand(t)[1], hit)
<1>. DEFINE e == Opened(call[t].tally, InHand(t)[1], hit)
<1>1. Handed(t, hit) = [call[t] EXCEPT !.pc = "probe", !.tally = e]
  BY DEF Handed
<1>. HIDE DEF e
<1>2. LET w == Handed(t, hit)
      IN /\ IsWalk(w) /\ w.pc = "probe" /\ w.batch = call[t].batch /\ w.seen = call[t].seen
         /\ w.next = call[t].next /\ w.pending = call[t].pending /\ w.found = call[t].found
         /\ w.todo = call[t].todo /\ w.failure = call[t].failure /\ w.tally = e
  BY <1>1 DEF IsWalk, Field
<1>. QED
  BY <1>2 DEF e

\* A file that is mapped already becomes the most recently used one.
LEMMA CacheHitKeeps == ASSUME ReadInv, NEW t \in Thread, CacheHit(t) PROVE ReadInv'
<1>1. /\ call[t].pc = "walk" /\ call[t].todo # {} /\ InHand(t) \in ToSet(cache)
      /\ cache' = Append(Without(InHand(t)), InHand(t))
      /\ call' = [call EXCEPT ![t] = Handed(t, TRUE)] /\ maps' = maps /\ catalog' = catalog
      /\ refusals' = refusals /\ lock' = lock
  BY DEF CacheHit, Probing, Cached, Becomes, store
<1>2. Walking(t)
  BY <1>1 DEF Walking
<1>3. /\ StoreInv /\ ThreadInv /\ CacheInv /\ IsWalk(call[t])
      /\ call[t].todo \subseteq Older /\ InHand(t) \in call[t].todo
  BY <1>1, <1>2, WalkFacts
<1>4. IsSeq(cache) /\ Len(cache) \in Nat /\ DOMAIN cache = 1 .. Len(cache)
  BY <1>3, SeqFacts DEF CacheInv
<1>. DEFINE i == CHOOSE i \in DOMAIN cache : cache[i] = InHand(t)
<1>5. i \in 1 .. Len(cache) /\ cache[i] = InHand(t)
  BY <1>1, <1>4 DEF ToSet
<1>6. Without(InHand(t)) = RemoveAt(cache, i)
  BY DEF Without
<1>. HIDE DEF i
<1>7. /\ IsSeq(RemoveAt(cache, i)) /\ Len(RemoveAt(cache, i)) = Len(cache) - 1
      /\ ToSet(RemoveAt(cache, i)) \subseteq ToSet(cache)
  <2>1. /\ IsSeq(RemoveAt(cache, i)) /\ Len(RemoveAt(cache, i)) = Len(cache) - 1
        /\ ToSet(cache) \subseteq ToSet(RemoveAt(cache, i)) \cup {cache[i]}
        /\ ToSet(RemoveAt(cache, i)) \subseteq ToSet(cache)
    BY <1>4, <1>5, RemoveFacts, Zenon
  <2>. QED
    BY <2>1
<1>8. /\ IsSeq(cache') /\ Len(cache') = Len(RemoveAt(cache, i)) + 1
      /\ ToSet(cache') = ToSet(RemoveAt(cache, i)) \cup {InHand(t)}
  BY <1>1, <1>6, <1>7, AppendFacts
<1>9. CacheInv'
  <2>1. Older' = Older
    BY <1>1, StoreKept
  <2>2. Len(cache') = Len(cache)
    BY <1>4, <1>7, <1>8
  <2>3. ToSet(cache') \subseteq Older
    BY <1>1, <1>3, <1>7, <1>8 DEF CacheInv
  <2>. QED
    BY <1>3, <1>8, <2>1, <2>2, <2>3 DEF CacheInv
<1>. DEFINE w == Handed(t, TRUE)
<1>10. /\ IsWalk(w) /\ w.pc = "probe" /\ w.batch = call[t].batch /\ w.seen = call[t].seen
       /\ w.next = call[t].next /\ w.pending = call[t].pending /\ w.found = call[t].found
       /\ w.todo = call[t].todo /\ w.failure = call[t].failure
  BY <1>3, HandedFacts
<1>11. call' = [call EXCEPT ![t] = w]
  BY <1>1
<1>. HIDE DEF w
<1>12. w.todo # {} /\ FirstOf(w.todo) \in ToSet(cache')
  BY <1>1, <1>8, <1>10 DEF InHand
<1>. QED
  BY <1>1, <1>2, <1>9, <1>10, <1>11, <1>12, NothingAnswered

\* A file that is not mapped takes the place of the least recently used one.
LEMMA OpenFileKeeps == ASSUME ReadInv, NEW t \in Thread, OpenFile(t) PROVE ReadInv'
<1>1. /\ call[t].pc = "walk" /\ call[t].todo # {}
      /\ cache' = Append(Evicted, InHand(t))
      /\ call' = [call EXCEPT ![t] = Handed(t, FALSE)] /\ maps' = maps /\ catalog' = catalog
      /\ refusals' = refusals /\ lock' = lock
  BY DEF OpenFile, Probing, Becomes, store
<1>2. Walking(t)
  BY <1>1 DEF Walking
<1>3. /\ StoreInv /\ ThreadInv /\ CacheInv /\ IsWalk(call[t])
      /\ call[t].todo \subseteq Older /\ InHand(t) \in call[t].todo
  BY <1>1, <1>2, WalkFacts
<1>4. /\ IsSeq(Evicted) /\ ToSet(Evicted) \subseteq ToSet(cache)
      /\ Len(Evicted) \in Nat /\ Len(Evicted) < MaxCached
  BY <1>3, EvictedFacts
<1>5. /\ IsSeq(cache') /\ Len(cache') = Len(Evicted) + 1
      /\ ToSet(cache') = ToSet(Evicted) \cup {InHand(t)}
  BY <1>1, <1>4, AppendFacts
<1>6. CacheInv'
  <2>1. Older' = Older
    BY <1>1, StoreKept
  <2>2. Len(cache') <= MaxCached
    BY <1>4, <1>5, ReadPathAssumption
  <2>3. ToSet(cache') \subseteq Older
    BY <1>3, <1>4, <1>5 DEF CacheInv
  <2>. QED
    BY <1>5, <2>1, <2>2, <2>3 DEF CacheInv
<1>. DEFINE w == Handed(t, FALSE)
<1>7. /\ IsWalk(w) /\ w.pc = "probe" /\ w.batch = call[t].batch /\ w.seen = call[t].seen
      /\ w.next = call[t].next /\ w.pending = call[t].pending /\ w.found = call[t].found
      /\ w.todo = call[t].todo /\ w.failure = call[t].failure
  BY <1>3, HandedFacts
<1>8. call' = [call EXCEPT ![t] = w]
  BY <1>1
<1>. HIDE DEF w
<1>9. w.todo # {} /\ FirstOf(w.todo) \in ToSet(cache')
  BY <1>1, <1>5, <1>7 DEF InHand
<1>. QED
  BY <1>1, <1>2, <1>6, <1>7, <1>8, <1>9, NothingAnswered

\* A file that does not open: room was made for it all the same.
LEMMA OpenFailsKeeps == ASSUME ReadInv, NEW t \in Thread, OpenFails(t) PROVE ReadInv'
<1>. DEFINE w == [call[t] EXCEPT !.todo = @ \ {InHand(t)},
                                 !.failure = IF @ = "none" THEN "version_unreadable" ELSE @]
<1>1. /\ call[t].pc = "walk" /\ cache' = Evicted
      /\ call' = [call EXCEPT ![t] = w] /\ maps' = maps /\ catalog' = catalog
      /\ refusals' = refusals /\ lock' = lock
  BY DEF OpenFails, Probing, Becomes, store
<1>2. Walking(t)
  BY <1>1 DEF Walking
<1>3. CacheInv /\ IsWalk(call[t])
  BY <1>2, WalkFacts
<1>4. /\ IsSeq(Evicted) /\ ToSet(Evicted) \subseteq ToSet(cache)
      /\ Len(Evicted) \in Nat /\ Len(Evicted) < MaxCached
  BY <1>3, EvictedFacts
<1>5. CacheInv'
  <2>1. Older' = Older
    BY <1>1, StoreKept
  <2>2. Len(cache') <= MaxCached
    BY <1>1, <1>4, ReadPathAssumption
  <2>3. ToSet(cache') \subseteq Older
    BY <1>1, <1>3, <1>4 DEF CacheInv
  <2>. QED
    BY <1>1, <1>4, <2>1, <2>2, <2>3 DEF CacheInv
<1>6. /\ IsWalk(w) /\ w.pc = "walk" /\ w.batch = call[t].batch /\ w.seen = call[t].seen
      /\ w.next = call[t].next /\ w.pending = call[t].pending /\ w.found = call[t].found
      /\ w.todo \subseteq call[t].todo /\ w.failure # "none"
  BY <1>1, <1>3 DEF IsWalk, Field
<1>. HIDE DEF w
<1>7. ~(w.pc = "probe")
  BY <1>6
<1>. QED
  BY <1>1, <1>2, <1>5, <1>6, <1>7, NothingAnswered

\* An exception while a file is read: none of it counts.
LEMMA ReadFailsKeeps == ASSUME ReadInv, NEW r \in Reader, ReadFails(r) PROVE ReadInv'
<1>. DEFINE w == [call[r] EXCEPT !.pc = "walk", !.todo = @ \ {InHand(r)},
                                 !.failure = IF @ = "none" THEN "version_unreadable" ELSE @]
<1>1. /\ call[r].pc = "probe" /\ cache' = cache
      /\ call' = [call EXCEPT ![r] = w] /\ maps' = maps /\ catalog' = catalog
      /\ refusals' = refusals /\ lock' = lock
  BY DEF ReadFails, Becomes, store
<1>2. Walking(r) /\ r \in Thread
  BY <1>1 DEF Walking, Thread
<1>3. CacheInv /\ IsWalk(call[r])
  BY <1>2, WalkFacts
<1>4. CacheInv'
  BY <1>1, <1>3, StoreKept DEF CacheInv
<1>5. /\ IsWalk(w) /\ w.pc = "walk" /\ w.batch = call[r].batch /\ w.seen = call[r].seen
      /\ w.next = call[r].next /\ w.pending = call[r].pending /\ w.found = call[r].found
      /\ w.todo \subseteq call[r].todo /\ w.failure # "none"
  <2>. DEFINE e == IF call[r].failure = "none" THEN "version_unreadable" ELSE call[r].failure
              a == call[r].todo \ {InHand(r)}
  <2>1. w = [call[r] EXCEPT !.pc = "walk", !.todo = a, !.failure = e]
    OBVIOUS
  <2>2. e # "none" /\ a \subseteq call[r].todo
    OBVIOUS
  <2>. HIDE DEF e, a, w
  <2>. QED
    BY <1>3, <2>1, <2>2 DEF IsWalk, Field
<1>. HIDE DEF w
<1>6. ~(w.pc = "probe")
  BY <1>5
<1>. QED
  BY <1>1, <1>2, <1>4, <1>5, <1>6, NothingAnswered

\* The call once the file in hand was searched.
LEMMA AnsweredFacts ==
  ASSUME NEW t, NEW hits, IsWalk(call[t])
  PROVE  LET w == Answered(t, hits)
         IN /\ IsWalk(w) /\ w.pc = "walk" /\ w.batch = call[t].batch /\ w.seen = call[t].seen
            /\ w.next = call[t].next /\ w.failure = call[t].failure
            /\ w.todo = call[t].todo \ {InHand(t)}
            /\ w.pending = call[t].pending \ hits /\ w.found = call[t].found \cup hits
            /\ w.tally = Credited(call[t].tally, InHand(t), Cardinality(hits))
<1>. DEFINE e == Credited(call[t].tally, InHand(t), Cardinality(hits))
            a == call[t].todo \ {InHand(t)}
            b == call[t].found \cup hits
            c == call[t].pending \ hits
<1>1. Answered(t, hits) = [call[t] EXCEPT !.pc = "walk", !.todo = a, !.found = b,
                                          !.pending = c, !.tally = e]
  BY DEF Answered
<1>. HIDE DEF a, b, c, e
<1>2. LET w == Answered(t, hits)
      IN /\ IsWalk(w) /\ w.pc = "walk" /\ w.batch = call[t].batch /\ w.seen = call[t].seen
         /\ w.next = call[t].next /\ w.failure = call[t].failure
         /\ w.todo = a /\ w.pending = c /\ w.found = b /\ w.tally = e
  BY <1>1 DEF IsWalk, Field
<1>. QED
  BY <1>2 DEF a, b, c, e

\* A file is read: the keys it holds are found and no longer looked for.
LEMMA ReadFileKeeps == ASSUME ReadInv, NEW r \in Reader, ReadFile(r) PROVE ReadInv'
<1>. DEFINE w == Answered(r, Hits(r))
<1>1. /\ call[r].pc = "probe" /\ cache' = cache
      /\ call' = [call EXCEPT ![r] = w] /\ maps' = maps /\ catalog' = catalog
      /\ refusals' = refusals /\ lock' = lock
  BY DEF ReadFile, Becomes, store
<1>2. Walking(r) /\ r \in Thread /\ r # Owner
  BY <1>1, ReadPathAssumption DEF Walking, Thread
<1>3. /\ StoreInv /\ ThreadInv /\ CacheInv /\ IsWalk(call[r]) /\ WalkInv(r)
      /\ call[r].todo \subseteq Older /\ InHand(r) \in Older
  BY <1>1, <1>2, WalkFacts DEF WalkInv
<1>4. /\ IsWalk(w) /\ w.pc = "walk" /\ w.batch = call[r].batch /\ w.seen = call[r].seen
      /\ w.next = call[r].next /\ w.failure = call[r].failure
      /\ w.todo = call[r].todo \ {InHand(r)}
      /\ w.pending = call[r].pending \ Hits(r) /\ w.found = call[r].found \cup Hits(r)
  BY <1>3, AnsweredFacts
<1>. HIDE DEF w
<1>5. call'[r] = w
  BY <1>1, <1>2, <1>3 DEF ThreadInv
<1>6. Older' = Older /\ OlderKeys' = OlderKeys /\ ActiveKeys' = ActiveKeys
  BY <1>1, StoreKept
<1>7. CacheInv'
  BY <1>1, <1>3, <1>6 DEF CacheInv
<1>8. Visits(r)'
  <2>1. SUFFICES ASSUME w.failure = "none", NEW g \in Older
                 PROVE  \/ g \in w.todo
                        \/ g[1] >= w.next /\ g \notin w.seen
                        \/ \A x \in maps[g].keys : x \notin w.pending
    BY <1>1, <1>5, <1>6 DEF Visits, Complete
  <2>2. Visits(r)
    BY <1>3 DEF WalkInv
  <2>3. \/ g \in call[r].todo
        \/ g[1] >= call[r].next /\ g \notin call[r].seen
        \/ \A x \in maps[g].keys : x \notin call[r].pending
    BY <1>4, <2>1, <2>2 DEF Visits, Complete
  <2>4. CASE g = InHand(r)
    BY <1>4, <2>4 DEF Hits
  <2>5. CASE g # InHand(r)
    BY <1>4, <2>3, <2>5
  <2>. QED
    BY <2>4, <2>5
<1>9. Settled(r)'
  <2>1. Settled(r)
    BY <1>3 DEF WalkInv
  <2>2. /\ call[r].pending \subseteq Asked(r) /\ call[r].found = Asked(r) \ call[r].pending
        /\ call[r].found \subseteq OlderKeys
    BY <1>2, <2>1 DEF Settled
  <2>3. Hits(r) \subseteq call[r].pending /\ Hits(r) \subseteq OlderKeys
    BY <1>3 DEF Hits, OlderKeys
  <2>4. Asked(r)' = Asked(r)
    BY <1>4, <1>5 DEF Asked
  <2>5. /\ w.pending \subseteq Asked(r) /\ w.found = Asked(r) \ w.pending
        /\ w.found \subseteq OlderKeys
    BY <1>4, <2>2, <2>3
  <2>. QED
    BY <1>2, <1>5, <1>6, <2>4, <2>5 DEF Settled
<1>10. WalkInv(r)'
  BY <1>3, <1>4, <1>5, <1>6, <1>8, <1>9 DEF WalkInv
<1>. QED
  BY <1>1, <1>2, <1>4, <1>7, <1>10, WalkFrame

--------------------------------------------------------------------------------
(* The calls of the readers *)

\* resolve() is called: it waits for the mutex.
LEMMA ResolveKeeps ==
  ASSUME ReadInv, NEW r \in Reader, NEW batch \in Batches, Resolve(r, batch) PROVE ReadInv'
<1>. DEFINE w == [pc |-> "wait", batch |-> batch]
<1>1. /\ call[r] = IdleCall /\ call[Owner] = IdleCall
      /\ call' = [call EXCEPT ![r] = w] /\ cache' = cache /\ maps' = maps /\ catalog' = catalog
      /\ refusals' = refusals /\ lock' = lock
  BY DEF Resolve, Becomes, store
<1>2. w.pc = "wait" /\ w = [pc |-> "wait", batch |-> w.batch]
  OBVIOUS
<1>. HIDE DEF w
<1>3. ThreadInv /\ CacheInv /\ r \in Thread /\ r # Owner
  BY ReadPathAssumption DEF ReadInv, Thread
<1>4. \A u \in Thread : call'[u] = IF u = r THEN w ELSE call[u]
  BY <1>1, <1>3 DEF ThreadInv
<1>5. ~Walking(r)'
  BY <1>2, <1>3, <1>4 DEF Walking
<1>6. ThreadInv'
  <2>1. call' = [u \in Thread |-> call'[u]]
    BY <1>1, <1>3 DEF ThreadInv
  <2>2. \A u \in Thread : \/ call'[u] = IdleCall
                          \/ u # Owner /\ call'[u] = [pc |-> "wait", batch |-> call'[u].batch]
                          \/ IsWalk(call'[u])
    BY <1>2, <1>3, <1>4 DEF ThreadInv, IsWalk
  <2>3. \A u \in Reader : Walking(u)' => lock' = u
    BY <1>1, <1>3, <1>4, <1>5 DEF ThreadInv, Walking, Thread
  <2>4. call'[Owner] = IdleCall
    BY <1>1, <1>3, <1>4 DEF Thread
  <2>. QED
    BY <2>1, <2>2, <2>3, <2>4 DEF ThreadInv, IsWalk, Walking
<1>7. CacheInv'
  BY <1>1, <1>3, StoreKept DEF CacheInv
<1>. QED
  BY <1>1, <1>3, <1>5, <1>6, <1>7, CallFrame

\* A walk that begins has every older generation before it.
LEMMA WalkBegins ==
  ASSUME NEW batch, NEW pending
  PROVE  LET w == Walk(batch, pending)
         IN /\ IsWalk(w) /\ w.pc = "walk" /\ w.batch = batch /\ w.seen = ToSet(cache)
            /\ w.todo = ToSet(cache) /\ w.next = 0 /\ w.pending = pending /\ w.found = {}
            /\ w.tally = NoTally
  BY DEF Walk, IsWalk, Field

\* The mutex is free: nobody walks, and the call begins its walk.
LEMMA TakeLockKeeps == ASSUME ReadInv, NEW r \in Reader, TakeLock(r) PROVE ReadInv'
<1>. DEFINE w == Walk(call[r].batch, WorkingSet(call[r].batch))
<1>1. /\ call[r].pc = "wait" /\ lock = NoThread /\ lock' = r
      /\ call' = [call EXCEPT ![r] = w] /\ cache' = cache /\ maps' = maps /\ catalog' = catalog
      /\ refusals' = refusals
  BY DEF TakeLock, Becomes, store
<1>2. /\ IsWalk(w) /\ w.pc = "walk" /\ w.batch = call[r].batch /\ w.seen = ToSet(cache)
      /\ w.todo = ToSet(cache) /\ w.next = 0 /\ w.pending = WorkingSet(call[r].batch)
      /\ w.found = {}
  BY WalkBegins
<1>. HIDE DEF w
<1>3. StoreInv /\ ThreadInv /\ CacheInv /\ r \in Thread /\ r # Owner
  BY ReadPathAssumption DEF ReadInv, Thread
<1>4. call[r] # IdleCall /\ call[Owner] = IdleCall
  <2>1. call[r] # IdleCall
    BY <1>1, <1>3, WalkingMeans
  <2>. QED
    BY <1>3, <2>1 DEF ThreadInv
<1>5. \A u \in Thread : call'[u] = IF u = r THEN w ELSE call[u]
  BY <1>1, <1>3 DEF ThreadInv
<1>6. ThreadInv'
  <2>1. call' = [u \in Thread |-> call'[u]]
    BY <1>1, <1>3 DEF ThreadInv
  <2>2. \A u \in Thread : \/ call'[u] = IdleCall
                          \/ u # Owner /\ call'[u] = [pc |-> "wait", batch |-> call'[u].batch]
                          \/ IsWalk(call'[u])
    BY <1>2, <1>3, <1>5 DEF ThreadInv, IsWalk
  <2>3. \A u \in Reader : Walking(u)' => lock' = u
    <3>. SUFFICES ASSUME NEW u \in Reader, Walking(u)', u # r PROVE FALSE
      BY <1>1
    <3>1. u \in Thread /\ Walking(u)
      BY <1>5 DEF Thread, Walking
    <3>. QED
      BY <1>1, <1>3, <3>1, ReadPathAssumption DEF ThreadInv
  <2>4. call'[Owner] = IdleCall
    BY <1>3, <1>4, <1>5 DEF Thread
  <2>. QED
    BY <2>1, <2>2, <2>3, <2>4 DEF ThreadInv, IsWalk, Walking
<1>7. Older' = Older /\ OlderKeys' = OlderKeys /\ CacheInv'
  BY <1>1, <1>3, StoreKept DEF CacheInv
<1>8. call'[r] = w
  BY <1>3, <1>5
<1>9. Visits(r)'
  <2>1. \A g \in Older : g[1] >= 0
    <3>1. Older \subseteq Gen
      BY <1>3, OlderMeans DEF Catalogued
    <3>2. ASSUME NEW g \in Older PROVE g[1] \in Nat
      BY <3>1, <3>2, Bounds DEF Gen
    <3>3. \A n \in Nat : n >= 0
      OBVIOUS
    <3>. QED
      BY <3>2, <3>3
  <2>. QED
    BY <1>2, <1>7, <1>8, <2>1 DEF Visits
<1>10. Settled(r)'
  BY <1>2, <1>3, <1>7, <1>8 DEF Settled, Asked
<1>11. WalkInv(r)'
  BY <1>2, <1>3, <1>7, <1>8, <1>9, <1>10, Bounds DEF WalkInv, CacheInv
<1>. QED
  BY <1>1, <1>3, <1>6, <1>7, <1>11, CallFrame

\* The calls of a reader that return, or never begin a walk.
LEMMA ReaderReturns ==
  ASSUME ReadInv, NEW r \in Reader, NothingAsked(r) \/ Conclude(r) PROVE ReadInv'
<1>1. r \in Thread
  BY DEF Thread
<1>2. CASE NothingAsked(r)
  BY <1>1, <1>2, ReturnFrame DEF NothingAsked, Becomes, store
<1>3. CASE Conclude(r)
  <2>1. Walking(r)
    BY <1>3 DEF Conclude, WalkEnds, Walking
  <2>. QED
    BY <1>1, <1>3, <2>1, ReturnFrame DEF Conclude, Becomes, store
<1>. QED
  BY <1>2, <1>3

\* apply_deletes returns.
LEMMA DeletesDoneKeeps == ASSUME ReadInv, DeletesDone PROVE ReadInv'
<1>1. Owner \in Thread
  BY DEF Thread
<1>. QED
  BY <1>1, ReturnFrame DEF DeletesDone, Becomes, store

\* Steps that touch neither the store, the cache, the mutex nor a call.
LEMMA UntouchedKeeps ==
  ASSUME ReadInv, maps' = maps, catalog' = catalog, refusals' = refusals, cache' = cache,
         lock' = lock, call' = call
  PROVE  ReadInv'
<1>1. StoreInv' /\ Older' = Older /\ OlderKeys' = OlderKeys /\ ActiveKeys' = ActiveKeys
  BY StoreKept DEF ReadInv
<1>2. ThreadInv' /\ CacheInv'
  BY <1>1 DEF ReadInv, ThreadInv, CacheInv, Walking, IsWalk
<1>3. ASSUME NEW t \in Thread, Walking(t)' PROVE WalkInv(t)'
  <2>1. WalkInv(t)
    BY <1>3 DEF ReadInv, Walking
  <2>2. Visits(t)' /\ Settled(t)'
    BY <1>1, <2>1 DEF WalkInv, Visits, Settled, Complete, Asked
  <2>. QED
    BY <1>1, <2>1, <2>2 DEF WalkInv, Cached, InHand
<1>. QED
  BY <1>1, <1>2, <1>3 DEF ReadInv

--------------------------------------------------------------------------------
(* The calls of the owner *)

\* While the owner may call, nobody is in a walk: what it has to keep is the store
\* and the cache.
LEMMA OwnerFrame ==
  ASSUME ReadInv, OwnerMay, call' = call, lock' = lock, StoreInv', CacheInv'
  PROVE  ReadInv'
<1>1. \A t \in Thread : call[t] = IdleCall
  BY DEF OwnerMay
<1>2. \A t \in Thread : ~Walking(t)'
  BY <1>1 DEF Walking, IdleCall
<1>3. ThreadInv'
  BY <1>1, <1>2 DEF ReadInv, ThreadInv, Thread, IsWalk
<1>. QED
  BY <1>2, <1>3 DEF ReadInv

\* A key that some generation holds is stored, and is one of the outpoints.
LEMMA StoredMeans ==
  ASSUME StoreInv
  PROVE  /\ \A g \in Catalogued : \A x \in maps[g].keys : x \in Stored
         /\ \A g \in Catalogued : maps[g].keys \in SUBSET Key /\ maps[g].keys \subseteq Key
<1>1. ASSUME NEW g \in Catalogued, NEW x \in maps[g].keys PROVE x \in Stored
  <2>1. CASE g[2] = Current(g[1])
    <3>1. g[1] \in Class /\ g = ActiveGen(g[1])
      BY <2>1 DEF Catalogued, Gen, ActiveGen
    <3>2. x \in ActiveMap(g[1]).keys
      BY <1>1, <3>1 DEF ActiveMap
    <3>. QED
      BY <3>1, <3>2 DEF Stored
  <2>2. CASE g[2] # Current(g[1])
    <3>1. g \in Older
      BY <2>2, OlderMeans
    <3>. QED
      BY <1>1, <3>1 DEF Stored, OlderKeys
  <2>. QED
    BY <2>1, <2>2
<1>2. \A g \in Catalogued : maps[g].keys \subseteq Key
  BY DEF StoreInv, Map
<1>. QED
  BY <1>1, <1>2

\* A new map holds nothing and takes a key without growing.
LEMMA FreshFacts ==
  /\ Buckets \in Nat \ {0} /\ MaxSizeWithoutRehash(Buckets) \in Nat
  /\ MaxSizeWithoutRehash(Buckets) > 0
  /\ \A ks \in SUBSET Key : /\ [FreshMap(Buckets) EXCEPT !.keys = ks] \in Map
                            /\ [FreshMap(Buckets) EXCEPT !.keys = ks].keys = ks
                            /\ IsFiniteSet(ks) /\ Cardinality(ks) \in Nat
<1>1. Buckets \in Nat /\ MaxSizeWithoutRehash(Buckets) > 0
  BY ReadPathAssumption
<1>2. MaxSizeWithoutRehash(Buckets) \in Nat
  BY <1>1 DEF MaxSizeWithoutRehash
<1>3. Buckets # 0
  <2>1. MaxSizeWithoutRehash(0) = 0
    BY DEF MaxSizeWithoutRehash
  <2>. QED
    BY <1>1, <2>1
<1>4. ASSUME NEW ks \in SUBSET Key
      PROVE  /\ [FreshMap(Buckets) EXCEPT !.keys = ks] \in Map
             /\ [FreshMap(Buckets) EXCEPT !.keys = ks].keys = ks
  BY <1>2 DEF FreshMap, Map
<1>5. ASSUME NEW ks \in SUBSET Key PROVE IsFiniteSet(ks) /\ Cardinality(ks) \in Nat
  BY ReadPathAssumption, FS_Subset, FS_CardinalityType
<1>. QED
  BY <1>1, <1>2, <1>3, <1>4, <1>5

\* An insertion adds the key to the map it goes to, which does not grow: it is the
\* active one only while the guard says that there is room.
LEMMA InsertFits ==
  ASSUME StoreInv, NEW c \in Class, NEW key \in Key, NEW low,
         NEW o \in Emplaced(MapAt(c, Destination(c, key, low)), key)
  PROVE  /\ o.threw = FALSE /\ o.map \in Map
         /\ o.map.keys = MapAt(c, Destination(c, key, low)).keys \cup {key}
         /\ \/ Destination(c, key, low) = Current(c) /\ MapAt(c, Current(c)) = ActiveMap(c)
            \/ /\ Destination(c, key, low) = Current(c) + 1 /\ key \notin ActiveMap(c).keys
               /\ Current(c) + 1 \notin catalog[c] /\ o.map.keys = {key}
<1>. DEFINE v == Destination(c, key, low)
<1>1. /\ Current(c) \in catalog[c] /\ Current(c) \in Nat /\ ActiveGen(c) \in Catalogued
      /\ \A u \in catalog[c] : u <= Current(c) /\ u \in Nat
  BY CurrentNewest, Bounds DEF StoreInv
<1>2. ActiveMap(c) \in Map
  BY <1>1 DEF ActiveMap, StoreInv
<1>3. CASE CanInsertSafely(c, low) \/ key \in ActiveMap(c).keys
  <2>1. v = Current(c)
    BY <1>3 DEF Destination
  <2>2. MapAt(c, Current(c)) = ActiveMap(c)
    BY <1>1 DEF MapAt, ActiveMap, ActiveGen
  <2>. DEFINE m == ActiveMap(c)
  <2>3. /\ m \in Map /\ m.keys \in SUBSET Key /\ m.buckets \in Nat \ {0} /\ m.load \in Nat
        /\ m = [keys |-> m.keys, buckets |-> m.buckets, load |-> m.load]
    BY <1>2, FreshFacts DEF Map
  <2>4. o \in Emplaced(m, key)
    BY <2>1, <2>2
  <2>5. SizeOf(m) \in Nat
    BY <2>3, FreshFacts DEF SizeOf
  <2>6. ~MapFull(m) \/ key \in m.keys
    BY <1>3 DEF CanInsertSafely
  <2>. HIDE DEF m
  <2>7. CASE key \in m.keys
    <3>1. o = [map |-> m, threw |-> FALSE]
      BY <2>4, <2>7 DEF Emplaced
    <3>2. o.map = m /\ o.threw = FALSE /\ m.keys = m.keys \cup {key}
      BY <2>7, <3>1
    <3>. QED
      BY <2>1, <2>2, <2>3, <3>2 DEF m
  <2>8. CASE key \notin m.keys
    <3>1. Emplaced(m, key) = {[map |-> [m EXCEPT !.keys = @ \cup {key}], threw |-> FALSE]}
      BY <2>3, <2>5, <2>6, <2>8, SafeInsertNeverGrows
    <3>2. o.map = [m EXCEPT !.keys = @ \cup {key}] /\ o.threw = FALSE
      BY <2>4, <3>1
    <3>3. o.map.keys = m.keys \cup {key} /\ o.map \in Map
      BY <2>3, <3>2 DEF Map
    <3>. QED
      BY <2>1, <2>2, <3>2, <3>3 DEF m
  <2>. QED
    BY <2>7, <2>8
<1>4. CASE ~(CanInsertSafely(c, low) \/ key \in ActiveMap(c).keys)
  <2>1. v = Current(c) + 1 /\ key \notin ActiveMap(c).keys
    BY <1>4 DEF Destination, NextVersion
  <2>2. Current(c) + 1 \notin catalog[c]
    BY <1>1
  <2>. DEFINE m == FreshMap(Buckets)
  <2>3. MapAt(c, v) = m
    BY <2>1, <2>2 DEF MapAt
  <2>4. m.keys = {} /\ m.load = MaxSizeWithoutRehash(Buckets)
    BY DEF FreshMap
  <2>5. SizeOf(m) < m.load /\ key \notin m.keys
    <3>1. SizeOf(m) = 0
      BY <2>4, FS_EmptySet DEF SizeOf
    <3>. QED
      BY <2>4, <3>1, FreshFacts
  <2>6. Emplaced(m, key) = {[map |-> [m EXCEPT !.keys = @ \cup {key}], threw |-> FALSE]}
    BY <2>5 DEF Emplaced
  <2>7. o.map = [m EXCEPT !.keys = @ \cup {key}] /\ o.threw = FALSE
    BY <2>3, <2>6
  <2>8. o.map = [m EXCEPT !.keys = {key}]
    BY <2>4, <2>7
  <2>9. o.map \in Map /\ o.map.keys = {key}
    <3>1. {key} \in SUBSET Key
      OBVIOUS
    <3>. QED
      BY <2>8, <3>1, FreshFacts
  <2>10. MapAt(c, v).keys \cup {key} = {key}
    BY <2>3, <2>4
  <2>. QED
    BY <2>1, <2>2, <2>7, <2>9, <2>10
<1>. QED
  BY <1>3, <1>4

\* insert: the key goes to one generation, and to no second one.
LEMMA InsertKeeps ==
  ASSUME ReadInv, NEW c \in Class, NEW key \in Key, NEW low \in BOOLEAN, Insert(c, key, low)
  PROVE  ReadInv'
<1>. DEFINE v == Destination(c, key, low)
<1>1. /\ OwnerMay /\ call' = call /\ lock' = lock /\ cache' = cache
      /\ key \in Stored => key \in ActiveMap(c).keys
  BY DEF Insert
<1>2. PICK o \in Emplaced(MapAt(c, v), key) :
        LET last == IF o.threw THEN v + 1 ELSE v
        IN /\ last <= MaxVersion
           /\ maps' = [g \in DOMAIN maps \cup {<<c, v>>, <<c, last>>} |->
                         IF g = <<c, v>> THEN o.map
                         ELSE IF g = <<c, last>> THEN RetriedIn(key) ELSE maps[g]]
           /\ catalog' = [catalog EXCEPT ![c] = @ \cup {v, last}]
           /\ refusals' = IF o.threw THEN refusals + 1 ELSE refusals
  BY DEF Insert
<1>3. StoreInv /\ CacheInv
  BY DEF ReadInv
<1>. HIDE DEF v
<1>4. /\ o.threw = FALSE /\ o.map \in Map
      /\ o.map.keys = MapAt(c, v).keys \cup {key}
      /\ \/ v = Current(c) /\ MapAt(c, Current(c)) = ActiveMap(c)
         \/ /\ v = Current(c) + 1 /\ key \notin ActiveMap(c).keys
            /\ Current(c) + 1 \notin catalog[c] /\ o.map.keys = {key}
  BY <1>3, InsertFits DEF v
<1>5. /\ v <= MaxVersion
      /\ maps' = [g \in DOMAIN maps \cup {<<c, v>>} |-> IF g = <<c, v>> THEN o.map ELSE maps[g]]
      /\ catalog' = [catalog EXCEPT ![c] = @ \cup {v}]
      /\ refusals' = refusals
  BY <1>2, <1>4
<1>6. /\ catalog \in [Class -> (SUBSET Version) \ {{}}] /\ maps \in [Catalogued -> Map]
      /\ refusals = 0 /\ Current(c) \in catalog[c] /\ Current(c) \in Nat
      /\ ActiveGen(c) \in Catalogued
  BY <1>3, CurrentNewest, Bounds DEF StoreInv
<1>7. v \in Version
  BY <1>4, <1>5, <1>6, Bounds DEF Version
<1>8. catalog' \in [Class -> (SUBSET Version) \ {{}}]
  BY <1>5, <1>6, <1>7
<1>9. Catalogued' = Catalogued \cup {<<c, v>>}
  <2>1. \A d \in Class : catalog'[d] = IF d = c THEN catalog[c] \cup {v} ELSE catalog[d]
    BY <1>5, <1>6
  <2>2. <<c, v>> \in Catalogued'
    BY <1>7, <2>1 DEF Catalogued, Gen
  <2>3. ASSUME NEW g \in Catalogued PROVE g \in Catalogued'
    BY <2>1, <2>3 DEF Catalogued, Gen
  <2>4. ASSUME NEW g \in Catalogued' PROVE g \in Catalogued \cup {<<c, v>>}
    <3>1. g \in Gen /\ g[1] \in Class /\ g[2] \in catalog'[g[1]] /\ g = <<g[1], g[2]>>
      BY <2>4 DEF Catalogued, Gen
    <3>2. CASE g[1] = c /\ g[2] = v
      BY <3>1, <3>2
    <3>3. CASE ~(g[1] = c /\ g[2] = v)
      BY <2>1, <3>1, <3>3 DEF Catalogued
    <3>. QED
      BY <3>2, <3>3
  <2>. QED
    BY <2>2, <2>3, <2>4
<1>10. maps' \in [Catalogued' -> Map]
  BY <1>4, <1>5, <1>6, <1>9
<1>11. ASSUME NEW h \in Catalogued, h # <<c, v>>, NEW x \in o.map.keys PROVE x \notin maps[h].keys
  <2>1. CASE v = Current(c) /\ MapAt(c, Current(c)) = ActiveMap(c)
    <3>1. <<c, v>> = ActiveGen(c) /\ o.map.keys = maps[ActiveGen(c)].keys \cup {key}
      BY <1>4, <2>1 DEF ActiveGen, ActiveMap
    <3>2. CASE x \in maps[ActiveGen(c)].keys
      BY <1>3, <1>6, <1>11, <3>1, <3>2 DEF StoreInv
    <3>3. CASE x \notin maps[ActiveGen(c)].keys
      <4>1. x = key /\ key \notin Stored
        BY <1>1, <1>11, <3>1, <3>3 DEF ActiveMap
      <4>. QED
        BY <1>3, <4>1, StoredMeans
    <3>. QED
      BY <3>2, <3>3
  <2>2. CASE key \notin ActiveMap(c).keys /\ o.map.keys = {key}
    <3>1. x = key /\ key \notin Stored
      BY <1>1, <1>11, <2>2
    <3>. QED
      BY <1>3, <3>1, StoredMeans
  <2>. QED
    BY <1>4, <2>1, <2>2
<1>12. ASSUME NEW g \in Catalogued', NEW h \in Catalogued', g # h, NEW x \in maps'[g].keys
       PROVE  x \notin maps'[h].keys
  <2>1. \A f \in Catalogued' : maps'[f] = IF f = <<c, v>> THEN o.map ELSE maps[f]
    BY <1>5, <1>6, <1>9
  <2>2. CASE g = <<c, v>>
    BY <1>9, <1>11, <1>12, <2>1, <2>2
  <2>3. CASE h = <<c, v>>
    BY <1>9, <1>11, <1>12, <2>1, <2>3
  <2>4. CASE g # <<c, v>> /\ h # <<c, v>>
    BY <1>3, <1>9, <1>12, <2>1, <2>4 DEF StoreInv
  <2>. QED
    BY <2>2, <2>3, <2>4
<1>13. StoreInv'
  BY <1>5, <1>6, <1>8, <1>10, <1>12 DEF StoreInv
<1>14. CacheInv'
  <2>1. ASSUME NEW g \in Older PROVE g \in Older'
    <3>1. g \in Catalogued /\ g[2] # Current(g[1])
      BY <1>3, OlderMeans
    <3>2. g[1] \in Class /\ g[2] \in catalog[g[1]] /\ g = <<g[1], g[2]>>
      BY <3>1 DEF Catalogued, Gen
    <3>3. /\ Current(g[1]) \in catalog[g[1]] /\ g[2] <= Current(g[1])
          /\ Current(g[1]) \in Nat /\ g[2] \in Nat
      BY <1>3, <1>6, <3>2, CurrentNewest, Bounds
    <3>4. catalog[g[1]] \subseteq catalog'[g[1]]
      BY <1>5, <1>6, <3>2
    <3>5. Max(catalog'[g[1]]) \in catalog'[g[1]] /\ Current(g[1]) <= Max(catalog'[g[1]])
      <4>1. catalog'[g[1]] \in SUBSET (0 .. MaxVersion)
        BY <1>8, <3>2 DEF Version
      <4>. QED
        BY <3>3, <3>4, <4>1, Bounds, MaxOf
    <3>6. Current(g[1])' = Max(catalog'[g[1]])
      BY DEF Current
    <3>7. g[2] # Current(g[1])'
      BY <1>8, <3>1, <3>2, <3>3, <3>5, <3>6, Bounds
    <3>8. g \in Below(g[1])'
      BY <3>2, <3>4, <3>7 DEF Below
    <3>. QED
      BY <3>2, <3>8 DEF Older
  <2>. QED
    BY <1>1, <1>3, <2>1 DEF CacheInv
<1>. QED
  BY <1>1, <1>13, <1>14, OwnerFrame

\* Erasing removes the keys and may lower the growth point, nothing else.
LEMMA ErasedFacts ==
  ASSUME NEW m \in Map, NEW ks, NEW e \in Erased(m, ks)
  PROVE  e \in Map /\ e.keys = m.keys \ ks
<1>. DEFINE n == Cardinality(ks \cap m.keys)
<1>1. m.keys \in SUBSET Key /\ m.load \in Nat
  BY DEF Map
<1>2. n \in Nat
  <2>1. ks \cap m.keys \in SUBSET Key
    BY <1>1
  <2>. QED
    BY <2>1, FreshFacts
<1>. HIDE DEF n
<1>. DEFINE D == 0 .. IF n < m.load THEN n ELSE m.load
            Lowered(d) == [m EXCEPT !.keys = @ \ ks, !.load = @ - d]
<1>3. Erased(m, ks) = {Lowered(drift) : drift \in D}
  BY Zenon DEF Erased, n
<1>4. \A d \in D : m.load - d \in Nat
  BY <1>1, <1>2
<1>5. \A d \in D : Lowered(d) \in Map /\ Lowered(d).keys = m.keys \ ks
  BY <1>4 DEF Map
<1>. HIDE DEF D, Lowered
<1>. QED
  BY <1>3, <1>5

\* What depends on the catalogue alone.
LEMMA CatalogKept ==
  ASSUME catalog' = catalog
  PROVE  /\ Older' = Older /\ Catalogued' = Catalogued
         /\ \A c : Current(c)' = Current(c) /\ ActiveGen(c)' = ActiveGen(c)
<1>1. \A c : Current(c)' = Current(c)
  BY DEF Current
<1>2. \A c : Below(c)' = Below(c) /\ ActiveGen(c)' = ActiveGen(c)
  BY <1>1 DEF Below, ActiveGen
<1>. QED
  BY <1>1, <1>2 DEF Older, Catalogued

\* Maps that only lose keys still hold each key once.
LEMMA ErasingKeepsStore ==
  ASSUME StoreInv, catalog' = catalog, refusals' = refusals, maps' \in [Catalogued -> Map],
         \A g \in Catalogued : maps'[g].keys \subseteq maps[g].keys
  PROVE  StoreInv'
<1>1. Catalogued' = Catalogued
  BY CatalogKept
<1>. QED
  BY <1>1 DEF StoreInv

\* apply_deletes begins: what the active maps held of the batch is gone from the
\* store, the rest is looked for in the older generations.
LEMMA ApplyDeletesKeeps ==
  ASSUME ReadInv, NEW batch \in Batches, ApplyDeletes(batch) PROVE ReadInv'
<1>. DEFINE pending == {key \in WorkingSet(batch) : ~InActive(key)}
            w == Walk(batch, pending)
<1>1. /\ OwnerMay /\ call' = [call EXCEPT ![Owner] = w]
      /\ catalog' = catalog /\ cache' = cache /\ lock' = lock /\ refusals' = refusals
  BY DEF ApplyDeletes, Becomes
<1>2. PICK left \in [Class -> UNION {ErasedInActive(c, batch) : c \in Class}] :
        /\ \A c \in Class : left[c] \in ErasedInActive(c, batch)
        /\ maps' = [g \in DOMAIN maps |-> IF g = ActiveGen(g[1]) THEN left[g[1]] ELSE maps[g]]
  BY DEF ApplyDeletes
<1>3. StoreInv /\ ThreadInv /\ CacheInv /\ Owner \in Thread
  BY DEF ReadInv, Thread
<1>4. maps \in [Catalogued -> Map]
  BY <1>3 DEF StoreInv
<1>5. \A c \in Class : left[c] \in Map /\ left[c].keys = ActiveMap(c).keys \ WorkingSet(batch)
  <2>. SUFFICES ASSUME NEW c \in Class
                PROVE  left[c] \in Map /\ left[c].keys = ActiveMap(c).keys \ WorkingSet(batch)
    OBVIOUS
  <2>1. ActiveMap(c) \in Map
    BY <1>3, <1>4, CurrentNewest DEF ActiveMap
  <2>2. left[c] \in Erased(ActiveMap(c), WorkingSet(batch))
    BY <1>2 DEF ErasedInActive
  <2>. QED
    BY <2>1, <2>2, ErasedFacts
<1>6. ASSUME NEW g \in Catalogued
      PROVE  /\ maps'[g] \in Map /\ maps'[g].keys \subseteq maps[g].keys
             /\ g \in Older => maps'[g] = maps[g]
             /\ g[2] = Current(g[1]) => maps'[g].keys = maps[g].keys \ WorkingSet(batch)
  <2>1. maps'[g] = IF g = ActiveGen(g[1]) THEN left[g[1]] ELSE maps[g]
    BY <1>2, <1>4
  <2>2. g[1] \in Class /\ g = <<g[1], g[2]>>
    BY DEF Catalogued, Gen
  <2>3. CASE g = ActiveGen(g[1])
    <3>1. g[2] = Current(g[1])
      BY <2>2, <2>3 DEF ActiveGen
    <3>2. g \notin Older
      BY <1>3, <3>1, OlderMeans
    <3>3. maps'[g] \in Map /\ maps'[g].keys = maps[g].keys \ WorkingSet(batch)
      BY <1>5, <2>1, <2>2, <2>3 DEF ActiveMap
    <3>. QED
      BY <3>2, <3>3
  <2>4. CASE g # ActiveGen(g[1])
    <3>1. g[2] # Current(g[1])
      BY <2>2, <2>4 DEF ActiveGen
    <3>. QED
      BY <1>4, <2>1, <2>4, <3>1
  <2>. QED
    BY <2>3, <2>4
<1>7. maps' \in [Catalogued -> Map]
  BY <1>2, <1>4, <1>6
<1>8. StoreInv'
  BY <1>1, <1>3, <1>6, <1>7, ErasingKeepsStore
<1>9. Older' = Older /\ \A c : ActiveGen(c)' = ActiveGen(c)
  BY <1>1, CatalogKept
<1>10. \A x \in OlderKeys' : x \in OlderKeys
  <2>1. \A g \in Older : maps'[g] = maps[g]
    BY <1>3, <1>6, OlderMeans
  <2>. QED
    BY <1>9, <2>1 DEF OlderKeys
<1>11. \A x \in WorkingSet(batch) : x \notin ActiveKeys'
  <2>. SUFFICES ASSUME NEW c \in Class PROVE \A x \in WorkingSet(batch) : x \notin maps'[ActiveGen(c)].keys
    BY <1>9 DEF ActiveKeys, ActiveMap
  <2>1. ActiveGen(c) \in Catalogued /\ ActiveGen(c)[1] = c /\ ActiveGen(c)[2] = Current(c)
    BY <1>3, CurrentNewest DEF ActiveGen
  <2>. QED
    BY <1>6, <2>1
<1>12. \A x : InActive(x) => x \notin OlderKeys
  <2>. SUFFICES ASSUME NEW c \in Class, NEW x \in ActiveMap(c).keys, NEW g \in Older
                PROVE  x \notin maps[g].keys
    BY DEF InActive, OlderKeys
  <2>1. ActiveGen(c) \in Catalogued /\ ActiveGen(c)[1] = c /\ ActiveGen(c)[2] = Current(c)
    BY <1>3, CurrentNewest DEF ActiveGen
  <2>2. g \in Catalogued /\ g # ActiveGen(c)
    BY <1>3, <2>1, OlderMeans
  <2>. QED
    BY <1>3, <2>1, <2>2 DEF StoreInv, ActiveMap
<1>13. /\ IsWalk(w) /\ w.pc = "walk" /\ w.batch = batch /\ w.seen = ToSet(cache)
       /\ w.todo = ToSet(cache) /\ w.next = 0 /\ w.pending = pending /\ w.found = {}
  BY WalkBegins
<1>. HIDE DEF w
<1>14. \A t \in Thread : call'[t] = IF t = Owner THEN w ELSE IdleCall
  BY <1>1, <1>3 DEF OwnerMay, ThreadInv
<1>15. \A r \in Reader : call'[r] = IdleCall /\ ~Walking(r)'
  BY <1>14, ReadPathAssumption DEF Thread, Walking, IdleCall
<1>16. ThreadInv'
  <2>1. call' = [t \in Thread |-> call'[t]]
    BY <1>1, <1>3 DEF ThreadInv
  <2>. QED
    BY <1>13, <1>14, <1>15, <2>1 DEF ThreadInv, IsWalk
<1>17. CacheInv'
  BY <1>1, <1>3, <1>9 DEF CacheInv
<1>18. call'[Owner] = w
  BY <1>3, <1>14
<1>19. Visits(Owner)'
  <2>1. Older \subseteq Gen
    BY <1>3, OlderMeans DEF Catalogued
  <2>2. ASSUME NEW g \in Older PROVE g[1] \in Nat
    BY <2>1, <2>2, Bounds DEF Gen
  <2>3. \A n \in Nat : n >= 0
    OBVIOUS
  <2>. QED
    BY <1>9, <1>13, <1>18, <2>2, <2>3 DEF Visits
<1>20. Settled(Owner)'
  <2>1. Asked(Owner)' = WorkingSet(batch)
    BY <1>13, <1>18 DEF Asked
  <2>2. \A x \in WorkingSet(batch) : x \notin pending => x \notin OlderKeys'
    BY <1>10, <1>12
  <2>. QED
    BY <1>11, <1>13, <1>18, <2>1, <2>2 DEF Settled
<1>21. WalkInv(Owner)'
  BY <1>3, <1>9, <1>13, <1>18, <1>19, <1>20, Bounds DEF WalkInv, CacheInv
<1>. QED
  BY <1>8, <1>15, <1>16, <1>17, <1>21 DEF ReadInv, Thread

\* A file of the walk is erased from: what it held of the batch is gone.
LEMMA EraseInFileKeeps == ASSUME ReadInv, EraseInFile PROVE ReadInv'
<1>. DEFINE g == InHand(Owner)
            w == Answered(Owner, Hits(Owner))
<1>1. /\ call[Owner].pc = "probe" /\ call' = [call EXCEPT ![Owner] = w]
      /\ catalog' = catalog /\ cache' = cache /\ lock' = lock /\ refusals' = refusals
  BY DEF EraseInFile, Becomes
<1>2. PICK m \in Erased(maps[g], Hits(Owner)) : maps' = [maps EXCEPT ![g] = m]
  BY DEF EraseInFile
<1>3. Walking(Owner) /\ Owner \in Thread
  BY <1>1 DEF Walking, Thread
<1>4. /\ StoreInv /\ ThreadInv /\ CacheInv /\ IsWalk(call[Owner]) /\ WalkInv(Owner)
      /\ call[Owner].todo \subseteq Older /\ g \in Older
  BY <1>1, <1>3, WalkFacts DEF WalkInv
<1>5. /\ IsWalk(w) /\ w.pc = "walk" /\ w.batch = call[Owner].batch /\ w.seen = call[Owner].seen
      /\ w.next = call[Owner].next /\ w.failure = call[Owner].failure
      /\ w.todo = call[Owner].todo \ {g}
      /\ w.pending = call[Owner].pending \ Hits(Owner)
  BY <1>4, AnsweredFacts
<1>6. \A x : x \in Hits(Owner) <=> x \in call[Owner].pending /\ x \in maps[g].keys
  BY DEF Hits
<1>. HIDE DEF w, g
<1>7. maps \in [Catalogued -> Map] /\ g \in Catalogued /\ g[2] # Current(g[1])
  BY <1>4, OlderMeans DEF StoreInv
<1>8. m \in Map /\ m.keys = maps[g].keys \ Hits(Owner)
  BY <1>2, <1>7, ErasedFacts
<1>9. maps' \in [Catalogued -> Map] /\ \A h \in Catalogued : maps'[h] = IF h = g THEN m ELSE maps[h]
  BY <1>2, <1>7, <1>8
<1>10. StoreInv'
  BY <1>1, <1>4, <1>8, <1>9, ErasingKeepsStore
<1>11. Older' = Older /\ \A c : ActiveGen(c)' = ActiveGen(c)
  BY <1>1, CatalogKept
<1>12. ActiveKeys' = ActiveKeys
  <2>1. \A c \in Class : maps'[ActiveGen(c)] = maps[ActiveGen(c)]
    <3>. SUFFICES ASSUME NEW c \in Class PROVE maps'[ActiveGen(c)] = maps[ActiveGen(c)]
      OBVIOUS
    <3>1. ActiveGen(c) \in Catalogued /\ ActiveGen(c)[1] = c /\ ActiveGen(c)[2] = Current(c)
      BY <1>4, CurrentNewest DEF ActiveGen
    <3>2. ActiveGen(c) # g
      BY <1>7, <3>1
    <3>. QED
      BY <1>9, <3>1, <3>2
  <2>. QED
    BY <1>11, <2>1 DEF ActiveKeys, ActiveMap
<1>13. \A x \in OlderKeys' : x \in OlderKeys /\ x \notin Hits(Owner)
  <2>. SUFFICES ASSUME NEW h \in Older, NEW x \in maps'[h].keys
                PROVE  x \in maps[h].keys /\ x \notin Hits(Owner)
    BY <1>11 DEF OlderKeys
  <2>1. h \in Catalogued
    BY <1>4, OlderMeans
  <2>2. CASE h = g
    BY <1>8, <1>9, <2>1, <2>2
  <2>3. CASE h # g
    BY <1>4, <1>6, <1>7, <1>9, <2>1, <2>3 DEF StoreInv
  <2>. QED
    BY <2>2, <2>3
<1>14. call'[Owner] = w
  BY <1>1, <1>3, <1>4 DEF ThreadInv
<1>15. ThreadInv' /\ \A u \in Thread : u # Owner => ~Walking(u)'
  BY <1>1, <1>3, <1>5, WalkGoesOn
<1>16. CacheInv'
  BY <1>1, <1>4, <1>11 DEF CacheInv
<1>17. Visits(Owner)'
  <2>1. SUFFICES ASSUME w.failure = "none", NEW h \in Older
                 PROVE  \/ h \in w.todo
                        \/ h[1] >= w.next /\ h \notin w.seen
                        \/ \A x \in maps'[h].keys : x \notin w.pending
    BY <1>11, <1>14 DEF Visits, Complete
  <2>2. Visits(Owner)
    BY <1>4 DEF WalkInv
  <2>3. \/ h \in call[Owner].todo
        \/ h[1] >= call[Owner].next /\ h \notin call[Owner].seen
        \/ \A x \in maps[h].keys : x \notin call[Owner].pending
    BY <1>5, <2>1, <2>2 DEF Visits, Complete
  <2>4. h \in Catalogued
    BY <1>4, OlderMeans
  <2>5. CASE h = g
    BY <1>5, <1>6, <1>8, <1>9, <2>4, <2>5
  <2>6. CASE h # g
    BY <1>5, <1>9, <2>3, <2>4, <2>6
  <2>. QED
    BY <2>5, <2>6
<1>18. Settled(Owner)'
  <2>1. Settled(Owner)
    BY <1>4 DEF WalkInv
  <2>2. /\ call[Owner].pending \subseteq Asked(Owner)
        /\ \A x \in Asked(Owner) : /\ x \notin ActiveKeys
                                   /\ x \notin call[Owner].pending => x \notin OlderKeys
    BY <2>1 DEF Settled
  <2>3. Asked(Owner)' = Asked(Owner)
    BY <1>5, <1>14 DEF Asked
  <2>4. /\ w.pending \subseteq Asked(Owner)
        /\ \A x \in Asked(Owner) : /\ x \notin ActiveKeys'
                                   /\ x \notin w.pending => x \notin OlderKeys'
    BY <1>5, <1>12, <1>13, <2>2
  <2>. QED
    BY <1>14, <2>3, <2>4 DEF Settled
<1>19. WalkInv(Owner)'
  BY <1>4, <1>5, <1>11, <1>14, <1>17, <1>18 DEF WalkInv
<1>. QED
  BY <1>10, <1>15, <1>16, <1>19 DEF ReadInv

--------------------------------------------------------------------------------
(* Compaction *)

\* A group ends at a version of its class, at the one it starts with or later.
LEMMA LastFacts ==
  ASSUME StoreInv, NEW c \in Class, NEW a \in catalog[c]
  PROVE  LastOf(c, a) \in catalog[c] /\ a <= LastOf(c, a)
<1>. DEFINE S == {a} \cup {b \in catalog[c] : a <= b /\ Fits(c, a, b)}
<1>1. catalog[c] \in SUBSET Version
  BY DEF StoreInv
<1>2. S \in SUBSET (0 .. MaxVersion) /\ S # {} /\ S \subseteq catalog[c] /\ a \in S
  BY <1>1 DEF Version
<1>3. LastOf(c, a) = Max(S)
  BY DEF LastOf
<1>. HIDE DEF S
<1>4. Max(S) \in S /\ \A x \in S : x <= Max(S)
  BY <1>2, Bounds, MaxOf
<1>. QED
  BY <1>2, <1>3, <1>4

\* The walk of merge_groups never stops inside a group: two of the versions it
\* stops at are apart by at least the group of the first.
LEMMA StartsApart ==
  ASSUME StoreInv, NEW c \in Class
  PROVE  \A a, b \in Starts(c) : a < b => LastOf(c, a) < b
<1>. DEFINE C == catalog[c]
            closed(S) == /\ Min(C) \in S
                         /\ \A a \in S : After(c, a) # {} => Min(After(c, a)) \in S
            apart == {b \in Starts(c) : \A a \in Starts(c) : a < b => LastOf(c, a) < b}
<1>1. Starts(c) = {v \in C : \A S \in SUBSET C : closed(S) => v \in S}
  BY DEF Starts
<1>2. C \subseteq Nat /\ C # {} /\ \A v \in C : v \in Nat
  BY Bounds DEF StoreInv
<1>3. Min(C) \in C /\ \A v \in C : Min(C) <= v
  BY <1>2, MinOf
<1>4. \A a \in C : LastOf(c, a) \in C /\ a <= LastOf(c, a)
  BY LastFacts
<1>5. ASSUME NEW a \in C, After(c, a) # {}
      PROVE  /\ Min(After(c, a)) \in C /\ LastOf(c, a) < Min(After(c, a))
             /\ \A v \in C : v > LastOf(c, a) => Min(After(c, a)) <= v
  <2>1. After(c, a) = {v \in C : v > LastOf(c, a)}
    BY DEF After
  <2>2. After(c, a) \in SUBSET Nat
    BY <1>2, <2>1
  <2>3. Min(After(c, a)) \in After(c, a) /\ \A x \in After(c, a) : Min(After(c, a)) <= x
    BY <1>5, <2>2, MinOf
  <2>4. Min(After(c, a)) \in C /\ Min(After(c, a)) > LastOf(c, a)
    BY <2>1, <2>3
  <2>5. Min(After(c, a)) \in Nat /\ LastOf(c, a) \in Nat
    BY <1>2, <1>4, <2>4
  <2>6. LastOf(c, a) < Min(After(c, a))
    BY <2>4, <2>5
  <2>. QED
    BY <2>1, <2>3, <2>4, <2>6
<1>. HIDE DEF C
<1>6. Min(C) \in Starts(c) /\ Starts(c) \subseteq C
  BY <1>1, <1>3
<1>7. ASSUME NEW a \in Starts(c), After(c, a) # {} PROVE Min(After(c, a)) \in Starts(c)
  BY <1>1, <1>5, <1>6, <1>7
<1>8. ASSUME NEW b \in apart, NEW v \in Starts(c) PROVE v <= b \/ v > LastOf(c, b)
  <2>. DEFINE T == {u \in Starts(c) : u <= b \/ u > LastOf(c, b)}
  <2>1. b \in Starts(c) /\ b \in C /\ b \in Nat /\ LastOf(c, b) \in Nat
    BY <1>2, <1>4, <1>6
  <2>2. Min(C) \in T
    BY <1>3, <1>6, <2>1
  <2>3. ASSUME NEW u \in T, After(c, u) # {} PROVE Min(After(c, u)) \in T
    <3>1. u \in Starts(c) /\ u \in C /\ u \in Nat /\ LastOf(c, u) \in Nat /\ u <= LastOf(c, u)
      BY <1>2, <1>4, <1>6
    <3>2. /\ Min(After(c, u)) \in Starts(c) /\ Min(After(c, u)) \in Nat
          /\ LastOf(c, u) < Min(After(c, u))
          /\ \A x \in C : x > LastOf(c, u) => Min(After(c, u)) <= x
      BY <1>2, <1>5, <1>7, <2>3, <3>1
    <3>3. CASE u < b
      <4>1. LastOf(c, u) < b
        BY <3>1, <3>3
      <4>2. Min(After(c, u)) <= b
        BY <2>1, <3>1, <3>2, <4>1
      <4>. QED
        BY <3>2, <4>2
    <3>4. CASE u = b
      BY <2>1, <3>2, <3>4
    <3>5. CASE u > LastOf(c, b)
      BY <2>1, <3>1, <3>2, <3>5
    <3>. QED
      BY <2>1, <3>1, <3>3, <3>4, <3>5
  <2>4. T \in SUBSET C /\ closed(T)
    BY <1>6, <2>2, <2>3
  <2>. HIDE DEF T, closed, apart
  <2>5. v \in T
    BY <1>1, <1>8, <2>4
  <2>. QED
    BY <2>5 DEF T
<1>9. ASSUME NEW b \in apart, After(c, b) # {} PROVE Min(After(c, b)) \in apart
  <2>. DEFINE n == Min(After(c, b))
  <2>1. /\ b \in Starts(c) /\ b \in C /\ b \in Nat /\ LastOf(c, b) \in Nat /\ b <= LastOf(c, b)
    BY <1>2, <1>4, <1>6
  <2>2. /\ n \in Starts(c) /\ n \in Nat /\ LastOf(c, b) < n
        /\ \A v \in C : v > LastOf(c, b) => n <= v
    BY <1>2, <1>5, <1>7, <1>9, <2>1
  <2>. HIDE DEF n
  <2>3. ASSUME NEW a \in Starts(c), a < n PROVE LastOf(c, a) < n
    <3>1. a \in C /\ a \in Nat /\ LastOf(c, a) \in Nat
      BY <1>2, <1>4, <1>6
    <3>2. a <= b \/ a > LastOf(c, b)
      BY <1>8
    <3>3. a <= b
      BY <2>1, <2>2, <2>3, <3>1, <3>2
    <3>4. CASE a = b
      BY <2>2, <3>4
    <3>5. CASE a < b
      BY <2>1, <2>2, <3>1, <3>5
    <3>. QED
      BY <2>1, <3>1, <3>3, <3>4, <3>5
  <2>. QED
    BY <2>2, <2>3 DEF n
<1>10. closed(apart) /\ apart \in SUBSET C
  <2>1. Min(C) \in apart
    <3>1. \A a \in Starts(c) : a \in Nat /\ Min(C) <= a /\ Min(C) \in Nat
      BY <1>2, <1>3, <1>6
    <3>2. \A a \in Starts(c) : ~(a < Min(C))
      BY <3>1
    <3>. QED
      BY <1>6, <3>2
  <2>. QED
    BY <1>6, <1>9, <2>1
<1>. HIDE DEF closed, apart
<1>11. Starts(c) \subseteq apart
  BY <1>1, <1>10
<1>. QED
  BY <1>11 DEF apart

\* The groups of a class are sets of its versions that share none.
LEMMA GroupsApart ==
  ASSUME StoreInv, NEW c \in Class
  PROVE  /\ \A A \in Groups(c) : A \subseteq catalog[c]
         /\ \A A, B \in Groups(c) : A # B => \A v \in A : v \notin B
         /\ IsFiniteSet(Groups(c))
<1>1. \A v \in catalog[c] : v \in Nat
  BY Bounds DEF StoreInv
<1>2. Starts(c) \subseteq catalog[c]
  BY DEF Starts
<1>3. ASSUME NEW A \in Groups(c)
      PROVE  A \subseteq catalog[c] /\ \E a \in Starts(c) : A = Part(c, a, LastOf(c, a))
  BY DEF Groups, Part
<1>4. ASSUME NEW A \in Groups(c), NEW B \in Groups(c), A # B, NEW v \in A PROVE v \notin B
  <2>1. PICK a \in Starts(c) : A = Part(c, a, LastOf(c, a))
    BY <1>3
  <2>2. PICK b \in Starts(c) : B = Part(c, b, LastOf(c, b))
    BY <1>3
  <2>3. a # b
    BY <1>4, <2>1, <2>2
  <2>4. /\ a \in Nat /\ b \in Nat /\ LastOf(c, a) \in Nat /\ LastOf(c, b) \in Nat
        /\ v \in Nat /\ a <= v /\ v <= LastOf(c, a)
    <3>1. a \in catalog[c] /\ b \in catalog[c]
      BY <1>2
    <3>2. LastOf(c, a) \in catalog[c] /\ LastOf(c, b) \in catalog[c]
      BY <3>1, LastFacts
    <3>3. v \in catalog[c] /\ a <= v /\ v <= LastOf(c, a)
      BY <1>4, <2>1 DEF Part
    <3>. QED
      BY <1>1, <3>1, <3>2, <3>3
  <2>5. (a < b => LastOf(c, a) < b) /\ (b < a => LastOf(c, b) < a)
    BY StartsApart
  <2>6. ~(b <= v /\ v <= LastOf(c, b))
    BY <2>3, <2>4, <2>5
  <2>. QED
    BY <2>2, <2>6 DEF Part
<1>5. IsFiniteSet(Groups(c))
  <2>1. IsFiniteSet(catalog[c])
    BY Bounds DEF StoreInv
  <2>2. IsFiniteSet(SUBSET catalog[c])
    BY <2>1, FS_SUBSET
  <2>3. Groups(c) \subseteq SUBSET catalog[c]
    BY <1>3
  <2>. QED
    BY <2>2, <2>3, FS_Subset
<1>. QED
  BY <1>3, <1>4, <1>5

\* compact_all: each group becomes one generation that holds its keys, and the
\* rest of the store is left alone.
LEMMA CompactAllKeeps ==
  ASSUME ReadInv, NEW stop \in 0 .. Classes, CompactAll(stop) PROVE ReadInv'
<1>. DEFINE merged == {c \in Class : c < stop}
            targets == UNION {{<<c, TargetOf(c, g)>> : g \in Groups(c)} : c \in merged}
            retired == UNION {{<<c, v>> : v \in UNION Groups(c)} : c \in merged}
            source(t) == CHOOSE g \in Groups(t[1]) : TargetOf(t[1], g) = t[2]
<1>1. /\ OwnerMay /\ call' = call /\ lock' = lock /\ cache' = <<>> /\ refusals' = refusals
      /\ \A t \in targets : t[2] <= MaxVersion
      /\ catalog' = [c \in Class |-> (catalog[c] \ {r[2] : r \in {s \in retired : s[1] = c}})
                                       \cup {t[2] : t \in {s \in targets : s[1] = c}}]
      /\ maps' = [g \in (DOMAIN maps \ retired) \cup targets |->
                    IF g \in targets THEN MergedMap(g[1], source(g)) ELSE maps[g]]
  BY DEF CompactAll
<1>2. StoreInv
  BY DEF ReadInv
<1>3. /\ catalog \in [Class -> (SUBSET Version) \ {{}}] /\ maps \in [Catalogued -> Map]
      /\ \A g, h \in Catalogued : g # h => \A x \in maps[g].keys : x \notin maps[h].keys
      /\ refusals = 0
  BY <1>2 DEF StoreInv
<1>4. \A c \in Class : /\ \A A \in Groups(c) : A \subseteq catalog[c]
                       /\ \A A, B \in Groups(c) : A # B => \A v \in A : v \notin B
                       /\ IsFiniteSet(Groups(c))
  BY <1>2, GroupsApart
<1>5. \A c \in Class : \A A \in Groups(c) : \A v \in A : <<c, v>> \in Catalogued
  BY <1>3, <1>4 DEF Catalogued, Gen
<1>6. ASSUME NEW c \in Class, NEW A \in Groups(c) PROVE TargetOf(c, A) \in Nat
  <2>. DEFINE H == {h \in Groups(c) : Max(h) <= Max(A)}
  <2>1. IsFiniteSet(H)
    <3>1. H \subseteq Groups(c)
      OBVIOUS
    <3>. QED
      BY <1>4, <3>1, FS_Subset
  <2>2. Cardinality(H) \in Nat
    BY <2>1, FS_CardinalityType
  <2>3. Current(c) \in Nat
    BY <1>2, CurrentNewest, Bounds
  <2>4. TargetOf(c, A) = Current(c) + Cardinality(H)
    BY DEF TargetOf
  <2>. HIDE DEF H
  <2>. QED
    BY <2>2, <2>3, <2>4
<1>7. ASSUME NEW t \in targets
      PROVE  /\ t[1] \in merged /\ t[1] \in Class /\ t = <<t[1], t[2]>>
             /\ t[2] \in Version /\ t \in Gen
             /\ source(t) \in Groups(t[1]) /\ TargetOf(t[1], source(t)) = t[2]
  <2>0. PICK c \in merged : t \in {<<c, TargetOf(c, g)>> : g \in Groups(c)}
    BY <1>7
  <2>1. PICK A \in Groups(c) : t = <<c, TargetOf(c, A)>>
    BY <2>0
  <2>2. t[1] = c /\ t[2] = TargetOf(c, A) /\ c \in Class
    BY <2>1
  <2>3. t[2] \in Nat /\ t[2] <= MaxVersion
    BY <1>1, <1>6, <1>7, <2>2
  <2>4. t[2] \in Version
    BY <2>3, Bounds DEF Version
  <2>5. source(t) \in Groups(t[1]) /\ TargetOf(t[1], source(t)) = t[2]
    BY <2>2
  <2>. QED
    BY <2>1, <2>2, <2>4, <2>5 DEF Gen
<1>8. \A r : r \in retired <=> \E c \in merged : \E A \in Groups(c) : \E v \in A : r = <<c, v>>
  <2>1. ASSUME NEW r \in retired PROVE \E c \in merged : \E A \in Groups(c) : \E v \in A : r = <<c, v>>
    <3>1. PICK c \in merged : r \in {<<c, v>> : v \in UNION Groups(c)}
      BY <2>1
    <3>2. PICK v \in UNION Groups(c) : r = <<c, v>>
      BY <3>1
    <3>3. PICK A \in Groups(c) : v \in A
      BY <3>2
    <3>. QED
      BY <3>2, <3>3
  <2>2. ASSUME NEW c \in merged, NEW A \in Groups(c), NEW v \in A PROVE <<c, v>> \in retired
    OBVIOUS
  <2>. QED
    BY <2>1, <2>2
<1>. HIDE DEF targets, retired, source
<1>9. \A r \in retired : r[1] \in Class /\ r = <<r[1], r[2]>>
  BY <1>8
<1>10. ASSUME NEW g \in Gen
       PROVE  g[2] \in catalog'[g[1]] <=> (g[2] \in catalog[g[1]] /\ g \notin retired) \/ g \in targets
  <2>1. g[1] \in Class /\ g = <<g[1], g[2]>>
    BY DEF Gen
  <2>2. catalog'[g[1]] = (catalog[g[1]] \ {r[2] : r \in {s \in retired : s[1] = g[1]}})
                           \cup {t[2] : t \in {s \in targets : s[1] = g[1]}}
    BY <1>1, <2>1
  <2>3. g[2] \in {r[2] : r \in {s \in retired : s[1] = g[1]}} <=> g \in retired
    <3>1. ASSUME NEW r \in retired, r[1] = g[1], r[2] = g[2] PROVE g \in retired
      BY <1>9, <2>1, <3>1
    <3>. QED
      BY <3>1
  <2>4. g[2] \in {t[2] : t \in {s \in targets : s[1] = g[1]}} <=> g \in targets
    <3>1. ASSUME NEW t \in targets, t[1] = g[1], t[2] = g[2] PROVE g \in targets
      BY <1>7, <2>1, <3>1
    <3>. QED
      BY <3>1
  <2>. QED
    BY <2>2, <2>3, <2>4
<1>11. Catalogued' = (Catalogued \ retired) \cup targets
  <2>1. \A g \in Gen : g \in Catalogued' <=> g \in (Catalogued \ retired) \cup targets
    BY <1>10 DEF Catalogued
  <2>2. Catalogued' \subseteq Gen /\ (Catalogued \ retired) \cup targets \subseteq Gen
    BY <1>7 DEF Catalogued
  <2>. QED
    BY <2>1, <2>2
<1>12. catalog' \in [Class -> (SUBSET Version) \ {{}}]
  <2>. SUFFICES ASSUME NEW c \in Class PROVE catalog'[c] \in SUBSET Version /\ catalog'[c] # {}
    BY <1>1
  <2>1. catalog'[c] = (catalog[c] \ {r[2] : r \in {s \in retired : s[1] = c}})
                        \cup {t[2] : t \in {s \in targets : s[1] = c}}
    BY <1>1
  <2>2. \A t \in targets : t[2] \in Version
    BY <1>7
  <2>3. catalog'[c] \in SUBSET Version
    BY <1>3, <2>1, <2>2
  <2>4. catalog'[c] # {}
    <3>1. CASE \E t \in targets : t[1] = c
      BY <2>1, <3>1
    <3>2. CASE \A t \in targets : t[1] # c
      <4>1. \A r \in retired : r[1] # c
        <5>. SUFFICES ASSUME NEW r \in retired, r[1] = c PROVE FALSE
          OBVIOUS
        <5>0. PICK d \in merged : \E A \in Groups(d) : \E v \in A : r = <<d, v>>
          BY <1>8
        <5>1. PICK A \in Groups(d) : \E v \in A : r = <<d, v>>
          BY <5>0
        <5>2. <<d, TargetOf(d, A)>> \in targets /\ d = c
          BY <5>1 DEF targets
        <5>. QED
          BY <3>2, <5>2
      <4>2. catalog[c] # {} /\ catalog[c] \subseteq catalog'[c]
        BY <1>3, <2>1, <4>1
      <4>. QED
        BY <4>2
    <3>. QED
      BY <3>1, <3>2
  <2>. QED
    BY <2>3, <2>4
<1>13. /\ DOMAIN maps' = Catalogued'
       /\ \A g \in Catalogued' : maps'[g] = IF g \in targets THEN MergedMap(g[1], source(g)) ELSE maps[g]
       /\ maps' = [g \in Catalogued' |-> maps'[g]]
  BY <1>1, <1>3, <1>11
<1>14. ASSUME NEW t \in targets
       PROVE  /\ maps'[t] \in Map
              /\ \A x \in maps'[t].keys : \E v \in source(t) : x \in maps[<<t[1], v>>].keys
  <2>. DEFINE ks == UNION {maps[<<t[1], v>>].keys : v \in source(t)}
  <2>1. t[1] \in Class /\ source(t) \in Groups(t[1])
    BY <1>7
  <2>2. \A v \in source(t) : <<t[1], v>> \in Catalogued
    BY <1>5, <2>1
  <2>3. \A v \in source(t) : maps[<<t[1], v>>].keys \subseteq Key
    BY <1>2, <2>2, StoredMeans
  <2>4. ks \in SUBSET Key
    BY <2>3
  <2>5. maps'[t] = MergedMap(t[1], source(t))
    BY <1>11, <1>13
  <2>6. maps'[t] = [FreshMap(Buckets) EXCEPT !.keys = ks]
    BY <2>5 DEF MergedMap
  <2>7. \A x \in ks : \E v \in source(t) : x \in maps[<<t[1], v>>].keys
    OBVIOUS
  <2>. HIDE DEF ks
  <2>. QED
    BY <2>4, <2>6, <2>7, FreshFacts
<1>15. maps' \in [Catalogued' -> Map]
  <2>1. \A g \in Catalogued' : maps'[g] \in Map
    BY <1>3, <1>11, <1>13, <1>14
  <2>. QED
    BY <1>13, <2>1
<1>16. ASSUME NEW t \in targets, NEW h \in Catalogued, h \notin retired, NEW x \in maps'[t].keys
       PROVE  x \notin maps[h].keys
  <2>1. PICK v \in source(t) : x \in maps[<<t[1], v>>].keys
    BY <1>14, <1>16
  <2>2. <<t[1], v>> \in retired /\ <<t[1], v>> \in Catalogued
    BY <1>5, <1>7, <1>8, <2>1
  <2>. QED
    BY <1>3, <1>16, <2>1, <2>2
<1>17. ASSUME NEW t \in targets, NEW u \in targets, t # u, NEW x \in maps'[t].keys
       PROVE  x \notin maps'[u].keys
  <2>. SUFFICES ASSUME x \in maps'[u].keys PROVE FALSE
    OBVIOUS
  <2>1. PICK v \in source(t) : x \in maps[<<t[1], v>>].keys
    BY <1>14, <1>17
  <2>2. PICK y \in source(u) : x \in maps[<<u[1], y>>].keys
    BY <1>14
  <2>3. <<t[1], v>> \in Catalogued /\ <<u[1], y>> \in Catalogued
    BY <1>5, <1>7, <2>1, <2>2
  <2>4. <<t[1], v>> = <<u[1], y>>
    BY <1>3, <2>1, <2>2, <2>3
  <2>5. t[1] = u[1] /\ v = y
    BY <2>4
  <2>6. source(t) # source(u)
    BY <1>7, <1>17, <2>5
  <2>. QED
    BY <1>4, <1>7, <2>1, <2>2, <2>5, <2>6
<1>18. ASSUME NEW g \in Catalogued', NEW h \in Catalogued', g # h, NEW x \in maps'[g].keys
       PROVE  x \notin maps'[h].keys
  <2>1. CASE g \in targets /\ h \in targets
    BY <1>17, <1>18, <2>1
  <2>2. CASE g \in targets /\ h \notin targets
    BY <1>11, <1>13, <1>16, <1>18, <2>2
  <2>3. CASE g \notin targets /\ h \in targets
    BY <1>11, <1>13, <1>16, <1>18, <2>3
  <2>4. CASE g \notin targets /\ h \notin targets
    BY <1>3, <1>11, <1>13, <1>18, <2>4
  <2>. QED
    BY <2>1, <2>2, <2>3, <2>4
<1>19. StoreInv'
  BY <1>1, <1>3, <1>12, <1>15, <1>18 DEF StoreInv
<1>20. CacheInv'
  <2>1. <<>> \in Seq({}) /\ Len(<<>>) = 0 /\ ToSet(<<>>) = {}
    BY DEF ToSet
  <2>2. IsSeq(cache')
    BY <1>1, <2>1 DEF IsSeq
  <2>. QED
    BY <1>1, <2>1, <2>2, ReadPathAssumption DEF CacheInv
<1>. QED
  BY <1>1, <1>19, <1>20, OwnerFrame

--------------------------------------------------------------------------------
(* The theorems *)

\* A store that was opened satisfies the invariant.
LEMMA ReadInit == Init => ReadInv
<1>. SUFFICES ASSUME Init PROVE ReadInv
  OBVIOUS
<1>1. PICK newest \in Openings, home \in [Key -> Gen \cup {Nowhere}] :
        /\ catalog = [c \in Class |-> 0 .. newest[c]]
        /\ maps = [g \in {h \in Gen : h[2] <= newest[h[1]]} |->
                     [FreshMap(Buckets) EXCEPT !.keys = {key \in Key : home[key] = g}]]
  BY DEF Init
<1>2. /\ cache = <<>> /\ lock = NoThread /\ call = [t \in Thread |-> IdleCall] /\ refusals = 0
  BY DEF Init
<1>3. \A c \in Class : newest[c] \in Version
  BY ReadPathAssumption DEF Class, Version
<1>4. catalog \in [Class -> (SUBSET Version) \ {{}}]
  <2>. SUFFICES ASSUME NEW c \in Class PROVE 0 .. newest[c] \in SUBSET Version /\ 0 .. newest[c] # {}
    BY <1>1
  <2>1. newest[c] \in Nat /\ newest[c] <= MaxVersion /\ MaxVersion \in Nat
    BY <1>3, Bounds DEF Version
  <2>2. 0 \in 0 .. newest[c]
    BY <2>1
  <2>. QED
    BY <2>1, <2>2 DEF Version
<1>5. Catalogued = {h \in Gen : h[2] <= newest[h[1]]}
  <2>1. ASSUME NEW h \in Gen PROVE h[2] \in catalog[h[1]] <=> h[2] <= newest[h[1]]
    <3>1. h[1] \in Class /\ h[2] \in Nat /\ newest[h[1]] \in Nat
      BY <1>3, Bounds DEF Gen
    <3>2. catalog[h[1]] = 0 .. newest[h[1]]
      BY <1>1, <3>1
    <3>. QED
      BY <3>1, <3>2
  <2>. QED
    BY <2>1 DEF Catalogued
<1>. DEFINE ks(g) == {key \in Key : home[key] = g}
<1>6. \A g \in Catalogued : maps[g] = [FreshMap(Buckets) EXCEPT !.keys = ks(g)]
  BY <1>1, <1>5
<1>7. DOMAIN maps = Catalogued /\ maps = [g \in Catalogued |-> maps[g]]
  BY <1>1, <1>5
<1>8. \A g : ks(g) \in SUBSET Key
  OBVIOUS
<1>9. \A g \in Catalogued : maps[g] \in Map /\ maps[g].keys = ks(g)
  <2>. HIDE DEF ks
  <2>. QED
    BY <1>6, <1>8, FreshFacts
<1>10. StoreInv
  <2>1. maps \in [Catalogued -> Map]
    BY <1>7, <1>9
  <2>2. \A g, h \in Catalogued : g # h => \A x \in maps[g].keys : x \notin maps[h].keys
    BY <1>9
  <2>. QED
    BY <1>2, <1>4, <2>1, <2>2 DEF StoreInv
<1>11. \A t \in Thread : call[t] = IdleCall /\ ~Walking(t)
  BY <1>2 DEF Walking, IdleCall
<1>12. ThreadInv
  BY <1>2, <1>11 DEF ThreadInv, Thread
<1>13. CacheInv
  <2>1. <<>> \in Seq({}) /\ Len(<<>>) = 0 /\ ToSet(<<>>) = {}
    BY DEF ToSet
  <2>2. IsSeq(cache)
    BY <1>2, <2>1 DEF IsSeq
  <2>. QED
    BY <1>2, <2>1, <2>2, ReadPathAssumption DEF CacheInv
<1>. QED
  BY <1>10, <1>11, <1>12, <1>13 DEF ReadInv

\* A step of a walk, of a reader's or of the owner's, keeps the invariant.
LEMMA WalkStepKeeps == ASSUME ReadInv, NEW t \in Thread, WalkStep(t) PROVE ReadInv'
  BY ListClassKeeps, ListFailsKeeps, CacheHitKeeps, OpenFileKeeps, OpenFailsKeeps DEF WalkStep

\* Every step keeps the invariant.
LEMMA ReadNext == ReadInv /\ [Next]_vars => ReadInv'
<1>. SUFFICES ASSUME ReadInv, [Next]_vars PROVE ReadInv'
  OBVIOUS
<1>1. ASSUME NEW r \in Reader, ResolveStep(r) PROVE ReadInv'
  <2>1. r \in Thread
    BY DEF Thread
  <2>2. CASE TakeLock(r)
    BY <2>2, TakeLockKeeps
  <2>3. CASE NothingAsked(r) \/ Conclude(r)
    BY <2>3, ReaderReturns
  <2>4. CASE WalkStep(r)
    BY <2>1, <2>4, WalkStepKeeps
  <2>5. CASE ReadFile(r)
    BY <2>5, ReadFileKeeps
  <2>6. CASE ReadFails(r)
    BY <2>6, ReadFailsKeeps
  <2>. QED
    BY <1>1, <2>2, <2>3, <2>4, <2>5, <2>6 DEF ResolveStep
<1>2. ASSUME NEW r \in Reader, NEW batch \in Batches, Resolve(r, batch) PROVE ReadInv'
  BY <1>2, ResolveKeeps
<1>3. ASSUME NEW r \in Reader, NEW key \in Key, Find(r, key) PROVE ReadInv'
  BY <1>3, UntouchedKeeps DEF Find, store
<1>4. CASE DeleteStep
  <2>1. Owner \in Thread
    BY DEF Thread
  <2>. QED
    BY <1>4, <2>1, WalkStepKeeps, EraseInFileKeeps, DeletesDoneKeeps DEF DeleteStep
<1>5. ASSUME NEW c \in Class, NEW key \in Key, NEW low \in BOOLEAN,
             Insert(c, key, low) \/ RotationFails(c, key, low)
      PROVE  ReadInv'
  <2>1. CASE Insert(c, key, low)
    BY <2>1, InsertKeeps
  <2>2. CASE RotationFails(c, key, low)
    BY <2>2, UntouchedKeeps DEF RotationFails
  <2>. QED
    BY <1>5, <2>1, <2>2
<1>6. ASSUME NEW batch \in Batches, ApplyDeletes(batch) PROVE ReadInv'
  BY <1>6, ApplyDeletesKeeps
<1>7. ASSUME NEW stop \in 0 .. Classes, CompactAll(stop) PROVE ReadInv'
  BY <1>7, CompactAllKeeps
<1>8. CASE ResetStatistics
  BY <1>8, UntouchedKeeps DEF ResetStatistics, store
<1>9. CASE OwnerCall
  BY <1>5, <1>6, <1>7, <1>8, <1>9 DEF OwnerCall
<1>10. CASE UNCHANGED vars
  BY <1>10, UntouchedKeeps DEF vars
<1>. QED
  BY <1>1, <1>2, <1>3, <1>4, <1>9, <1>10 DEF Next

\* One thread walks at a time and holds what it reads mapped, each key is in one
\* generation at most, and what a walk has yet to visit covers what it has yet to
\* settle: the invariant of full_resolve, apply_deletes, insert and compact_all.
THEOREM ReadInvariant == Spec => []ReadInv
  BY ReadInit, ReadNext, PTL DEF Spec

\* No thread reads a generation that the cache has unmapped, and the cache keeps
\* to its limit (full_resolve and file_cache, with any number of readers).
THEOREM NoUseAfterUnmapHolds == Spec => []NoUseAfterUnmap
<1>1. ReadInv => NoUseAfterUnmap
  <2>. SUFFICES ASSUME ReadInv PROVE NoUseAfterUnmap
    OBVIOUS
  <2>1. Len(cache) <= MaxCached
    BY DEF ReadInv, CacheInv
  <2>2. ASSUME NEW t \in Thread, call[t].pc = "probe" PROVE Cached(InHand(t))
    BY <2>2 DEF ReadInv, Walking, WalkInv
  <2>. QED
    BY <2>1, <2>2 DEF NoUseAfterUnmap
<1>. QED
  BY <1>1, ReadInvariant, PTL

\* A walk that met no failure and is over has settled every key of its batch, and
\* rightly: resolve() found exactly what the older generations hold, and a batch
\* of deletions left none of its keys anywhere.
THEOREM AnswersExactHolds == Spec => []AnswersExact
<1>1. ReadInv => AnswersExact
  <2>. SUFFICES ASSUME ReadInv, NEW t \in Thread, WalkEnds(t), Complete(t)
                PROVE  IF t = Owner THEN WorkingSet(call[t].batch) \cap Stored = {}
                       ELSE /\ call[t].found = WorkingSet(call[t].batch) \cap OlderKeys
                            /\ call[t].pending = WorkingSet(call[t].batch) \ OlderKeys
    BY DEF AnswersExact
  <2>1. Walking(t)
    BY DEF WalkEnds, Walking
  <2>2. StoreInv /\ WalkInv(t) /\ Older \subseteq Gen
    BY <2>1, WalkFacts
  <2>3. \A g \in Older, x \in call[t].pending : x \notin maps[g].keys
    <3>. SUFFICES ASSUME call[t].todo = {}, call[t].next = Classes, NEW g \in Older
                  PROVE  \A x \in maps[g].keys : x \notin call[t].pending
      BY DEF WalkEnds
    <3>1. g[1] \in Class
      BY <2>2 DEF Gen
    <3>2. ~(g[1] >= Classes)
      BY <3>1, Bounds DEF Class
    <3>. QED
      BY <2>2, <3>2 DEF WalkInv, Visits
  <2>4. \A x \in call[t].pending : x \notin OlderKeys
    BY <2>3 DEF OlderKeys
  <2>5. Settled(t) /\ Asked(t) = WorkingSet(call[t].batch)
    BY <2>2 DEF WalkInv, Asked
  <2>6. CASE t = Owner
    <3>1. \A x \in Asked(t) : x \notin ActiveKeys /\ x \notin OlderKeys
      BY <2>4, <2>5, <2>6 DEF Settled
    <3>2. \A x : x \in Stored => x \in OlderKeys \/ x \in ActiveKeys
      BY DEF Stored, ActiveKeys
    <3>. QED
      BY <2>5, <2>6, <3>1, <3>2, SMT
  <2>7. CASE t # Owner
    <3>1. /\ call[t].pending \subseteq Asked(t) /\ call[t].found = Asked(t) \ call[t].pending
          /\ call[t].found \subseteq OlderKeys
      BY <2>5, <2>7 DEF Settled
    <3>2. \A x : x \in call[t].found <=> x \in Asked(t) /\ x \in OlderKeys
      BY <2>4, <3>1
    <3>3. \A x : x \in call[t].pending <=> x \in Asked(t) /\ x \notin OlderKeys
      BY <2>4, <3>1
    <3>. QED
      BY <2>5, <2>7, <3>2, <3>3, SMT
  <2>. QED
    BY <2>6, <2>7
<1>. QED
  BY <1>1, ReadInvariant, PTL

\* No insertion grows a map inside its segment and no allocation is refused, for
\* every bucket count, every batch of deletions and every compaction before it.
THEOREM NeverGrowsInPlaceHolds == Spec => []NeverGrowsInPlace
<1>1. ReadInv => NeverGrowsInPlace
  BY DEF ReadInv, StoreInv, Map, NeverGrowsInPlace
<1>. QED
  BY <1>1, ReadInvariant, PTL

--------------------------------------------------------------------------------
(* The counters *)

Figure == {"opened", "hits", "resolved", "distance"}
Tallies == [Class -> [Figure -> Nat]]
Figures == [answered : Nat, deferred : Nat, files : Nat, hits : Nat, resolved : Nat,
            distance : Nat, absent : Nat, lookup : Tallies]

\* What a walk has resolved and what it still looks for are its working set.
Balanced(w) ==
  /\ w.tally \in Tallies /\ w.pending \subseteq WorkingSet(w.batch)
  /\ Total(w.tally, "resolved") + Cardinality(w.pending) = Cardinality(WorkingSet(w.batch))

\* A call of a reader that has not returned.
Booked(w) == w # IdleCall /\ w.batch \in Batches /\ (w.pc # "wait" => Balanced(w))

\* The figures of the classes add up to those of the whole.
SumsUp(s) ==
  /\ s \in Figures
  /\ Total(s.lookup, "resolved") = s.resolved
  /\ Total(s.lookup, "opened") = s.files
  /\ Total(s.lookup, "distance") = s.distance

\* So they do at all times, and no walk has lost or counted twice a key of its
\* batch.
StatsInv ==
  /\ SumsUp(stats)
  /\ \A r \in Reader : call[r] # IdleCall => Booked(call[r])

\* One figure of every class.
Column(tally, f) == [c \in Class |-> tally[c][f]]

\* There are finitely many classes.
LEMMA ClassFinite == IsFiniteSet(Class)
  BY Bounds, FS_Interval DEF Class

\* The total of a figure is the sum of its column.
LEMMA TotalIs ==
  ASSUME NEW tally \in Tallies, NEW f \in Figure
  PROVE  /\ \A c \in Class : Column(tally, f)[c] = tally[c][f] /\ tally[c][f] \in Nat
         /\ Total(tally, f) = SumFunctionOnSet(Column(tally, f), Class)
         /\ Total(tally, f) \in Nat
<1>1. \A c \in Class : Column(tally, f)[c] = tally[c][f] /\ tally[c][f] \in Nat
  BY DEF Column, Tallies
<1>2. Total(tally, f) = SumFunctionOnSet(Column(tally, f), Class)
  <2>1. DOMAIN Column(tally, f) = Class
    BY DEF Column
  <2>2. Total(tally, f) = SumFunction(Column(tally, f))
    BY DEF Total, Column
  <2>. QED
    BY <2>1, <2>2, Zenon DEF SumFunction
<1>3. SumFunctionOnSet(Column(tally, f), Class) \in Nat
  BY <1>1, ClassFinite, SumNat
<1>. QED
  BY <1>1, <1>2, <1>3

\* A tally that was just begun is zero.
LEMMA TotalNone == NoTally \in Tallies /\ \A f \in Figure : Total(NoTally, f) = 0
<1>1. ZeroTally \in [Figure -> Nat] /\ \A f \in Figure : ZeroTally[f] = 0
  BY DEF ZeroTally, Figure
<1>2. NoTally \in Tallies
  BY <1>1 DEF NoTally, Tallies
<1>3. ASSUME NEW f \in Figure PROVE Total(NoTally, f) = 0
  <2>1. \A c \in Class : Column(NoTally, f)[c] = 0
    BY <1>1 DEF Column, NoTally
  <2>2. SumFunctionOnSet(Column(NoTally, f), Class) = 0 * Cardinality(Class)
    BY <2>1, ClassFinite, SumConst
  <2>3. Cardinality(Class) \in Nat
    BY ClassFinite, FS_CardinalityType
  <2>. QED
    BY <1>2, <2>2, <2>3, TotalIs
<1>. QED
  BY <1>2, <1>3

\* Two tallies added up, class by class, add up in total.
LEMMA TotalAdded ==
  ASSUME NEW tally \in Tallies, NEW more \in Tallies
  PROVE  /\ Added(tally, more) \in Tallies
         /\ \A f \in Figure : Total(Added(tally, more), f) = Total(tally, f) + Total(more, f)
<1>1. DOMAIN ZeroTally = Figure
  BY DEF ZeroTally, Figure
<1>2. \A c \in Class : \A f \in Figure :
        /\ tally[c][f] \in Nat /\ more[c][f] \in Nat
        /\ Added(tally, more)[c][f] = tally[c][f] + more[c][f]
  BY <1>1 DEF Added, Tallies
<1>3. Added(tally, more) \in Tallies
  <2>1. \A c \in Class : [f \in Figure |-> tally[c][f] + more[c][f]] \in [Figure -> Nat]
    BY <1>2
  <2>. QED
    BY <1>1, <2>1 DEF Added, Tallies
<1>4. ASSUME NEW f \in Figure
      PROVE  Total(Added(tally, more), f) = Total(tally, f) + Total(more, f)
  <2>. DEFINE a == Column(tally, f)
              b == Column(more, f)
              s == Column(Added(tally, more), f)
  <2>1. AddUp(a, b, s, Class)
    BY <1>2 DEF AddUp, Column
  <2>. HIDE DEF a, b, s
  <2>2. SumFunctionOnSet(s, Class) = SumFunctionOnSet(a, Class) + SumFunctionOnSet(b, Class)
    BY <2>1, ClassFinite, SumPlus
  <2>. QED
    BY <1>3, <2>2, TotalIs DEF a, b, s
<1>. QED
  BY <1>3, <1>4

\* A figure of one class goes up by n.
LEMMA TotalRaised ==
  ASSUME NEW tally \in Tallies, NEW other \in Tallies, NEW f \in Figure, NEW c \in Class,
         NEW n \in Nat, other[c][f] = tally[c][f] + n,
         \A d \in Class : d # c => other[d][f] = tally[d][f]
  PROVE  Total(other, f) = Total(tally, f) + n
<1>. DEFINE a == Column(tally, f)
            b == Column(other, f)
            R == Class \ {c}
            A == SumFunctionOnSet(a, R)
            B == SumFunctionOnSet(b, R)
<1>1. \A d \in Class : /\ a[d] = tally[d][f] /\ b[d] = other[d][f]
                       /\ a[d] \in Nat /\ b[d] \in Nat
  BY TotalIs
<1>2. IsFiniteSet(R)
  BY ClassFinite, FS_Subset
<1>3. \A d \in R : a[d] = b[d] /\ a[d] \in Nat
  BY <1>1
<1>4. A = B /\ A \in Nat
  <2>. HIDE DEF R, a, b
  <2>1. A \in Nat
    BY <1>2, <1>3, SumNat
  <2>. QED
    BY <1>2, <1>3, <2>1, SumSame
<1>5. /\ SumFunctionOnSet(a, Class) = a[c] + A
      /\ SumFunctionOnSet(b, Class) = b[c] + B
  <2>. HIDE DEF a, b
  <2>1. \A d \in Class : a[d] \in Nat /\ b[d] \in Nat
    BY <1>1
  <2>. QED
    BY <2>1, ClassFinite, SumRemove
<1>6. a[c] \in Nat /\ b[c] = a[c] + n
  BY <1>1
<1>7. /\ Total(tally, f) = SumFunctionOnSet(a, Class)
      /\ Total(other, f) = SumFunctionOnSet(b, Class)
  BY TotalIs
<1>. HIDE DEF a, b, A, B
<1>. QED
  BY <1>4, <1>5, <1>6, <1>7

\* Two figures of a class go up, the others stay.
LEMMA SheetRaised ==
  ASSUME NEW s \in [Figure -> Nat], NEW f \in Figure, NEW g \in Figure, f # g,
         NEW m \in Nat, NEW n \in Nat
  PROVE  LET w == [s EXCEPT ![f] = @ + m, ![g] = @ + n]
         IN /\ w \in [Figure -> Nat] /\ w[f] = s[f] + m /\ w[g] = s[g] + n
            /\ \A e \in Figure : e # f /\ e # g => w[e] = s[e]
<1>. DEFINE v == [s EXCEPT ![f] = @ + m]
            w == [v EXCEPT ![g] = @ + n]
<1>1. /\ v \in [Figure -> Nat] /\ v[f] = s[f] + m /\ v[g] = s[g]
      /\ \A e \in Figure : e # f => v[e] = s[e]
  OBVIOUS
<1>. HIDE DEF v
<1>2. /\ w \in [Figure -> Nat] /\ w[f] = s[f] + m /\ w[g] = s[g] + n
      /\ \A e \in Figure : e # f /\ e # g => w[e] = s[e]
  BY <1>1
<1>. QED
  BY <1>2 DEF v

\* A file that was opened is counted, and resolves nothing yet.
LEMMA OpenedTally ==
  ASSUME NEW tally \in Tallies, NEW c \in Class, NEW hit
  PROVE  /\ Opened(tally, c, hit) \in Tallies
         /\ Total(Opened(tally, c, hit), "resolved") = Total(tally, "resolved")
<1>. DEFINE w == Opened(tally, c, hit)
            n == IF hit THEN 1 ELSE 0
            x == [tally[c] EXCEPT !["opened"] = @ + 1, !["hits"] = @ + n]
<1>1. tally[c] \in [Figure -> Nat] /\ n \in Nat /\ "resolved" \in Figure
  BY DEF Tallies, Figure
<1>2. x \in [Figure -> Nat] /\ x["resolved"] = tally[c]["resolved"]
  <2>. HIDE DEF n
  <2>. DEFINE s == tally[c]
  <2>. HIDE DEF n, s
  <2>1. s \in [Figure -> Nat] /\ "opened" \in Figure /\ "hits" \in Figure
    BY <1>1 DEF Figure, s
  <2>2. LET v == [s EXCEPT !["opened"] = @ + 1, !["hits"] = @ + n]
        IN v \in [Figure -> Nat] /\ v["resolved"] = s["resolved"]
    BY <1>1, <2>1, SheetRaised
  <2>. QED
    BY <2>2 DEF s
<1>3. w = [tally EXCEPT ![c] = x]
  BY DEF Opened, Tallies
<1>. HIDE DEF w, x
<1>4. /\ w \in Tallies
      /\ w[c]["resolved"] = tally[c]["resolved"] + 0
      /\ \A d \in Class : d # c => w[d]["resolved"] = tally[d]["resolved"]
  BY <1>1, <1>2, <1>3 DEF Tallies
<1>5. Total(w, "resolved") = Total(tally, "resolved") + 0
  BY <1>1, <1>4, TotalRaised
<1>6. Total(tally, "resolved") \in Nat
  BY <1>1, TotalIs
<1>. QED
  BY <1>4, <1>5, <1>6 DEF w

\* A file that was searched is credited with the keys it answers.
LEMMA CreditedTally ==
  ASSUME NEW tally \in Tallies, NEW g, g[1] \in Class, NEW n \in Nat, Current(g[1]) - g[2] \in Nat
  PROVE  /\ Credited(tally, g, n) \in Tallies
         /\ Total(Credited(tally, g, n), "resolved") = Total(tally, "resolved") + n
<1>. DEFINE w == Credited(tally, g, n)
            c == g[1]
            m == n * (Current(g[1]) - g[2])
            x == [tally[c] EXCEPT !["resolved"] = @ + n, !["distance"] = @ + m]
<1>1. tally[c] \in [Figure -> Nat] /\ "resolved" \in Figure
  BY DEF Tallies, Figure
<1>2. m \in Nat
  <2>. DEFINE k == Current(g[1]) - g[2]
  <2>1. k \in Nat
    OBVIOUS
  <2>. HIDE DEF k
  <2>2. n * k \in Nat
    BY <2>1
  <2>. QED
    BY <2>2 DEF k
<1>3. w = [tally EXCEPT ![c] = x]
  BY DEF Credited, Tallies
<1>. HIDE DEF m
<1>4. x \in [Figure -> Nat] /\ x["resolved"] = tally[c]["resolved"] + n
  <2>. DEFINE s == tally[c]
  <2>. HIDE DEF s
  <2>1. s \in [Figure -> Nat] /\ "resolved" \in Figure /\ "distance" \in Figure
    BY <1>1 DEF Figure, s
  <2>2. LET v == [s EXCEPT !["resolved"] = @ + n, !["distance"] = @ + m]
        IN v \in [Figure -> Nat] /\ v["resolved"] = s["resolved"] + n
    BY <1>2, <2>1, SheetRaised
  <2>. QED
    BY <2>2 DEF s
<1>. HIDE DEF w, x
<1>5. /\ w \in Tallies
      /\ w[c]["resolved"] = tally[c]["resolved"] + n
      /\ \A d \in Class : d # c => w[d]["resolved"] = tally[d]["resolved"]
  BY <1>1, <1>3, <1>4 DEF Tallies
<1>6. Total(w, "resolved") = Total(tally, "resolved") + n
  <2>. HIDE DEF c
  <2>1. c \in Class
    BY DEF c
  <2>. QED
    BY <1>1, <1>5, <2>1, TotalRaised
<1>. QED
  BY <1>5, <1>6 DEF w

\* A walk of a reader, as the counters will see it.
LEMMA WalkBooked ==
  ASSUME ReadInv, StatsInv, NEW r \in Reader, Walking(r)
  PROVE  /\ r \in Thread /\ IsWalk(call[r]) /\ call[r].batch \in Batches /\ Balanced(call[r])
         /\ IsFiniteSet(WorkingSet(call[r].batch)) /\ IsFiniteSet(call[r].pending)
         /\ Cardinality(WorkingSet(call[r].batch)) \in Nat /\ Cardinality(call[r].pending) \in Nat
         /\ Total(call[r].tally, "resolved") \in Nat
<1>1. r \in Thread
  BY DEF Thread
<1>2. IsWalk(call[r]) /\ call[r] # IdleCall
  BY <1>1, WalkingMeans
<1>3. call[r].batch \in Batches /\ Balanced(call[r])
  BY <1>2 DEF StatsInv, Booked, Walking
<1>4. WorkingSet(call[r].batch) \subseteq Key
  <2>1. call[r].batch \in Seq(Key)
    BY <1>3, ReadPathAssumption
  <2>. DEFINE s == call[r].batch
  <2>2. \A i \in DOMAIN s : s[i] \in Key
    <3>. HIDE DEF s
    <3>1. s \in Seq(Key)
      BY <2>1 DEF s
    <3>. QED
      BY <3>1, ElementOfSeq, LenProperties
  <2>. HIDE DEF s
  <2>3. ToSet(s) \subseteq Key
    BY <2>2 DEF ToSet
  <2>. QED
    BY <2>3 DEF WorkingSet, s
<1>5. IsFiniteSet(WorkingSet(call[r].batch)) /\ IsFiniteSet(call[r].pending)
  <2>1. IsFiniteSet(WorkingSet(call[r].batch))
    BY <1>4, FS_Subset, ReadPathAssumption
  <2>. QED
    BY <1>3, <2>1, FS_Subset DEF Balanced
<1>6. Total(call[r].tally, "resolved") \in Nat
  BY <1>3, TotalIs DEF Balanced, Figure
<1>. QED
  BY <1>1, <1>2, <1>3, <1>5, <1>6, FS_CardinalityType

\* A walk that goes on with what it looks for unchanged has lost nothing.
LEMMA BookedSame ==
  ASSUME ReadInv, StatsInv, NEW r \in Reader, Walking(r), NEW w, w.pc \in {"walk", "probe"},
         w.batch = call[r].batch, w.pending = call[r].pending, w.tally \in Tallies,
         Total(w.tally, "resolved") = Total(call[r].tally, "resolved")
  PROVE  Booked(w)
<1>1. call[r].batch \in Batches /\ Balanced(call[r])
  BY WalkBooked
<1>2. w # IdleCall
  BY DEF IdleCall
<1>. QED
  BY <1>1, <1>2 DEF Booked, Balanced

\* One that found keys has resolved as many as it looks for no longer.
LEMMA BookedFound ==
  ASSUME ReadInv, StatsInv, NEW r \in Reader, Walking(r), NEW w, w.pc \in {"walk", "probe"},
         NEW hits, hits \subseteq call[r].pending,
         w.batch = call[r].batch, w.pending = call[r].pending \ hits, w.tally \in Tallies,
         Total(w.tally, "resolved") = Total(call[r].tally, "resolved") + Cardinality(hits)
  PROVE  Booked(w)
<1>. DEFINE p == call[r].pending
            a == Cardinality(WorkingSet(call[r].batch))
            b == Cardinality(p)
            n == Cardinality(hits)
            m == Cardinality(p \ hits)
            k == Total(call[r].tally, "resolved")
<1>1. /\ call[r].batch \in Batches /\ Balanced(call[r]) /\ IsFiniteSet(p)
      /\ a \in Nat /\ b \in Nat /\ k \in Nat
  BY WalkBooked
<1>2. k + b = a /\ p \subseteq WorkingSet(call[r].batch)
  BY <1>1 DEF Balanced
<1>3. IsFiniteSet(hits) /\ n \in Nat
  <2>1. IsFiniteSet(hits)
    BY <1>1, FS_Subset
  <2>. QED
    BY <2>1, FS_CardinalityType
<1>4. m = b - n
  <2>1. p \cap hits = hits
    OBVIOUS
  <2>. HIDE DEF p
  <2>2. Cardinality(p \ hits) = Cardinality(p) - Cardinality(p \cap hits)
    BY <1>1, FS_Difference
  <2>. QED
    BY <2>1, <2>2
<1>5. w # IdleCall
  BY DEF IdleCall
<1>6. Total(w.tally, "resolved") + Cardinality(w.pending) = Cardinality(WorkingSet(w.batch))
  <2>1. Total(w.tally, "resolved") = k + n /\ Cardinality(w.pending) = m
    OBVIOUS
  <2>2. Cardinality(WorkingSet(w.batch)) = a
    OBVIOUS
  <2>. HIDE DEF a, b, n, m, k, p
  <2>3. (k + n) + m = a
    BY <1>1, <1>2, <1>3, <1>4
  <2>. QED
    BY <2>1, <2>2, <2>3
<1>. QED
  BY <1>1, <1>2, <1>5, <1>6 DEF Booked, Balanced

\* A step of a call that tells the counters nothing.
Quiet ==
  /\ stats' = stats
  /\ \E t \in Thread : \E w :
       /\ call' = [call EXCEPT ![t] = w]
       /\ \/ t = Owner
          \/ w = IdleCall /\ ~WalkEnds(t)
          \/ Booked(w)

\* The steps of a reader's walk, but for the last.
LEMMA ReaderWalks ==
  ASSUME ReadInv, StatsInv, NEW r \in Reader, WalkStep(r) \/ ReadFile(r) \/ ReadFails(r)
  PROVE  Quiet
<1>0. Walking(r) /\ r \in Thread
  BY DEF WalkStep, ReadFile, ReadFails, ListClass, ListFails, CacheHit, OpenFile, OpenFails,
         Probing, Walking, Thread
<1>1. /\ IsWalk(call[r]) /\ Balanced(call[r]) /\ call[r].tally \in Tallies
  BY <1>0, WalkBooked DEF Balanced
<1>2. /\ StoreInv /\ WalkInv(r) /\ call[r].todo \subseteq Older /\ Older \subseteq Gen
      /\ call[r].todo # {} => InHand(r) \in call[r].todo
  BY <1>0, WalkFacts
<1>3. ASSUME call[r].todo # {}
      PROVE  /\ InHand(r)[1] \in Class
             /\ Current(InHand(r)[1]) - InHand(r)[2] \in Nat
  <2>. DEFINE g == InHand(r)
  <2>1. g \in Older
    BY <1>2, <1>3
  <2>. HIDE DEF g
  <2>2. g \in Gen /\ g[2] \in catalog[g[1]]
    BY <1>2, <2>1, OlderMeans DEF Catalogued
  <2>3. g[1] \in Class /\ g[2] \in Version
    BY <2>2 DEF Gen
  <2>4. Current(g[1]) \in Version /\ g[2] <= Current(g[1])
    BY <1>2, <2>2, <2>3, CurrentNewest
  <2>. DEFINE a == Current(g[1])
              b == g[2]
  <2>5. a \in Nat /\ b \in Nat /\ b <= a
    BY <2>3, <2>4, Bounds
  <2>. HIDE DEF a, b
  <2>6. a - b \in Nat
    BY <2>5
  <2>. QED
    BY <2>3, <2>6 DEF a, b, g
<1>4. ASSUME NEW w, stats' = stats, call' = [call EXCEPT ![r] = w], Booked(w)
      PROVE  Quiet
  BY <1>0, <1>4 DEF Quiet
<1>5. ASSUME NEW w, stats' = stats, call' = [call EXCEPT ![r] = w], w.pc = "walk",
             w.batch = call[r].batch, w.pending = call[r].pending, w.tally = call[r].tally
      PROVE  Quiet
  <2>1. Booked(w)
    BY <1>0, <1>1, <1>5, BookedSame
  <2>. QED
    BY <1>4, <1>5, <2>1
<1>6. CASE ListClass(r)
  <2>. DEFINE more == Remaining(r, call[r].next)
              w == [call[r] EXCEPT !.todo = more, !.next = @ + 1]
  <2>1. stats' = stats /\ call' = [call EXCEPT ![r] = w] /\ call[r].pc = "walk"
    BY <1>6 DEF ListClass, Becomes
  <2>. HIDE DEF more
  <2>2. /\ w.pc = "walk" /\ w.batch = call[r].batch /\ w.pending = call[r].pending
        /\ w.tally = call[r].tally
    BY <1>1, <2>1 DEF IsWalk, Field
  <2>. HIDE DEF w
  <2>. QED
    BY <1>5, <2>1, <2>2
<1>7. CASE ListFails(r)
  <2>. DEFINE w == [call[r] EXCEPT !.next = @ + 1, !.failure = "catalog_unreadable"]
  <2>1. stats' = stats /\ call' = [call EXCEPT ![r] = w] /\ call[r].pc = "walk"
    BY <1>7 DEF ListFails, Becomes
  <2>2. /\ w.pc = "walk" /\ w.batch = call[r].batch /\ w.pending = call[r].pending
        /\ w.tally = call[r].tally
    BY <1>1, <2>1 DEF IsWalk, Field
  <2>. HIDE DEF w
  <2>. QED
    BY <1>5, <2>1, <2>2
<1>8. ASSUME OpenFails(r) \/ ReadFails(r) PROVE Quiet
  <2>. DEFINE left == call[r].todo \ {InHand(r)}
              f == IF call[r].failure = "none" THEN "version_unreadable" ELSE call[r].failure
              w == [call[r] EXCEPT !.pc = "walk", !.todo = left, !.failure = f]
              v == [call[r] EXCEPT !.todo = left, !.failure = f]
  <2>1. CASE OpenFails(r)
    <3>1. stats' = stats /\ call' = [call EXCEPT ![r] = v] /\ call[r].pc = "walk"
      BY <2>1 DEF OpenFails, Probing, Becomes
    <3>. HIDE DEF left, f
    <3>2. /\ v.pc = "walk" /\ v.batch = call[r].batch /\ v.pending = call[r].pending
          /\ v.tally = call[r].tally
      BY <1>1, <3>1 DEF IsWalk, Field
    <3>. HIDE DEF v
    <3>. QED
      BY <1>5, <3>1, <3>2
  <2>2. CASE ReadFails(r)
    <3>1. stats' = stats /\ call' = [call EXCEPT ![r] = w]
      BY <2>2 DEF ReadFails, Becomes
    <3>. HIDE DEF left, f
    <3>2. /\ w.pc = "walk" /\ w.batch = call[r].batch /\ w.pending = call[r].pending
          /\ w.tally = call[r].tally
      BY <1>1 DEF IsWalk, Field
    <3>. HIDE DEF w
    <3>. QED
      BY <1>5, <3>1, <3>2
  <2>. QED
    BY <1>8, <2>1, <2>2
<1>9. ASSUME NEW hit, stats' = stats, call' = [call EXCEPT ![r] = Handed(r, hit)],
             call[r].todo # {}
      PROVE  Quiet
  <2>. DEFINE w == Handed(r, hit)
  <2>1. /\ w.pc = "probe" /\ w.batch = call[r].batch /\ w.pending = call[r].pending
        /\ w.tally = Opened(call[r].tally, InHand(r)[1], hit)
    BY <1>1, HandedFacts
  <2>. HIDE DEF w
  <2>2. /\ w.tally \in Tallies
        /\ Total(w.tally, "resolved") = Total(call[r].tally, "resolved")
    BY <1>1, <1>3, <1>9, <2>1, OpenedTally
  <2>3. Booked(w)
    BY <1>0, <2>1, <2>2, BookedSame
  <2>. QED
    BY <1>4, <1>9, <2>3 DEF w
<1>10. CASE CacheHit(r)
  BY <1>9, <1>10 DEF CacheHit, Probing, Becomes
<1>11. CASE OpenFile(r)
  BY <1>9, <1>11 DEF OpenFile, Probing, Becomes
<1>12. CASE ReadFile(r)
  <2>. DEFINE hits == Hits(r)
              w == Answered(r, hits)
  <2>1. stats' = stats /\ call' = [call EXCEPT ![r] = w] /\ call[r].todo # {}
    BY <1>2, <1>12 DEF ReadFile, Becomes, WalkInv
  <2>2. hits \subseteq call[r].pending
    BY DEF Hits
  <2>3. /\ w.pc = "walk" /\ w.batch = call[r].batch /\ w.pending = call[r].pending \ hits
        /\ w.tally = Credited(call[r].tally, InHand(r), Cardinality(hits))
    BY <1>1, AnsweredFacts
  <2>. HIDE DEF w, hits
  <2>4. Cardinality(hits) \in Nat
    <3>1. IsFiniteSet(call[r].pending)
      BY <1>0, WalkBooked
    <3>. QED
      BY <2>2, <3>1, FS_Subset, FS_CardinalityType
  <2>5. /\ w.tally \in Tallies
        /\ Total(w.tally, "resolved") = Total(call[r].tally, "resolved") + Cardinality(hits)
    BY <1>1, <1>3, <2>1, <2>3, <2>4, CreditedTally
  <2>6. Booked(w)
    BY <1>0, <2>2, <2>3, <2>5, BookedFound
  <2>. QED
    BY <1>4, <2>1, <2>6
<1>. QED
  BY <1>6, <1>7, <1>8, <1>10, <1>11, <1>12 DEF WalkStep

\* The calls that begin or end without a word to the counters.
LEMMA CallBegins ==
  ASSUME ReadInv, StatsInv, NEW r \in Reader,
         TakeLock(r) \/ NothingAsked(r) \/ \E batch \in Batches : Resolve(r, batch)
  PROVE  Quiet
<1>0. r \in Thread
  BY DEF Thread
<1>1. CASE TakeLock(r)
  <2>. DEFINE b == call[r].batch
              w == Walk(b, WorkingSet(b))
  <2>1. stats' = stats /\ call' = [call EXCEPT ![r] = w] /\ call[r].pc = "wait"
    BY <1>1 DEF TakeLock, Becomes
  <2>2. b \in Batches
    <3>1. call[r] # IdleCall
      BY <1>0, <2>1, WalkingMeans
    <3>. QED
      BY <3>1 DEF StatsInv, Booked
  <2>3. /\ w.pc = "walk" /\ w.batch = b /\ w.pending = WorkingSet(b) /\ w.tally = NoTally
    BY WalkBegins
  <2>. HIDE DEF w
  <2>4. Total(NoTally, "resolved") + Cardinality(WorkingSet(b)) = Cardinality(WorkingSet(b))
    <3>1. Total(NoTally, "resolved") = 0
      BY TotalNone DEF Figure
    <3>2. Cardinality(WorkingSet(b)) \in Nat
      <4>1. b \in Seq(Key)
        BY <2>2, ReadPathAssumption
      <4>. HIDE DEF b
      <4>2. \A i \in DOMAIN b : b[i] \in Key
        BY <4>1, ElementOfSeq, LenProperties
      <4>3. ToSet(b) \subseteq Key
        BY <4>2 DEF ToSet
      <4>4. IsFiniteSet(WorkingSet(b))
        BY <4>3, FS_Subset, ReadPathAssumption DEF WorkingSet
      <4>. QED
        BY <4>4, FS_CardinalityType
    <3>. QED
      BY <3>1, <3>2
  <2>5. w # IdleCall
    BY <2>3 DEF IdleCall
  <2>. HIDE DEF b
  <2>6. Booked(w)
    BY <2>2, <2>3, <2>4, <2>5, TotalNone DEF Booked, Balanced
  <2>. QED
    BY <1>0, <2>1, <2>6 DEF Quiet
<1>2. CASE NothingAsked(r)
  <2>1. stats' = stats /\ call' = [call EXCEPT ![r] = IdleCall] /\ call[r].pc = "wait"
    BY <1>2 DEF NothingAsked, Becomes
  <2>2. ~WalkEnds(r)
    BY <2>1 DEF WalkEnds
  <2>. QED
    BY <1>0, <2>1, <2>2 DEF Quiet
<1>3. ASSUME NEW batch \in Batches, Resolve(r, batch) PROVE Quiet
  <2>. DEFINE w == [pc |-> "wait", batch |-> batch]
  <2>1. stats' = stats /\ call' = [call EXCEPT ![r] = w]
    BY <1>3 DEF Resolve, Becomes
  <2>2. w.pc = "wait" /\ w.batch = batch
    OBVIOUS
  <2>. HIDE DEF w
  <2>3. Booked(w)
    BY <2>2 DEF Booked, IdleCall
  <2>. QED
    BY <1>0, <2>1, <2>3 DEF Quiet
<1>. QED
  BY <1>1, <1>2, <1>3

\* The counters move with the end of a resolution, with a probe, and when they
\* are reset.
LEMMA CountersMove ==
  ASSUME ReadInv, StatsInv, [Next]_vars
  PROVE  \/ Quiet
         \/ \E r \in Reader : Conclude(r)
         \/ /\ call' = call
            /\ stats' \in {stats, NoStats} \cup {Probed(stats, key) : key \in Key}
<1>1. ASSUME NEW r \in Reader, ResolveStep(r), ~Conclude(r) PROVE Quiet
  BY <1>1, ReaderWalks, CallBegins DEF ResolveStep
<1>2. ASSUME NEW r \in Reader, NEW batch \in Batches, Resolve(r, batch) PROVE Quiet
  BY <1>2, CallBegins
<1>3. ASSUME NEW r \in Reader, NEW key \in Key, Find(r, key)
      PROVE  call' = call /\ stats' = Probed(stats, key)
  BY <1>3 DEF Find
<1>4. ASSUME NEW w, stats' = stats, call' = [call EXCEPT ![Owner] = w] PROVE Quiet
  BY <1>4 DEF Quiet, Thread
<1>5. CASE DeleteStep
  <2>1. stats' = stats /\ \E w : call' = [call EXCEPT ![Owner] = w]
    BY <1>5 DEF DeleteStep, EraseInFile, DeletesDone, WalkStep, ListClass, ListFails, CacheHit,
                OpenFile, OpenFails, Becomes
  <2>. QED
    BY <1>4, <2>1
<1>6. ASSUME NEW c \in Class, NEW key \in Key, NEW low \in BOOLEAN,
             Insert(c, key, low) \/ RotationFails(c, key, low)
      PROVE  call' = call /\ stats' = stats
  BY <1>6 DEF Insert, RotationFails
<1>7. ASSUME NEW batch \in Batches, ApplyDeletes(batch) PROVE Quiet
  <2>1. stats' = stats /\ \E w : call' = [call EXCEPT ![Owner] = w]
    BY <1>7 DEF ApplyDeletes, Becomes
  <2>. QED
    BY <1>4, <2>1
<1>8. ASSUME NEW stop \in 0 .. Classes, CompactAll(stop) PROVE call' = call /\ stats' = stats
  BY <1>8 DEF CompactAll
<1>9. CASE ResetStatistics
  BY <1>9 DEF ResetStatistics
<1>10. CASE UNCHANGED vars
  BY <1>10 DEF vars
<1>11. CASE OwnerCall
  BY <1>6, <1>7, <1>8, <1>9, <1>11 DEF OwnerCall
<1>. QED
  BY <1>1, <1>2, <1>3, <1>5, <1>10, <1>11 DEF Next

\* The keys that the counters call settled.
Settlements(s) == s.resolved + s.absent

\* What a resolution that ends adds to them.
Share(r) == IF Complete(r) THEN Cardinality(WorkingSet(call[r].batch)) ELSE 0

\* The end of a resolution: what the walk did is published, if it was complete.
LEMMA ConcludePublishes ==
  ASSUME ReadInv, StatsInv, NEW r \in Reader, Conclude(r)
  PROVE  SumsUp(stats') /\ Settlements(stats') = Settlements(stats) + Share(r)
<1>0. Walking(r) /\ stats' = IF Complete(r) THEN Published(stats, call[r]) ELSE stats
  BY DEF Conclude, WalkEnds, Walking
<1>1. /\ SumsUp(stats) /\ stats \in Figures /\ stats.lookup \in Tallies
      /\ stats.resolved \in Nat /\ stats.absent \in Nat
  BY DEF StatsInv, SumsUp, Figures
<1>2. CASE ~Complete(r)
  BY <1>0, <1>1, <1>2 DEF Settlements, Share
<1>3. CASE Complete(r)
  <2>. DEFINE w == call[r]
              o == Total(w.tally, "opened")
              h == Total(w.tally, "hits")
              k == Total(w.tally, "resolved")
              d == Total(w.tally, "distance")
              n == Cardinality(w.pending)
              a == Cardinality(WorkingSet(w.batch))
              l == Added(stats.lookup, w.tally)
  <2>1. w.tally \in Tallies /\ k + n = a /\ n \in Nat /\ a \in Nat
    BY <1>0, WalkBooked DEF Balanced
  <2>2. o \in Nat /\ h \in Nat /\ k \in Nat /\ d \in Nat
    BY <2>1, TotalIs DEF Figure
  <2>3. l \in Tallies /\ \A f \in Figure : Total(l, f) = Total(stats.lookup, f) + Total(w.tally, f)
    BY <1>1, <2>1, TotalAdded
  <2>4. /\ Total(l, "resolved") = stats.resolved + k /\ Total(l, "opened") = stats.files + o
        /\ Total(l, "distance") = stats.distance + d
    BY <1>1, <2>3 DEF SumsUp, Figure
  <2>. HIDE DEF o, h, k, d, n, a, l
  <2>. DEFINE s1 == [stats EXCEPT !.files = @ + o]
              s2 == [s1 EXCEPT !.hits = @ + h]
              s3 == [s2 EXCEPT !.resolved = @ + k]
              s4 == [s3 EXCEPT !.distance = @ + d]
              s5 == [s4 EXCEPT !.absent = @ + n]
              s6 == [s5 EXCEPT !.lookup = l]
  <2>5. stats' = s6
    BY <1>0, <1>3 DEF Published, o, h, k, d, n, l
  <2>6. /\ stats' \in Figures /\ stats'.files = stats.files + o
        /\ stats'.resolved = stats.resolved + k /\ stats'.distance = stats.distance + d
        /\ stats'.absent = stats.absent + n /\ stats'.lookup = l
    <3>1. /\ s1 \in Figures /\ s1.files = stats.files + o /\ s1.resolved = stats.resolved
          /\ s1.distance = stats.distance /\ s1.absent = stats.absent
      BY <1>1, <2>2 DEF Figures
    <3>. HIDE DEF s1
    <3>2. /\ s2 \in Figures /\ s2.files = s1.files /\ s2.resolved = s1.resolved
          /\ s2.distance = s1.distance /\ s2.absent = s1.absent
      BY <2>2, <3>1 DEF Figures
    <3>. HIDE DEF s2
    <3>3. /\ s3 \in Figures /\ s3.files = s2.files /\ s3.resolved = s2.resolved + k
          /\ s3.distance = s2.distance /\ s3.absent = s2.absent
      BY <2>2, <3>2 DEF Figures
    <3>. HIDE DEF s3
    <3>4. /\ s4 \in Figures /\ s4.files = s3.files /\ s4.resolved = s3.resolved
          /\ s4.distance = s3.distance + d /\ s4.absent = s3.absent
      BY <2>2, <3>3 DEF Figures
    <3>. HIDE DEF s4
    <3>5. /\ s5 \in Figures /\ s5.files = s4.files /\ s5.resolved = s4.resolved
          /\ s5.distance = s4.distance /\ s5.absent = s4.absent + n
      BY <2>1, <3>4 DEF Figures
    <3>. HIDE DEF s5
    <3>6. /\ s6 \in Figures /\ s6.files = s5.files /\ s6.resolved = s5.resolved
          /\ s6.distance = s5.distance /\ s6.absent = s5.absent /\ s6.lookup = l
      BY <2>3, <3>5 DEF Figures
    <3>. HIDE DEF s6
    <3>. QED
      BY <2>5, <3>1, <3>2, <3>3, <3>4, <3>5, <3>6, Zenon
  <2>7. Settlements(stats') = Settlements(stats) + a
    BY <1>1, <2>1, <2>2, <2>6 DEF Settlements
  <2>8. SumsUp(stats')
    BY <2>4, <2>6 DEF SumsUp
  <2>. QED
    BY <1>3, <2>7, <2>8 DEF a, Share
<1>. QED
  BY <1>2, <1>3

\* The counters of a new instance are zero.
LEMMA NoStatsZero == SumsUp(NoStats) /\ Settlements(NoStats) = 0
<1>1. NoTally \in Tallies /\ \A f \in Figure : Total(NoTally, f) = 0
  BY TotalNone
<1>2. /\ NoStats.lookup = NoTally /\ NoStats.resolved = 0 /\ NoStats.absent = 0
      /\ NoStats.files = 0 /\ NoStats.distance = 0
  BY DEF NoStats
<1>3. NoStats \in Figures
  BY <1>1 DEF NoStats, Figures
<1>. QED
  BY <1>1, <1>2, <1>3 DEF Figure, SumsUp, Settlements

\* A probe is counted apart from the resolutions.
LEMMA ProbedApart ==
  ASSUME NEW s, SumsUp(s), NEW key
  PROVE  SumsUp(Probed(s, key)) /\ Settlements(Probed(s, key)) = Settlements(s)
<1>. DEFINE p == Probed(s, key)
<1>1. /\ p \in Figures /\ p.resolved = s.resolved /\ p.absent = s.absent
      /\ p.files = s.files /\ p.distance = s.distance /\ p.lookup = s.lookup
  BY DEF Probed, SumsUp, Figures
<1>. HIDE DEF p
<1>2. SumsUp(p) /\ Settlements(p) = Settlements(s)
  BY <1>1 DEF SumsUp, Settlements
<1>. QED
  BY <1>2 DEF p

\* A resolution returns with this step.
Over(r) == WalkEnds(r) /\ call'[r] = IdleCall

\* What one step does to the counters: a resolution that ends settles its whole
\* batch or nothing, and nothing else settles a key.
Accounted ==
  /\ SumsUp(stats')
  /\ \A r \in Reader : Over(r) => Settlements(stats') = Settlements(stats) + Share(r)
  /\ Settlements(stats') > Settlements(stats) => \E r \in Reader : Over(r)

\* Every step accounts for what it does, and keeps the figures of the calls.
LEMMA CountersStep ==
  ASSUME ReadInv, StatsInv, [Next]_vars
  PROVE  Accounted /\ StatsInv'
<1>0. /\ SumsUp(stats) /\ Settlements(stats) \in Nat
      /\ call = [t \in Thread |-> call[t]] /\ Reader \subseteq Thread
      /\ \A r \in Reader : call[r] # IdleCall => Booked(call[r])
  BY DEF StatsInv, SumsUp, Settlements, ReadInv, ThreadInv, Figures, Thread
<1>1. \A r \in Reader : WalkEnds(r) => call[r] # IdleCall
  BY DEF WalkEnds, IdleCall
<1>2. CASE Quiet
  <2>0. PICK t \in Thread : \E w :
          /\ stats' = stats /\ call' = [call EXCEPT ![t] = w]
          /\ t = Owner \/ (w = IdleCall /\ ~WalkEnds(t)) \/ Booked(w)
    BY <1>2 DEF Quiet
  <2>1. PICK w : /\ stats' = stats /\ call' = [call EXCEPT ![t] = w]
                 /\ t = Owner \/ (w = IdleCall /\ ~WalkEnds(t)) \/ Booked(w)
    BY <2>0
  <2>2. \A r \in Reader : call'[r] = IF r = t THEN w ELSE call[r]
    BY <1>0, <2>1
  <2>3. \A r \in Reader : r # Owner
    BY ReadPathAssumption
  <2>4. \A r \in Reader : ~Over(r)
    BY <1>1, <2>1, <2>2, <2>3 DEF Booked, Over
  <2>5. \A r \in Reader : call'[r] # IdleCall => Booked(call'[r])
    BY <1>0, <2>1, <2>2, <2>3
  <2>6. ~(Settlements(stats') > Settlements(stats))
    BY <1>0, <2>1
  <2>7. SumsUp(stats')
    BY <1>0, <2>1
  <2>. QED
    BY <2>4, <2>5, <2>6, <2>7 DEF Accounted, StatsInv
<1>3. ASSUME NEW r \in Reader, Conclude(r) PROVE Accounted /\ StatsInv'
  <2>1. call' = [call EXCEPT ![r] = IdleCall] /\ WalkEnds(r)
    BY <1>3 DEF Conclude, Becomes
  <2>2. \A u \in Reader : call'[u] = IF u = r THEN IdleCall ELSE call[u]
    BY <1>0, <2>1
  <2>3. \A u \in Reader : Over(u) <=> u = r
    BY <1>1, <2>1, <2>2 DEF Over
  <2>4. \A u \in Reader : call'[u] # IdleCall => Booked(call'[u])
    BY <1>0, <2>2
  <2>5. SumsUp(stats') /\ Settlements(stats') = Settlements(stats) + Share(r)
    BY <1>3, ConcludePublishes
  <2>. QED
    BY <2>3, <2>4, <2>5 DEF Accounted, StatsInv
<1>4. CASE /\ call' = call
           /\ stats' \in {stats, NoStats} \cup {Probed(stats, key) : key \in Key}
  <2>1. \A r \in Reader : ~Over(r)
    BY <1>1, <1>4 DEF Over
  <2>2. SumsUp(stats') /\ ~(Settlements(stats') > Settlements(stats))
    <3>1. CASE stats' = stats
      BY <1>0, <3>1
    <3>2. CASE stats' = NoStats
      BY <1>0, <3>2, NoStatsZero
    <3>3. ASSUME NEW key \in Key, stats' = Probed(stats, key)
          PROVE  SumsUp(stats') /\ ~(Settlements(stats') > Settlements(stats))
      BY <1>0, <3>3, ProbedApart
    <3>. QED
      BY <1>4, <3>1, <3>2, <3>3
  <2>. QED
    BY <1>0, <1>4, <2>1, <2>2 DEF Accounted, StatsInv
<1>. QED
  BY <1>2, <1>3, <1>4, CountersMove

\* The figures of the classes add up to those of the whole, whatever fails, and
\* what a walk resolved and what it still looks for are its batch (the counters
\* of statistics.cpp, with any number of readers).
THEOREM StatsInvariant == Spec => []StatsInv
<1>1. Init => StatsInv
  <2>. SUFFICES ASSUME Init PROVE StatsInv
    OBVIOUS
  <2>1. stats = NoStats /\ call = [t \in Thread |-> IdleCall]
    BY DEF Init
  <2>2. \A r \in Reader : call[r] = IdleCall
    BY <2>1 DEF Thread
  <2>. QED
    BY <2>1, <2>2, NoStatsZero DEF StatsInv
<1>2. ReadInv /\ StatsInv /\ [Next]_vars => StatsInv'
  BY CountersStep
<1>. QED
  BY <1>1, <1>2, ReadInvariant, PTL DEF Spec

\* The counters move when a call returns and then by what it answered: a failed
\* resolution leaves no trace in them, a completed one counts each distinct key of
\* its batch once, and the figures of the classes add up (full_resolve and
\* statistics.cpp).
THEOREM StatsFollowAnswersHolds == Spec => StatsFollowAnswers
<1>1. ReadInv /\ StatsInv /\ [Next]_vars =>
        [ LET settled(s) == s.resolved + s.absent
              over(r) == WalkEnds(r) /\ call'[r] = IdleCall
          IN /\ \A r \in Reader : over(r) =>
                  settled(stats') = settled(stats)
                    + (IF Complete(r) THEN Cardinality(WorkingSet(call[r].batch)) ELSE 0)
             /\ settled(stats') > settled(stats) => \E r \in Reader : over(r)
             /\ Total(stats.lookup', "resolved") = stats'.resolved
             /\ Total(stats.lookup', "opened") = stats'.files
             /\ Total(stats.lookup', "distance") = stats'.distance ]_vars
  BY CountersStep DEF Accounted, Over, Settlements, Share, SumsUp
<1>. QED
  BY <1>1, ReadInvariant, StatsInvariant, PTL DEF Spec, StatsFollowAnswers
=============================================================================
