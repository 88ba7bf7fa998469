--------------------------- MODULE HistoryProofs ---------------------------
(* Theorems about History, for any number of messages, any page sizes and any *)
(* failures of Redis, MySQL and the producer.                                 *)
EXTENDS History, SequenceTheorems, FiniteSetTheorems, TLAPS

-----------------------------------------------------------------------------
(* The invariant *)

\* What is shown, requested or on its way is about messages that were sent: D is
\* their numbers.
Known(D) == [msg : D, stored : BOOLEAN]
KnownPage(D) == [msgs : Seq(Known(D)), more : BOOLEAN]
KnownFrame(D) == [kind : {"hello", "serverMessages", "serverRoomHistory"}, page : KnownPage(D)]

StoreTypes ==
    /\ timestamp \in Seq(Nat) /\ Len(timestamp) <= MaxMsgs
    /\ stream \in Seq(DOMAIN timestamp)
    /\ message_infos \subseteq DOMAIN timestamp
    /\ refused \subseteq DOMAIN timestamp
    /\ bus \subseteq Seq(DOMAIN timestamp)

SeenTypes ==
    /\ session \in {"none", "registered", "fetched", "open", "failed"}
    /\ subscribed \in BOOLEAN
    /\ hello \in KnownPage(DOMAIN timestamp)
    /\ snapshot \in 0..Len(stream)
    /\ gap \subseteq DOMAIN timestamp
    /\ requests \in Seq(Known(DOMAIN timestamp))
    /\ down \in Seq(KnownFrame(DOMAIN timestamp))
    /\ room_known \in BOOLEAN
    /\ messages \in Seq(Known(DOMAIN timestamp))
    /\ hasMoreMessages \in BOOLEAN
    /\ isAtTop \in BOOLEAN

AllStored(p) == \A i \in DOMAIN p.msgs : p.msgs[i].stored
IsHistory(i) == down[i].kind = "serverRoomHistory"

\* The hello frame is the first the client of an open session gets, and nothing is
\* shown before it.
Phases ==
    /\ room_known => session = "open"
    /\ session = "open" => subscribed
    /\ \A i \in DOMAIN down : down[i].kind = "hello" => i = 1 /\ session = "open" /\ ~room_known
    /\ session = "open" /\ ~room_known => down # <<>> /\ down[1] = Frame("hello", hello)
    /\ ~room_known => messages = <<>> /\ requests = <<>> /\ \A i \in DOMAIN down : ~IsHistory(i)

\* A page has stored ids only, and one that is said to have more before it is not
\* empty; so while the client may page, its first message has a stored id.
StoredFirst ==
    /\ session \in {"fetched", "open"} => AllStored(hello) /\ (hello.more => hello.msgs # <<>>)
    /\ \A i \in DOMAIN down : IsHistory(i) => AllStored(down[i].page)
    /\ hasMoreMessages \/ requests # <<>> \/ (\E i \in DOMAIN down : IsHistory(i)) =>
          ~room_known \/ (messages # <<>> /\ messages[1].stored)
    /\ ~room_known => ~hasMoreMessages
    /\ PagesFromStoredIds

\* From the hello answer on nothing stored is lost but the gap.
NothingLost ==
    session \in {"fetched", "open"} =>
        \A i \in (snapshot + 1)..Len(stream) :
            stream[i] \in Reached \cup InBus \cup gap \cup refused

PagesInv == StoreTypes /\ SeenTypes /\ Phases /\ StoredFirst /\ NothingLost

\* The stream is in the order of the messages.
Ordered == \A i, j \in DOMAIN stream : i < j => stream[i] < stream[j]

\* The m entries of the stream s before the k-th, newest first; all of them unless
\* it is said that there are more.
PageBefore(s, k, m) == [i \in 1..m |-> [msg |-> s[k - i], stored |-> TRUE]]
IsPageBefore(s, p, k) ==
    \E m \in 0..(k - 1) : p.msgs = PageBefore(s, k, m) /\ (p.more \/ m = k - 1)

\* The entries of the stream s from the a-th to the b-th, as the client has them.
Entries(s, a, b) == {[msg |-> s[i], stored |-> TRUE] : i \in a..b}
StoredPart(S) == {x \in S : x.stored}

\* What is shown of the stream is its entries from the k-th to the snapshot.  Every
\* request names one of them, every page on its way ends just before one of them:
\* so whatever arrives, in whatever order, makes a window again.
WindowFrom(k) ==
    /\ StoredPart(ToSet(messages)) = Entries(stream, k, snapshot)
    /\ hasMoreMessages \/ k = 1
    /\ \A i \in DOMAIN requests :
          \E h \in k..snapshot : requests[i] = [msg |-> stream[h], stored |-> TRUE]
    /\ \A i \in DOMAIN down :
          IsHistory(i) => \E h \in k..snapshot : IsPageBefore(stream, down[i].page, h)

\* A push has the ids handleSend made.
PushesUnstored ==
    \A i \in DOMAIN down : down[i].kind = "serverMessages" => \A x \in ToSet(down[i].page.msgs) : ~x.stored

WindowInv ==
    /\ Ordered
    /\ session \in {"fetched", "open"} => IsPageBefore(stream, hello, snapshot + 1)
    /\ PushesUnstored
    /\ room_known => \E k \in 1..(snapshot + 1) : WindowFrom(k)

-----------------------------------------------------------------------------
(* Numbers and sequences *)

LEMMA MinOfTwo ==
    ASSUME NEW a \in Nat, NEW b \in Nat
    PROVE  Min({a, b}) = IF a <= b THEN a ELSE b
<1> DEFINE m == IF a <= b THEN a ELSE b
<1>1. m \in {a, b} /\ \A y \in {a, b} : m <= y OBVIOUS
<1>2. \A x \in {a, b} : (\A y \in {a, b} : x <= y) => x = m OBVIOUS
<1> HIDE DEF m
<1>3. Min({a, b}) = m BY <1>1, <1>2 DEF Min
<1> QED BY <1>3 DEF m

LEMMA SeqOfMore ==
    ASSUME NEW S, NEW T, S \subseteq T
    PROVE  \A q \in Seq(S) : q \in Seq(T)
OBVIOUS

LEMMA ConcatSet ==
    ASSUME NEW S, NEW a \in Seq(S), NEW b \in Seq(S)
    PROVE  ToSet(a \o b) = ToSet(a) \cup ToSet(b)
<1>1. /\ a \o b \in Seq(S) /\ Len(a \o b) = Len(a) + Len(b) /\ Len(a) \in Nat /\ Len(b) \in Nat
      /\ \A i \in 1..(Len(a) + Len(b)) : (a \o b)[i] = IF i <= Len(a) THEN a[i] ELSE b[i - Len(a)]
  BY ConcatProperties
<1>2. DOMAIN a = 1..Len(a) /\ DOMAIN b = 1..Len(b) /\ DOMAIN (a \o b) = 1..(Len(a) + Len(b)) BY <1>1
<1>3. ASSUME NEW x \in ToSet(a) PROVE x \in ToSet(a \o b)
  <2>1. PICK i \in 1..Len(a) : x = a[i] BY <1>2 DEF ToSet
  <2>2. i \in 1..(Len(a) + Len(b)) /\ (a \o b)[i] = a[i] BY <1>1
  <2> QED BY <1>2, <2>1, <2>2 DEF ToSet
<1>4. ASSUME NEW x \in ToSet(b) PROVE x \in ToSet(a \o b)
  <2>1. PICK i \in 1..Len(b) : x = b[i] BY <1>2 DEF ToSet
  <2>2. i + Len(a) \in 1..(Len(a) + Len(b)) /\ (a \o b)[i + Len(a)] = b[i] BY <1>1
  <2> QED BY <1>2, <2>1, <2>2 DEF ToSet
<1>5. ASSUME NEW x \in ToSet(a \o b) PROVE x \in ToSet(a) \cup ToSet(b)
  <2>1. PICK i \in 1..(Len(a) + Len(b)) : x = (a \o b)[i] BY <1>2 DEF ToSet
  <2>2. CASE i <= Len(a)
    <3>1. x = a[i] /\ i \in 1..Len(a) BY <1>1, <2>1, <2>2
    <3> QED BY <1>2, <3>1 DEF ToSet
  <2>3. CASE i > Len(a)
    <3>1. x = b[i - Len(a)] /\ i - Len(a) \in 1..Len(b) BY <1>1, <2>1, <2>3
    <3> QED BY <1>2, <3>1 DEF ToSet
  <2> QED BY <1>1, <2>2, <2>3
<1> QED BY <1>3, <1>4, <1>5

LEMMA KnownElement ==
    ASSUME NEW D, NEW s \in Seq(Known(D)), NEW i \in DOMAIN s
    PROVE  s[i] \in Known(D) /\ s[i].msg \in D /\ s[i].stored \in BOOLEAN
<1>1. s[i] \in Known(D) OBVIOUS
<1> QED BY <1>1 DEF Known

LEMMA FunctionIsSeq ==
    ASSUME NEW S, NEW n \in Nat, NEW f \in [1..n -> S]
    PROVE  f \in Seq(S) /\ Len(f) = n
OBVIOUS

LEMMA UpToLen ==
    ASSUME NEW n \in Nat
    PROVE  IsFiniteSet(1..n) /\ Cardinality(1..n) = n
<1>1. 1 \in Int /\ n \in Int OBVIOUS
<1>2. IsFiniteSet(1..n) /\ Cardinality(1..n) = IF 1 > n THEN 0 ELSE n - 1 + 1 BY <1>1, FS_Interval
<1> QED BY <1>2

LEMMA KnownMore ==
    ASSUME NEW D, NEW E, D \subseteq E
    PROVE  /\ Known(D) \subseteq Known(E) /\ KnownPage(D) \subseteq KnownPage(E)
           /\ KnownFrame(D) \subseteq KnownFrame(E)
           /\ Seq(Known(D)) \subseteq Seq(Known(E)) /\ Seq(KnownFrame(D)) \subseteq Seq(KnownFrame(E))
<1>1. Known(D) \subseteq Known(E) BY DEF Known
<1>2. Seq(Known(D)) \subseteq Seq(Known(E)) BY <1>1, SeqOfMore
<1>3. KnownPage(D) \subseteq KnownPage(E) BY <1>2 DEF KnownPage
<1>4. KnownFrame(D) \subseteq KnownFrame(E) BY <1>3 DEF KnownFrame
<1>5. Seq(KnownFrame(D)) \subseteq Seq(KnownFrame(E)) BY <1>4, SeqOfMore
<1> QED BY <1>1, <1>2, <1>3, <1>4, <1>5

-----------------------------------------------------------------------------
(* The client's sort *)

\* A sequence sorted is the sequence permuted.
LEMMA SortPermutes ==
    ASSUME timestamp \in Seq(Nat), NEW s \in Seq(Known(DOMAIN timestamp))
    PROVE  \E p \in [DOMAIN s -> DOMAIN s] :
              /\ SortByTimestamp(s) = [k \in DOMAIN s |-> s[p[k]]]
              /\ \A j \in DOMAIN s : \E k \in DOMAIN s : p[k] = j
<1> DEFINE T(i) == timestamp[s[i].msg]
           D == DOMAIN s
           Before(i, j) == T(i) < T(j) \/ (T(i) = T(j) /\ i < j)
           Below(j) == {i \in D : Before(i, j)}
           Rank(j) == 1 + Cardinality(Below(j))
           n == Len(s)
           p == [k \in D |-> CHOOSE j \in D : Rank(j) = k]
<1>1. n \in Nat /\ D = 1..n OBVIOUS
<1>2. \A i \in D : T(i) \in Nat
  <2>1. \A i \in D : s[i].msg \in DOMAIN timestamp BY KnownElement
  <2> QED BY <2>1
<1>3. SortByTimestamp(s) = [k \in D |-> s[p[k]]] BY DEF SortByTimestamp
<1> HIDE DEF T
<1>4. IsFiniteSet(D) /\ Cardinality(D) = n BY <1>1, UpToLen
<1>5. \A j \in D : IsFiniteSet(Below(j)) /\ Cardinality(Below(j)) \in Nat
  <2> SUFFICES ASSUME NEW j \in D PROVE IsFiniteSet(Below(j)) /\ Cardinality(Below(j)) \in Nat OBVIOUS
  <2>1. Below(j) \in SUBSET D OBVIOUS
  <2> HIDE DEF Below, D
  <2> QED BY <1>4, <2>1, FS_Subset, FS_CardinalityType
<1>6. \A i, j \in D : i # j => Before(i, j) \/ Before(j, i) BY <1>1, <1>2
<1>7. ASSUME NEW i \in D, NEW j \in D, Before(i, j) PROVE Cardinality(Below(i)) < Cardinality(Below(j))
  <2>1. \A h \in D : Before(h, i) => Before(h, j) BY <1>1, <1>2, <1>7
  <2>2. ~Before(i, i) BY <1>1, <1>2
  <2>3. Below(i) \in SUBSET Below(j) /\ Below(i) # Below(j) BY <1>7, <2>1, <2>2
  <2> HIDE DEF Below, D
  <2> QED BY <1>5, <2>3, FS_Subset
<1>8. \A j \in D : Rank(j) \in 1..n
  <2> SUFFICES ASSUME NEW j \in D PROVE Rank(j) \in 1..n OBVIOUS
  <2>1. Below(j) \in SUBSET D /\ Below(j) # D BY <1>1, <1>2
  <2> HIDE DEF Below, D
  <2>2. Cardinality(Below(j)) <= n /\ Cardinality(Below(j)) # n BY <1>4, <2>1, FS_Subset
  <2> QED BY <1>1, <1>5, <2>2
<1>9. \A i, j \in D : Rank(i) = Rank(j) => i = j
  <2> HIDE DEF Below, Before, D
  <2> QED BY <1>5, <1>6, <1>7
<1> HIDE DEF Rank
<1>10. \A k \in D : \E j \in D : Rank(j) = k
  <2> DEFINE r == [j \in D |-> Rank(j)]
             R == {r[j] : j \in D}
  <2>1. r \in [D -> R] /\ r \in Surjection(D, R) BY DEF Surjection
  <2>2. r \in Injection(D, R) BY <1>9, <2>1 DEF Injection, IsInjective
  <2>3. R \in SUBSET D BY <1>1, <1>8
  <2> HIDE DEF r, R, D
  <2>4. Cardinality(R) = Cardinality(D) BY <1>4, <2>1, <2>2, FS_Surjection
  <2>5. R = D BY <1>4, <2>3, <2>4, FS_Subset
  <2> QED BY <2>5 DEF r, R
<1>11. \A k \in D : p[k] \in D /\ Rank(p[k]) = k
  <2> SUFFICES ASSUME NEW k \in D PROVE p[k] \in D /\ Rank(p[k]) = k OBVIOUS
  <2>1. p[k] = CHOOSE j \in D : Rank(j) = k OBVIOUS
  <2> HIDE DEF p, D
  <2> QED BY <1>10, <2>1
<1>12. p \in [D -> D] BY <1>11
<1>13. \A j \in D : \E k \in D : p[k] = j
  <2> SUFFICES ASSUME NEW j \in D PROVE \E k \in D : p[k] = j OBVIOUS
  <2>1. Rank(j) \in D BY <1>1, <1>8
  <2>2. Rank(p[Rank(j)]) = Rank(j) /\ p[Rank(j)] \in D BY <1>11, <2>1
  <2> HIDE DEF p, D
  <2> QED BY <1>9, <2>1, <2>2
<1> HIDE DEF p
<1> QED BY <1>3, <1>12, <1>13

\* The sort loses and invents nothing.
LEMMA SortKeeps ==
    ASSUME timestamp \in Seq(Nat), NEW s \in Seq(Known(DOMAIN timestamp))
    PROVE  /\ SortByTimestamp(s) \in Seq(Known(DOMAIN timestamp))
           /\ Len(SortByTimestamp(s)) = Len(s)
           /\ ToSet(SortByTimestamp(s)) = ToSet(s)
<1> DEFINE q == SortByTimestamp(s)
<1>1. PICK p \in [DOMAIN s -> DOMAIN s] :
         /\ q = [k \in DOMAIN s |-> s[p[k]]]
         /\ \A j \in DOMAIN s : \E k \in DOMAIN s : p[k] = j
  BY SortPermutes
<1> HIDE DEF q
<1>2. Len(s) \in Nat /\ DOMAIN s = 1..Len(s) /\ s \in [1..Len(s) -> Known(DOMAIN timestamp)] OBVIOUS
<1>3. q \in [1..Len(s) -> Known(DOMAIN timestamp)] BY <1>1, <1>2
<1>4. q \in Seq(Known(DOMAIN timestamp)) /\ Len(q) = Len(s) /\ DOMAIN q = DOMAIN s
  BY <1>2, <1>3, FunctionIsSeq
<1>5. ToSet(q) = ToSet(s) BY <1>1, <1>4 DEF ToSet
<1> QED BY <1>4, <1>5 DEF q

-----------------------------------------------------------------------------
(* getRoomHistory *)

\* The number of entries up to a reference.
LEMMA UpToRange ==
    ASSUME NEW D, stream \in Seq(D), NEW ref
    PROVE  UpTo(ref) \in 0..Len(stream)
<1> DEFINE S == {i \in DOMAIN stream :
                   \A j \in DOMAIN ref : stream[i] < ref[j].msg \/ (ref[j].stored /\ stream[i] = ref[j].msg)}
<1>1. Len(stream) \in Nat /\ DOMAIN stream = 1..Len(stream) OBVIOUS
<1>2. IsFiniteSet(1..Len(stream)) /\ Cardinality(1..Len(stream)) = Len(stream) BY <1>1, UpToLen
<1>3. S \in SUBSET (1..Len(stream)) BY <1>1
<1>4. UpTo(ref) = Cardinality(S) BY DEF UpTo
<1> HIDE DEF S
<1>5. IsFiniteSet(S) /\ Cardinality(S) <= Len(stream) BY <1>2, <1>3, FS_Subset
<1>6. Cardinality(S) \in Nat BY <1>5, FS_CardinalityType
<1> QED BY <1>1, <1>4, <1>5, <1>6

\* The page after the n newest entries up to ref, ref itself skipped if there is one.
LEMMA PageIs ==
    ASSUME NEW D, stream \in Seq(D), NEW ref, NEW r \in {0, 1}, Len(ref) = r, NEW n \in Nat
    PROVE  LET u == UpTo(ref)
               f == IF u <= n THEN u ELSE n
               m == IF f < r THEN 0 ELSE f - r
           IN  GetRoomHistory(ref, n)
                 = PageOf([i \in 1..m |-> [msg |-> stream[u + 1 - r - i], stored |-> TRUE]], f >= n)
<1> DEFINE u == UpTo(ref)
           f == IF u <= n THEN u ELSE n
           m == IF f < r THEN 0 ELSE f - r
           found == [i \in 1..f |-> stream[u + 1 - i]]
           kept == SubSeq(found, r + 1, f)
<1>1. u \in 0..Len(stream) /\ Len(stream) \in Nat BY UpToRange
<1>2. Xrevrange(ref, n) = found BY <1>1, MinOfTwo DEF Xrevrange
<1> HIDE DEF u
<1>3. f \in Nat /\ m \in Nat BY <1>1
<1>4. found \in Seq(D) /\ Len(found) = f
  <2>1. \A i \in 1..f : u + 1 - i \in 1..Len(stream) BY <1>1
  <2>2. \A i \in 1..Len(stream) : stream[i] \in D OBVIOUS
  <2>3. found \in [1..f -> D] BY <2>1, <2>2
  <2> HIDE DEF found, f
  <2> QED BY <1>3, <2>3
<1>5. GetRoomHistory(ref, n) = PageOf(Stored(kept), f >= n)
  <2> HIDE DEF found, f
  <2> QED BY <1>2, <1>4 DEF GetRoomHistory
<1>6. kept = [i \in 1..m |-> stream[u + 1 - r - i]]
  <2>1. kept = [i \in 1..(f - r) |-> found[r + i]] BY <1>3
  <2>2. 1..(f - r) = 1..m BY <1>3
  <2>3. \A i \in 1..m : found[r + i] = stream[u + 1 - r - i] BY <1>1, <1>3
  <2> HIDE DEF found, f, m
  <2> QED BY <2>1, <2>2, <2>3
<1>7. Stored(kept) = [i \in 1..m |-> [msg |-> stream[u + 1 - r - i], stored |-> TRUE]]
  <2> HIDE DEF m, kept
  <2> QED BY <1>6 DEF Stored
<1> HIDE DEF kept, found, f, m
<1>8. GetRoomHistory(ref, n) = PageOf([i \in 1..m |-> [msg |-> stream[u + 1 - r - i], stored |-> TRUE]], f >= n)
  BY <1>5, <1>7
<1> QED BY <1>8 DEF f, m, u

\* Every page has stored ids; the hello answer is empty only if there is no more.
LEMMA PageTypes ==
    ASSUME StoreTypes, NEW ref, NEW r \in {0, 1}, Len(ref) = r, NEW n \in Nat \ {0}
    PROVE  LET p == GetRoomHistory(ref, n) IN
             /\ p \in KnownPage(DOMAIN timestamp) /\ AllStored(p)
             /\ r = 0 /\ p.more => p.msgs # <<>>
<1> DEFINE D == DOMAIN timestamp
           u == UpTo(ref)
           f == IF u <= n THEN u ELSE n
           m == IF f < r THEN 0 ELSE f - r
           q == [i \in 1..m |-> [msg |-> stream[u + 1 - r - i], stored |-> TRUE]]
           p == GetRoomHistory(ref, n)
<1>1. stream \in Seq(D) BY DEF StoreTypes
<1>2. p = PageOf(q, f >= n)
  <2>1. n \in Nat OBVIOUS
  <2> QED BY <1>1, <2>1, PageIs
<1>3. u \in 0..Len(stream) /\ Len(stream) \in Nat BY <1>1, UpToRange
<1>4. m \in Nat /\ f \in Nat /\ \A i \in 1..m : u + 1 - r - i \in 1..Len(stream) BY <1>3
<1> HIDE DEF u, D
<1>5. \A i \in 1..m : [msg |-> stream[u + 1 - r - i], stored |-> TRUE] \in Known(D)
  <2>1. \A i \in 1..Len(stream) : stream[i] \in D BY <1>1
  <2>2. \A i \in 1..m : stream[u + 1 - r - i] \in D BY <1>4, <2>1
  <2> HIDE DEF m
  <2> QED BY <2>2 DEF Known
<1>6. q \in [1..m -> Known(D)] /\ \A i \in 1..m : q[i].stored
  <2> HIDE DEF m
  <2> QED BY <1>5
<1>7. r = 0 /\ f >= n => m # 0 BY <1>3
<1> HIDE DEF q
<1>8. q \in Seq(Known(D)) /\ Len(q) = m /\ DOMAIN q = 1..m
  <2> HIDE DEF m
  <2> QED BY <1>4, <1>6, FunctionIsSeq
<1>9. q = <<>> => m = 0 BY <1>8
<1>10. (f >= n) \in BOOLEAN OBVIOUS
<1> HIDE DEF p, m, f
<1>11. p.msgs = q /\ p.more = (f >= n) /\ p \in KnownPage(D)
  BY <1>2, <1>8, <1>10 DEF PageOf, KnownPage
<1>12. AllStored(p) BY <1>6, <1>8, <1>11 DEF AllStored
<1> QED BY <1>7, <1>9, <1>11, <1>12 DEF p, D

-----------------------------------------------------------------------------
(* handleSend *)

Batch(n) == [i \in 1..n |-> Len(timestamp) + i]

LEMMA BatchIs ==
    ASSUME timestamp \in Seq(Nat), NEW n \in Nat
    PROVE  /\ Batch(n) \in Seq(1..(Len(timestamp) + n)) /\ Len(Batch(n)) = n
           /\ DOMAIN Batch(n) = 1..n /\ \A i \in 1..n : Batch(n)[i] = Len(timestamp) + i
<1>1. Len(timestamp) \in Nat OBVIOUS
<1>2. Batch(n) \in [1..n -> 1..(Len(timestamp) + n)] BY <1>1 DEF Batch
<1>3. Batch(n) \in Seq(1..(Len(timestamp) + n)) /\ Len(Batch(n)) = n BY <1>2, FunctionIsSeq
<1> QED BY <1>3 DEF Batch

\* The messages sent so far stay as they are.
LEMMA SendStamps ==
    ASSUME timestamp \in Seq(Nat), NEW n \in Nat \ {0}, NEW t \in Stamps(n), timestamp' = timestamp \o t
    PROVE  /\ timestamp' \in Seq(Nat) /\ Len(timestamp') = Len(timestamp) + n
           /\ Len(timestamp) \in Nat
           /\ \A i \in 1..Len(timestamp) : timestamp'[i] = timestamp[i]
<1> DEFINE last == IF Len(timestamp) = 0 THEN 1 ELSE Last(timestamp)
<1>1. Len(timestamp) \in Nat /\ DOMAIN timestamp = 1..Len(timestamp) OBVIOUS
<1>2. last \in Nat
  <2>1. CASE Len(timestamp) = 0 BY <2>1
  <2>2. CASE Len(timestamp) # 0
    <3>1. Len(timestamp) \in DOMAIN timestamp BY <1>1, <2>2
    <3>2. timestamp[Len(timestamp)] \in Nat BY <3>1
    <3> QED BY <2>2, <3>2 DEF Last
  <2> QED BY <2>1, <2>2
<1>3. t \in [1..n -> last..(last + n)] BY DEF Stamps
<1> HIDE DEF last
<1>4. t \in [1..n -> Nat] BY <1>2, <1>3
<1>5. t \in Seq(Nat) /\ Len(t) = n BY <1>4, FunctionIsSeq
<1>6. /\ timestamp' \in Seq(Nat) /\ Len(timestamp') = Len(timestamp) + Len(t)
      /\ \A i \in 1..(Len(timestamp) + Len(t)) :
           timestamp'[i] = IF i <= Len(timestamp) THEN timestamp[i] ELSE t[i - Len(timestamp)]
  BY <1>5, ConcatProperties
<1> QED BY <1>1, <1>5, <1>6

\* What handleSend does to the store.
SendFacts(n, cached) ==
    /\ timestamp' \in Seq(Nat) /\ Len(timestamp') = Len(timestamp) + n /\ Len(timestamp') <= MaxMsgs
    /\ DOMAIN timestamp \subseteq DOMAIN timestamp'
    /\ stream' \in Seq(DOMAIN timestamp') /\ Len(stream') = Len(stream) + cached
    /\ \A i \in 1..Len(stream) : stream'[i] = stream[i]
    /\ \A i \in 1..cached : stream'[Len(stream) + i] = Len(timestamp) + i
    /\ bus \subseteq bus' /\ bus' \subseteq Seq(DOMAIN timestamp')
    /\ refused \subseteq refused' /\ refused' \subseteq DOMAIN timestamp'
    /\ message_infos' \subseteq DOMAIN timestamp'
    /\ Batch(n) \in bus' \/ ToSet(Batch(n)) \subseteq refused'
    /\ UNCHANGED <<comet_vars, requests, down, client_vars>>

LEMMA HandleSendFacts ==
    ASSUME StoreTypes, NEW n \in Nat \ {0}, NEW cached \in 0..n, NEW in_db \in BOOLEAN,
           NEW sent \in BOOLEAN, HandleSend(n, cached, in_db, sent)
    PROVE  SendFacts(n, cached)
<1> DEFINE L == Len(timestamp)
           E == DOMAIN timestamp'
           b == Batch(n)
<1>1. /\ timestamp \in Seq(Nat) /\ L \in Nat /\ stream \in Seq(DOMAIN timestamp) /\ Len(stream) \in Nat
      /\ DOMAIN timestamp = 1..L
  BY DEF StoreTypes
<1>2. PICK t \in Stamps(n) : timestamp' = timestamp \o t BY DEF HandleSend
<1>3. timestamp' \in Seq(Nat) /\ Len(timestamp') = L + n BY <1>1, <1>2, SendStamps
<1>4. E = 1..(L + n) /\ DOMAIN timestamp \subseteq E BY <1>1, <1>3
<1>5. b \in Seq(E) /\ Len(b) = n /\ DOMAIN b = 1..n /\ \A i \in 1..n : b[i] = L + i BY <1>1, <1>4, BatchIs
<1>6. /\ StoreMessagesToCache(b, cached) /\ StoreMessagesToDB(b, in_db)
      /\ bus' = IF sent THEN bus \cup {b} ELSE bus
      /\ refused' = IF sent THEN refused ELSE refused \cup ToSet(b)
      /\ L + n <= MaxMsgs
      /\ UNCHANGED <<comet_vars, requests, down, client_vars>>
  BY DEF HandleSend, Batch
<1> HIDE DEF E, b
<1>7. SubSeq(b, 1, cached) \in Seq(E) /\ Len(SubSeq(b, 1, cached)) = cached
      /\ \A i \in 1..cached : SubSeq(b, 1, cached)[i] = L + i
  <2>1. SubSeq(b, 1, cached) = [i \in 1..cached |-> b[i]] BY <1>5
  <2>2. \A i \in 1..cached : b[i] \in E /\ b[i] = L + i BY <1>5
  <2>3. SubSeq(b, 1, cached) \in [1..cached -> E] BY <2>1, <2>2
  <2> QED BY <2>1, <2>2, <2>3, FunctionIsSeq
<1>8. stream' = stream \o SubSeq(b, 1, cached) BY <1>6 DEF StoreMessagesToCache
<1>9. stream \in Seq(E) BY <1>1, <1>4, SeqOfMore DEF E
<1>10. /\ stream' \in Seq(E) /\ Len(stream') = Len(stream) + cached
       /\ \A i \in 1..Len(stream) : stream'[i] = stream[i]
       /\ \A i \in 1..cached : stream'[Len(stream) + i] = L + i
  <2>1. /\ stream' \in Seq(E) /\ Len(stream') = Len(stream) + cached
        /\ \A i \in 1..(Len(stream) + cached) :
             stream'[i] = IF i <= Len(stream) THEN stream[i] ELSE SubSeq(b, 1, cached)[i - Len(stream)]
    BY <1>7, <1>8, <1>9, ConcatProperties
  <2>2. \A i \in 1..cached : stream'[Len(stream) + i] = L + i
    <3> SUFFICES ASSUME NEW i \in 1..cached PROVE stream'[Len(stream) + i] = L + i OBVIOUS
    <3>1. /\ Len(stream) + i \in 1..(Len(stream) + cached) /\ ~(Len(stream) + i <= Len(stream))
          /\ Len(stream) + i - Len(stream) = i
      BY <1>1
    <3> QED BY <1>7, <2>1, <3>1
  <2> QED BY <1>1, <2>1, <2>2
<1>11. ToSet(b) \subseteq E BY <1>5 DEF ToSet
<1>12. message_infos' \subseteq E BY <1>4, <1>6, <1>11 DEF StoreMessagesToDB, StoreTypes, E
<1>13. bus \subseteq bus' /\ bus' \subseteq Seq(E)
  <2>1. \A x \in bus : x \in Seq(E) BY <1>4, SeqOfMore DEF StoreTypes, E
  <2> QED BY <1>5, <1>6, <2>1
<1>14. refused \subseteq refused' /\ refused' \subseteq E BY <1>4, <1>6, <1>11 DEF StoreTypes, E
<1>15. b \in bus' \/ ToSet(b) \subseteq refused' BY <1>6
<1> QED BY <1>3, <1>4, <1>6, <1>10, <1>12, <1>13, <1>14, <1>15 DEF SendFacts, E, b

-----------------------------------------------------------------------------
(* Frames *)

\* The client has taken the first frame.
LEMMA FrameTaken ==
    ASSUME SeenTypes, down # <<>>, down' = Tail(down)
    PROVE  /\ down' \in Seq(KnownFrame(DOMAIN timestamp))
           /\ 1 \in DOMAIN down /\ Head(down) = down[1]
           /\ down[1].kind \in {"hello", "serverMessages", "serverRoomHistory"}
           /\ down[1].page.msgs \in Seq(Known(DOMAIN timestamp)) /\ down[1].page.more \in BOOLEAN
           /\ \A i \in DOMAIN down' : i + 1 \in DOMAIN down /\ i + 1 # 1 /\ down'[i] = down[i + 1]
           /\ InFrames \subseteq ToSet(down[1].page.msgs) \cup InFrames'
<1> DEFINE F == KnownFrame(DOMAIN timestamp)
<1>1. down \in Seq(F) /\ Len(down) \in Nat /\ DOMAIN down = 1..Len(down) BY DEF SeenTypes
<1> HIDE DEF F
<1>2. down' \in Seq(F) /\ Len(down') = Len(down) - 1 /\ \A i \in 1..Len(down') : down'[i] = down[i + 1]
  BY <1>1, HeadTailProperties
<1>3. Len(down) # 0 BY <1>1, EmptySeq
<1>4. 1 \in DOMAIN down /\ Head(down) = down[1] /\ down[1] \in F BY <1>1, <1>3
<1>5. DOMAIN down' = 1..(Len(down) - 1) BY <1>2
<1>6. \A i \in DOMAIN down' : i + 1 \in DOMAIN down /\ i + 1 # 1 /\ down'[i] = down[i + 1]
  BY <1>1, <1>2, <1>5
<1>7. ASSUME NEW x \in InFrames PROVE x \in ToSet(down[1].page.msgs) \cup InFrames'
  <2>1. PICK i \in DOMAIN down : x \in ToSet(down[i].page.msgs) BY DEF InFrames
  <2>2. CASE i = 1 BY <2>1, <2>2
  <2>3. CASE i # 1
    <3>1. i - 1 \in DOMAIN down' /\ (i - 1) + 1 = i BY <1>1, <1>5, <2>3
    <3>2. down'[i - 1] = down[i] BY <1>6, <3>1
    <3> QED BY <2>1, <3>1, <3>2 DEF InFrames
  <2> QED BY <2>2, <2>3
<1> QED BY <1>2, <1>4, <1>6, <1>7 DEF F, KnownFrame, KnownPage

\* A frame is on its way.
LEMMA FrameAdded ==
    ASSUME SeenTypes, NEW f \in KnownFrame(DOMAIN timestamp), down' = Append(down, f)
    PROVE  /\ down' \in Seq(KnownFrame(DOMAIN timestamp))
           /\ \A i \in DOMAIN down : i \in DOMAIN down' /\ down'[i] = down[i]
           /\ \A i \in DOMAIN down' : (i \in DOMAIN down /\ down'[i] = down[i])
                                        \/ (i = Len(down) + 1 /\ down'[i] = f)
           /\ Len(down) + 1 \in DOMAIN down' /\ Len(down) + 1 \notin DOMAIN down
           /\ InFrames \cup ToSet(f.page.msgs) \subseteq InFrames'
<1> DEFINE F == KnownFrame(DOMAIN timestamp)
<1>1. down \in Seq(F) /\ Len(down) \in Nat /\ DOMAIN down = 1..Len(down) BY DEF SeenTypes
<1> HIDE DEF F
<1>2. /\ down' \in Seq(F) /\ Len(down') = Len(down) + 1
      /\ \A i \in 1..Len(down) : down'[i] = down[i]
      /\ down'[Len(down) + 1] = f
  BY <1>1, AppendProperties DEF F
<1>3. DOMAIN down' = 1..(Len(down) + 1) BY <1>1, <1>2
<1>4. \A i \in DOMAIN down : i \in DOMAIN down' /\ down'[i] = down[i] BY <1>1, <1>2, <1>3
<1>5. \A i \in DOMAIN down' : (i \in DOMAIN down /\ down'[i] = down[i])
                                \/ (i = Len(down) + 1 /\ down'[i] = f)
  BY <1>1, <1>2, <1>3
<1>6. Len(down) + 1 \in DOMAIN down' /\ Len(down) + 1 \notin DOMAIN down BY <1>1, <1>3
<1>7. ASSUME NEW x \in InFrames PROVE x \in InFrames'
  <2>1. PICK i \in DOMAIN down : x \in ToSet(down[i].page.msgs) BY DEF InFrames
  <2> QED BY <1>4, <2>1 DEF InFrames
<1>8. ASSUME NEW x \in ToSet(f.page.msgs) PROVE x \in InFrames'
  BY <1>2, <1>6, <1>8 DEF InFrames
<1> QED BY <1>2, <1>4, <1>5, <1>6, <1>7, <1>8 DEF F

\* The hello frame goes ahead.
LEMMA HelloAhead ==
    ASSUME SeenTypes, NEW f \in KnownFrame(DOMAIN timestamp), down' = <<f>> \o down
    PROVE  /\ down' \in Seq(KnownFrame(DOMAIN timestamp)) /\ down' # <<>> /\ down'[1] = f
           /\ \A i \in DOMAIN down' : i = 1 \/ (i - 1 \in DOMAIN down /\ down'[i] = down[i - 1])
           /\ InFrames \subseteq InFrames'
<1> DEFINE F == KnownFrame(DOMAIN timestamp)
<1>1. down \in Seq(F) /\ Len(down) \in Nat /\ DOMAIN down = 1..Len(down) BY DEF SeenTypes
<1>2. <<f>> \in Seq(F) /\ Len(<<f>>) = 1 /\ <<f>>[1] = f OBVIOUS
<1> HIDE DEF F
<1>3. /\ down' \in Seq(F) /\ Len(down') = 1 + Len(down)
      /\ \A i \in 1..(1 + Len(down)) : down'[i] = IF i <= 1 THEN <<f>>[i] ELSE down[i - 1]
  BY <1>1, <1>2, ConcatProperties
<1>4. DOMAIN down' = 1..(1 + Len(down)) BY <1>1, <1>3
<1>5. down' # <<>> /\ down'[1] = f BY <1>1, <1>2, <1>3
<1>6. \A i \in DOMAIN down' : i = 1 \/ (i - 1 \in DOMAIN down /\ down'[i] = down[i - 1])
  BY <1>1, <1>3, <1>4
<1>7. ASSUME NEW x \in InFrames PROVE x \in InFrames'
  <2>1. PICK i \in DOMAIN down : x \in ToSet(down[i].page.msgs) BY DEF InFrames
  <2>2. i + 1 \in DOMAIN down' /\ i + 1 # 1 /\ (i + 1) - 1 = i BY <1>1, <1>4
  <2>3. down'[i + 1] = down[i] BY <1>6, <2>2
  <2> QED BY <2>1, <2>2, <2>3 DEF InFrames
<1> QED BY <1>3, <1>5, <1>6, <1>7 DEF F

\* Messages on screen are followed by the ones of a frame, or preceded by them.
LEMMA MessagesJoined ==
    ASSUME StoreTypes, SeenTypes, NEW s \in Seq(Known(DOMAIN timestamp))
    PROVE  LET q == SortByTimestamp(s) IN
             /\ q \in Seq(Known(DOMAIN timestamp)) /\ Len(q) = Len(s) /\ ToSet(q) = ToSet(s)
             /\ messages \o q \in Seq(Known(DOMAIN timestamp))
             /\ q \o messages \in Seq(Known(DOMAIN timestamp))
             /\ ToSet(messages \o q) = ToSet(messages) \cup ToSet(s)
             /\ ToSet(q \o messages) = ToSet(messages) \cup ToSet(s)
             /\ messages # <<>> => messages \o q # <<>> /\ (messages \o q)[1] = messages[1]
             /\ messages # <<>> => q \o messages # <<>> /\ (q \o messages)[1] \in ToSet(s) \cup {messages[1]}
<1> DEFINE K == Known(DOMAIN timestamp)
           q == SortByTimestamp(s)
<1>1. timestamp \in Seq(Nat) /\ messages \in Seq(K) BY DEF StoreTypes, SeenTypes
<1>2. q \in Seq(K) /\ Len(q) = Len(s) /\ ToSet(q) = ToSet(s) BY <1>1, SortKeeps
<1> HIDE DEF q, K
<1>3. messages \o q \in Seq(K) /\ q \o messages \in Seq(K) BY <1>1, <1>2, ConcatProperties
<1>4. /\ ToSet(messages \o q) = ToSet(messages) \cup ToSet(s)
      /\ ToSet(q \o messages) = ToSet(messages) \cup ToSet(s)
  BY <1>1, <1>2, ConcatSet
<1>5. ASSUME messages # <<>>
      PROVE  /\ messages \o q # <<>> /\ (messages \o q)[1] = messages[1]
             /\ q \o messages # <<>> /\ (q \o messages)[1] \in ToSet(s) \cup {messages[1]}
  <2>1. Len(messages) \in Nat /\ Len(messages) # 0 /\ Len(q) \in Nat BY <1>1, <1>2, <1>5, EmptySeq
  <2>2. messages \o q # <<>> /\ (messages \o q)[1] = messages[1]
    BY <1>1, <1>2, <2>1, ConcatProperties
  <2>3. q \o messages # <<>> BY <1>1, <1>2, <1>5, ConcatEqualIffEmpty
  <2>4. CASE Len(q) = 0
    <3>1. q = <<>> BY <1>2, <2>4, EmptySeq
    <3>2. q \o messages = messages BY <1>1, <3>1, ConcatEmptySeq
    <3> QED BY <2>2, <2>3, <3>2
  <2>5. CASE Len(q) # 0
    <3>1. 1 \in 1..(Len(q) + Len(messages)) /\ 1 <= Len(q) /\ 1 \in DOMAIN q BY <1>2, <2>1, <2>5
    <3>2. (q \o messages)[1] = q[1] BY <1>1, <1>2, <3>1, ConcatProperties
    <3>3. q[1] \in ToSet(s) BY <1>2, <3>1 DEF ToSet
    <3> QED BY <2>2, <2>3, <3>2, <3>3
  <2> QED BY <2>4, <2>5
<1> QED BY <1>2, <1>3, <1>4, <1>5 DEF q, K

-----------------------------------------------------------------------------
(* The steps, for PagesInv *)

LEMMA NothingLostKept ==
    ASSUME NothingLost, session' \in {"fetched", "open"} => session \in {"fetched", "open"},
           UNCHANGED <<stream, snapshot>>,
           session \in {"fetched", "open"} =>
             Reached \cup InBus \cup gap \cup refused \subseteq Reached' \cup InBus' \cup gap' \cup refused'
    PROVE  NothingLost'
BY DEF NothingLost

LEMMA ReachedMore ==
    ASSUME ToSet(messages) \cup InFrames \subseteq ToSet(messages') \cup InFrames'
    PROVE  Reached \subseteq Reached'
BY DEF Reached

LEMMA SendPages ==
    ASSUME PagesInv, NEW n \in Nat \ {0}, NEW cached \in 0..n, NEW in_db \in BOOLEAN,
           NEW sent \in BOOLEAN, HandleSend(n, cached, in_db, sent)
    PROVE  PagesInv'
<1>1. StoreTypes /\ SeenTypes /\ NothingLost /\ SendFacts(n, cached) BY HandleSendFacts DEF PagesInv
<1> DEFINE D == DOMAIN timestamp
           E == DOMAIN timestamp'
<1>2. D \subseteq E BY <1>1 DEF SendFacts
<1>3. UNCHANGED <<session, subscribed, hello, snapshot, gap, requests, down, room_known, messages,
                  hasMoreMessages, isAtTop>>
  BY <1>1 DEF SendFacts, comet_vars, client_vars
<1>4. StoreTypes' BY <1>1 DEF SendFacts, StoreTypes
<1>5. Len(stream) \in Nat /\ Len(stream') = Len(stream) + cached /\ snapshot \in 0..Len(stream)
  BY <1>1 DEF SendFacts, StoreTypes, SeenTypes
<1>6. /\ KnownPage(D) \subseteq KnownPage(E) /\ Seq(Known(D)) \subseteq Seq(Known(E))
      /\ Seq(KnownFrame(D)) \subseteq Seq(KnownFrame(E))
  BY <1>2, KnownMore
<1>7. SeenTypes'
  <2>1. snapshot' \in 0..Len(stream') BY <1>3, <1>5
  <2> HIDE DEF D, E
  <2> QED BY <1>1, <1>2, <1>3, <1>6, <2>1 DEF SeenTypes, D, E
<1>8. Phases' BY <1>3 DEF PagesInv, Phases, IsHistory
<1>9. StoredFirst' BY <1>3 DEF PagesInv, StoredFirst, IsHistory, AllStored, PagesFromStoredIds
<1>10. NothingLost'
  <2>1. Reached' = Reached /\ gap' = gap /\ refused \subseteq refused' BY <1>1, <1>3 DEF Reached, InFrames, SendFacts
  <2>2. InBus \subseteq InBus' BY <1>1 DEF InBus, SendFacts
  <2>3. ToSet(Batch(n)) \subseteq InBus' \cup refused' BY <1>1 DEF InBus, SendFacts
  <2>4. ASSUME NEW i \in (snapshot + 1)..Len(stream'), session \in {"fetched", "open"}
        PROVE  stream'[i] \in Reached' \cup InBus' \cup gap' \cup refused'
    <3>1. CASE i <= Len(stream)
      <4>1. i \in (snapshot + 1)..Len(stream) /\ i \in 1..Len(stream) BY <1>5, <2>4, <3>1
      <4>2. stream'[i] = stream[i] BY <1>1, <4>1 DEF SendFacts
      <4>3. stream[i] \in Reached \cup InBus \cup gap \cup refused BY <1>1, <2>4, <4>1 DEF NothingLost
      <4> QED BY <2>1, <2>2, <4>2, <4>3
    <3>2. CASE i > Len(stream)
      <4>1. i - Len(stream) \in 1..cached /\ Len(stream) + (i - Len(stream)) = i BY <1>5, <2>4, <3>2
      <4>2. stream'[i] = Len(timestamp) + (i - Len(stream)) BY <1>1, <4>1 DEF SendFacts
      <4>3. i - Len(stream) \in 1..n BY <4>1
      <4>4. stream'[i] = Batch(n)[i - Len(stream)] /\ i - Len(stream) \in DOMAIN Batch(n)
        BY <1>1, <4>2, <4>3, BatchIs DEF StoreTypes
      <4>5. stream'[i] \in ToSet(Batch(n)) BY <4>4 DEF ToSet
      <4> QED BY <2>3, <4>5
    <3> QED BY <1>5, <2>4, <3>1, <3>2
  <2> QED BY <1>3, <2>4 DEF NothingLost
<1> QED BY <1>4, <1>7, <1>8, <1>9, <1>10 DEF PagesInv

\* A request leaves the queue.
LEMMA RequestTaken ==
    ASSUME SeenTypes, NEW i \in DOMAIN requests, requests' = RemoveAt(requests, i)
    PROVE  /\ requests' \in Seq(Known(DOMAIN timestamp)) /\ Len(requests') = Len(requests) - 1
           /\ requests # <<>> /\ Len(requests) \in Nat
           /\ \A j \in DOMAIN requests' : \E h \in DOMAIN requests : requests'[j] = requests[h]
<1> DEFINE K == Known(DOMAIN timestamp)
           a == SubSeq(requests, 1, i - 1)
           b == SubSeq(requests, i + 1, Len(requests))
<1>1. requests \in Seq(K) BY DEF SeenTypes
<1> HIDE DEF K
<1>2. Len(requests) \in Nat /\ DOMAIN requests = 1..Len(requests) /\ i \in 1..Len(requests) BY <1>1
<1>a. \A j \in 1..Len(requests) : requests[j] \in K BY <1>1
<1>3. a \in Seq(K) /\ Len(a) = i - 1 /\ \A j \in 1..(i - 1) : a[j] = requests[j]
  <2>1. a = [j \in 1..(i - 1) |-> requests[j]] BY <1>2
  <2>2. a \in [1..(i - 1) -> K]
    <3>1. \A j \in 1..(i - 1) : j \in 1..Len(requests) BY <1>2
    <3>2. \A j \in 1..(i - 1) : requests[j] \in K BY <1>a, <3>1
    <3> HIDE DEF a
    <3> QED BY <2>1, <3>2
  <2>3. i - 1 \in Nat BY <1>2
  <2> HIDE DEF a
  <2> QED BY <2>1, <2>2, <2>3, FunctionIsSeq
<1>4. b \in Seq(K) /\ Len(b) = Len(requests) - i /\ \A j \in 1..(Len(requests) - i) : b[j] = requests[i + j]
  <2> DEFINE m == Len(requests) - i
  <2>1. b = [j \in 1..m |-> requests[i + j]] BY <1>2
  <2>2. m \in Nat /\ \A j \in 1..m : i + j \in 1..Len(requests) BY <1>2
  <2>3. b \in [1..m -> K]
    <3>1. \A j \in 1..m : requests[i + j] \in K BY <1>a, <2>2
    <3> HIDE DEF b, m
    <3> QED BY <2>1, <3>1
  <2> HIDE DEF b, m
  <2>4. b \in Seq(K) /\ Len(b) = m /\ \A j \in 1..m : b[j] = requests[i + j]
    BY <2>1, <2>2, <2>3, FunctionIsSeq
  <2> QED BY <2>4 DEF m
<1>5. requests' = a \o b BY DEF RemoveAt
<1> HIDE DEF a, b
<1>6. /\ requests' \in Seq(K) /\ Len(requests') = Len(a) + Len(b)
      /\ \A j \in 1..(Len(a) + Len(b)) : requests'[j] = IF j <= Len(a) THEN a[j] ELSE b[j - Len(a)]
  BY <1>3, <1>4, <1>5, ConcatProperties
<1>7. ASSUME NEW j \in DOMAIN requests' PROVE \E h \in DOMAIN requests : requests'[j] = requests[h]
  <2>1. j \in 1..(Len(requests) - 1) BY <1>2, <1>3, <1>4, <1>6
  <2>2. CASE j <= i - 1
    <3>1. requests'[j] = requests[j] /\ j \in DOMAIN requests BY <1>2, <1>3, <1>4, <1>6, <2>1, <2>2
    <3> QED BY <3>1
  <2>3. CASE j > i - 1
    <3>1. j - (i - 1) \in 1..(Len(requests) - i) /\ i + (j - (i - 1)) = j + 1 BY <1>2, <2>1, <2>3
    <3>2. requests'[j] = b[j - (i - 1)] BY <1>2, <1>3, <1>4, <1>6, <2>1, <2>3
    <3>3. requests'[j] = requests[j + 1] /\ j + 1 \in DOMAIN requests BY <1>2, <1>4, <2>1, <3>1, <3>2
    <3> QED BY <3>3
  <2> QED BY <1>2, <2>1, <2>2, <2>3
<1>8. Len(requests') = Len(requests) - 1 BY <1>2, <1>3, <1>4, <1>6
<1>9. requests # <<>> BY <1>2
<1> QED BY <1>2, <1>6, <1>7, <1>8, <1>9 DEF K

\* logic answers a request.
LEMMA AnswerPages ==
    ASSUME PagesInv, NEW i \in DOMAIN requests, NEW ok \in BOOLEAN, HandleRoomHistory(i, ok)
    PROVE  PagesInv'
<1>1. StoreTypes /\ SeenTypes /\ NothingLost BY DEF PagesInv
<1>2. /\ UNCHANGED <<timestamp, stream, message_infos, refused, bus, session, subscribed, hello, snapshot, gap,
                     room_known, messages, hasMoreMessages, isAtTop>>
      /\ requests' = RemoveAt(requests, i)
  BY DEF HandleRoomHistory, store_vars, comet_vars, client_vars
<1>3. /\ requests' \in Seq(Known(DOMAIN timestamp)) /\ requests # <<>>
      /\ \A j \in DOMAIN requests' : \E h \in DOMAIN requests : requests'[j] = requests[h]
  BY <1>1, <1>2, RequestTaken
<1>4. PagesFromStoredIds' BY <1>3 DEF PagesInv, StoredFirst, PagesFromStoredIds
<1>5. room_known /\ messages # <<>> /\ messages[1].stored BY <1>3 DEF PagesInv, Phases, StoredFirst, SeenTypes
<1>6. session = "open" BY <1>5 DEF PagesInv, Phases
<1> DEFINE p == GetRoomHistory(<<requests[i]>>, PageCount)
           f == Frame("serverRoomHistory", p)
<1>7. p \in KnownPage(DOMAIN timestamp) /\ AllStored(p)
  <2>1. Len(<<requests[i]>>) = 1 /\ PageCount \in Nat \ {0} BY HistoryAssumption
  <2> QED BY <1>1, <2>1, PageTypes
<1> HIDE DEF p
<1>8. f \in KnownFrame(DOMAIN timestamp) /\ f.kind = "serverRoomHistory" /\ f.page = p
  BY <1>7 DEF Frame, KnownFrame
<1> HIDE DEF f
<1>9. down' = Append(down, f) \/ down' = down BY DEF HandleRoomHistory, f, p
<1>10. /\ down' \in Seq(KnownFrame(DOMAIN timestamp))
       /\ \A j \in DOMAIN down' : (j \in DOMAIN down /\ down'[j] = down[j]) \/ down'[j] = f
       /\ InFrames \subseteq InFrames'
  <2>1. CASE down' = Append(down, f) BY <1>1, <1>8, <2>1, FrameAdded
  <2>2. CASE down' = down BY <1>1, <2>2 DEF SeenTypes, InFrames
  <2> QED BY <1>9, <2>1, <2>2
<1>11. StoreTypes' /\ SeenTypes' BY <1>1, <1>2, <1>3, <1>10 DEF StoreTypes, SeenTypes
<1>12. Phases' BY <1>2, <1>5, <1>8, <1>10 DEF PagesInv, Phases, IsHistory
<1>13. StoredFirst'
  <2>1. \A j \in DOMAIN down' : IsHistory(j)' => AllStored(down'[j].page)
    BY <1>7, <1>8, <1>10 DEF PagesInv, StoredFirst, IsHistory
  <2> QED BY <1>2, <1>4, <1>5, <2>1 DEF PagesInv, StoredFirst, AllStored
<1>14. NothingLost'
  <2>1. Reached \subseteq Reached' BY <1>2, <1>10, ReachedMore
  <2>2. InBus' = InBus BY <1>2 DEF InBus
  <2> QED BY <1>1, <1>2, <2>1, <2>2, NothingLostKept
<1> QED BY <1>11, <1>12, <1>13, <1>14 DEF PagesInv

\* comet's handshake.
LEMMA HandshakePages ==
    ASSUME PagesInv, InsertConn \/ HandleHello \/ HandleHelloSkips \/ AddSubscriber
    PROVE  PagesInv'
<1>1. StoreTypes /\ SeenTypes /\ NothingLost BY DEF PagesInv
<1>2. /\ session # "open" /\ session' # "open"
      /\ UNCHANGED <<timestamp, stream, message_infos, refused, bus, gap, requests, down,
                     room_known, messages, hasMoreMessages, isAtTop>>
  BY DEF InsertConn, HandleHello, HandleHelloSkips, AddSubscriber, store_vars, client_vars
<1>3. ~room_known BY <1>2 DEF PagesInv, Phases
<1>4. StoreTypes' BY <1>1, <1>2 DEF StoreTypes
<1>5. Phases' BY <1>2, <1>3 DEF PagesInv, Phases, IsHistory
<1>6. Reached' = Reached /\ InBus' = InBus BY <1>2 DEF Reached, InFrames, InBus
<1>7. CASE HandleHello
  <2>1. session' = "fetched" /\ hello' = GetRoomHistory(<<>>, HelloCount) /\ snapshot' = Len(stream)
        /\ subscribed' = subscribed
    BY <1>7 DEF HandleHello
  <2>2. /\ hello' \in KnownPage(DOMAIN timestamp) /\ AllStored(hello')
        /\ hello'.more => hello'.msgs # <<>>
    <3>1. Len(<<>>) = 0 /\ HelloCount \in Nat \ {0} BY HistoryAssumption
    <3> QED BY <1>1, <2>1, <3>1, PageTypes
  <2>3. Len(stream) \in Nat BY <1>1 DEF StoreTypes
  <2>4. SeenTypes' BY <1>1, <1>2, <2>1, <2>2, <2>3 DEF SeenTypes
  <2>5. StoredFirst' BY <1>2, <1>3, <2>2 DEF PagesInv, StoredFirst, AllStored, IsHistory, PagesFromStoredIds
  <2>6. NothingLost' BY <1>2, <2>1, <2>3 DEF NothingLost
  <2> QED BY <1>4, <1>5, <2>4, <2>5, <2>6 DEF PagesInv
<1>8. CASE InsertConn \/ HandleHelloSkips \/ AddSubscriber
  <2>1. UNCHANGED <<hello, snapshot>> /\ (session' = session \/ session' \in {"registered", "failed"})
        /\ subscribed' \in BOOLEAN
    BY <1>1, <1>8 DEF InsertConn, HandleHelloSkips, AddSubscriber, SeenTypes
  <2>2. SeenTypes' BY <1>1, <1>2, <2>1 DEF SeenTypes
  <2>3. StoredFirst' BY <1>2, <1>3, <2>1 DEF PagesInv, StoredFirst, AllStored, IsHistory, PagesFromStoredIds
  <2>4. NothingLost' BY <1>1, <1>2, <1>6, <2>1, NothingLostKept
  <2> QED BY <1>4, <1>5, <2>2, <2>3, <2>4 DEF PagesInv
<1> QED BY <1>7, <1>8

LEMMA SendHelloPages ==
    ASSUME PagesInv, SendHelloMessage
    PROVE  PagesInv'
<1>1. StoreTypes /\ SeenTypes /\ NothingLost BY DEF PagesInv
<1>2. /\ session = "fetched" /\ session' = "open" /\ subscribed /\ down' = <<Frame("hello", hello)>> \o down
      /\ UNCHANGED <<timestamp, stream, message_infos, refused, bus, subscribed, hello, snapshot, gap, requests,
                     room_known, messages, hasMoreMessages, isAtTop>>
  BY DEF SendHelloMessage, store_vars, client_vars
<1>3. ~room_known BY <1>2 DEF PagesInv, Phases
<1> DEFINE f == Frame("hello", hello)
<1>4. f \in KnownFrame(DOMAIN timestamp) /\ f.kind = "hello" BY <1>1 DEF SeenTypes, Frame, KnownFrame
<1> HIDE DEF f
<1>5. /\ down' \in Seq(KnownFrame(DOMAIN timestamp)) /\ down' # <<>> /\ down'[1] = f
      /\ \A i \in DOMAIN down' : i = 1 \/ (i - 1 \in DOMAIN down /\ down'[i] = down[i - 1])
      /\ InFrames \subseteq InFrames'
  BY <1>1, <1>2, <1>4, HelloAhead DEF f
<1>6. \A i \in DOMAIN down : down[i].kind # "hello" /\ down[i].kind # "serverRoomHistory"
  BY <1>2, <1>3 DEF PagesInv, Phases, IsHistory
<1>7. \A i \in DOMAIN down' : down'[i].kind # "serverRoomHistory" /\ (down'[i].kind = "hello" => i = 1)
  BY <1>4, <1>5, <1>6
<1>8. StoreTypes' /\ SeenTypes' BY <1>1, <1>2, <1>5 DEF StoreTypes, SeenTypes
<1>9. Phases' BY <1>2, <1>3, <1>5, <1>7 DEF PagesInv, Phases, IsHistory, f
<1>10. StoredFirst' BY <1>2, <1>3, <1>7 DEF PagesInv, StoredFirst, AllStored, IsHistory, PagesFromStoredIds
<1>11. NothingLost'
  <2>1. Reached \subseteq Reached' BY <1>2, <1>5, ReachedMore
  <2>2. InBus' = InBus BY <1>2 DEF InBus
  <2> QED BY <1>1, <1>2, <2>1, <2>2, NothingLostKept
<1> QED BY <1>8, <1>9, <1>10, <1>11 DEF PagesInv

LEMMA PushedIs ==
    ASSUME NEW D, NEW b \in Seq(D)
    PROVE  Pushed(b) \in Seq(Known(D)) /\ {x.msg : x \in ToSet(Pushed(b))} = ToSet(b)
<1>1. Len(b) \in Nat /\ DOMAIN b = 1..Len(b) /\ \A i \in 1..Len(b) : b[i] \in D OBVIOUS
<1>2. Pushed(b) \in [1..Len(b) -> Known(D)] BY <1>1 DEF Pushed, Known
<1>3. Pushed(b) \in Seq(Known(D)) BY <1>1, <1>2, FunctionIsSeq
<1>4. DOMAIN Pushed(b) = DOMAIN b /\ \A i \in DOMAIN b : Pushed(b)[i].msg = b[i] BY DEF Pushed
<1>5. ASSUME NEW m \in ToSet(b) PROVE m \in {x.msg : x \in ToSet(Pushed(b))}
  <2>1. PICK i \in DOMAIN b : m = b[i] BY DEF ToSet
  <2>2. Pushed(b)[i] \in ToSet(Pushed(b)) BY <1>4 DEF ToSet
  <2> QED BY <1>4, <2>1, <2>2
<1>6. ASSUME NEW x \in ToSet(Pushed(b)) PROVE x.msg \in ToSet(b)
  <2>1. PICK i \in DOMAIN b : x = Pushed(b)[i] BY <1>4 DEF ToSet
  <2> QED BY <1>4, <2>1 DEF ToSet
<1> QED BY <1>3, <1>5, <1>6

\* job pushes a batch: it reaches the frames, or it falls into the gap.
LEMMA BroadcastPages ==
    ASSUME PagesInv, NEW batch \in bus, BroadcastRoom(batch)
    PROVE  PagesInv'
<1>1. StoreTypes /\ SeenTypes /\ NothingLost BY DEF PagesInv
<1> DEFINE f == Frame("serverMessages", PageOf(Pushed(batch), FALSE))
<1>2. /\ bus' = bus \ {batch} /\ down' = IF PushTo THEN Append(down, f) ELSE down
      /\ gap' = IF session = "fetched" /\ ~subscribed THEN gap \cup ToSet(batch) ELSE gap
      /\ UNCHANGED <<timestamp, stream, message_infos, refused, session, subscribed, hello, snapshot, requests,
                     room_known, messages, hasMoreMessages, isAtTop>>
  BY DEF BroadcastRoom, store_vars, client_vars
<1>3. batch \in Seq(DOMAIN timestamp) BY <1>1 DEF StoreTypes
<1>4. Pushed(batch) \in Seq(Known(DOMAIN timestamp)) /\ {x.msg : x \in ToSet(Pushed(batch))} = ToSet(batch)
  BY <1>3, PushedIs
<1>5. f \in KnownFrame(DOMAIN timestamp) /\ f.kind = "serverMessages" /\ f.page.msgs = Pushed(batch)
  BY <1>4 DEF Frame, PageOf, KnownFrame, KnownPage
<1> HIDE DEF f
<1>6. /\ down' \in Seq(KnownFrame(DOMAIN timestamp))
      /\ \A j \in DOMAIN down : j \in DOMAIN down' /\ down'[j] = down[j]
      /\ \A j \in DOMAIN down' : (j \in DOMAIN down /\ down'[j] = down[j]) \/ down'[j] = f
      /\ InFrames \subseteq InFrames'
      /\ PushTo => ToSet(Pushed(batch)) \subseteq InFrames'
  <2>1. CASE PushTo BY <1>1, <1>2, <1>5, <2>1, FrameAdded
  <2>2. CASE ~PushTo BY <1>1, <1>2, <2>2 DEF SeenTypes, InFrames
  <2> QED BY <2>1, <2>2
<1>7. ToSet(batch) \subseteq DOMAIN timestamp BY <1>3 DEF ToSet
<1>8. StoreTypes' BY <1>1, <1>2 DEF StoreTypes
<1>9. SeenTypes' BY <1>1, <1>2, <1>6, <1>7 DEF SeenTypes
<1>10. Phases'
  <2>1. down # <<>> => 1 \in DOMAIN down /\ down' # <<>>
    <3>1. down # <<>> => 1 \in DOMAIN down BY <1>1 DEF SeenTypes
    <3> QED BY <1>6, <3>1
  <2> QED BY <1>2, <1>5, <1>6, <2>1 DEF PagesInv, Phases, IsHistory
<1>11. StoredFirst' BY <1>2, <1>5, <1>6 DEF PagesInv, StoredFirst, AllStored, IsHistory, PagesFromStoredIds
<1>12. NothingLost'
  <2>1. Reached \subseteq Reached' BY <1>2, <1>6, ReachedMore
  <2>2. InBus \subseteq InBus' \cup ToSet(batch) BY <1>2 DEF InBus
  <2>3. PushTo => ToSet(batch) \subseteq Reached' BY <1>4, <1>6 DEF Reached
  <2>4. session \in {"fetched", "open"} => ToSet(batch) \subseteq Reached' \cup gap'
    BY <1>2, <2>3 DEF PagesInv, Phases, PushTo
  <2> QED BY <1>1, <1>2, <2>1, <2>2, <2>4, NothingLostKept
<1> QED BY <1>8, <1>9, <1>10, <1>11, <1>12 DEF PagesInv

-----------------------------------------------------------------------------
(* The client's steps *)

\* What the three reducers share.
LEMMA ReceivedFrame ==
    ASSUME PagesInv, NEW k, Received(k), down' = Tail(down),
           UNCHANGED <<store_vars, bus, comet_vars, requests, isAtTop>>
    PROVE  /\ UNCHANGED <<timestamp, stream, message_infos, refused, bus, session, subscribed, hello, snapshot, gap,
                          requests, isAtTop>>
           /\ StoreTypes /\ SeenTypes /\ NothingLost /\ StoreTypes' /\ InBus' = InBus
           /\ down' \in Seq(KnownFrame(DOMAIN timestamp)) /\ down # <<>> /\ 1 \in DOMAIN down
           /\ Head(down) = down[1] /\ down[1].kind = k
           /\ down[1].page.msgs \in Seq(Known(DOMAIN timestamp)) /\ down[1].page.more \in BOOLEAN
           /\ \A i \in DOMAIN down' : i + 1 \in DOMAIN down /\ i + 1 # 1 /\ down'[i] = down[i + 1]
           /\ \A i \in DOMAIN down' : down'[i].kind # "hello"
           /\ InFrames \subseteq ToSet(down[1].page.msgs) \cup InFrames'
<1>1. /\ UNCHANGED <<timestamp, stream, message_infos, refused, bus, session, subscribed, hello, snapshot, gap,
                     requests, isAtTop>>
      /\ StoreTypes /\ SeenTypes /\ NothingLost
  BY DEF PagesInv, store_vars, comet_vars
<1>2. StoreTypes' /\ InBus' = InBus BY <1>1 DEF StoreTypes, InBus
<1>3. down # <<>> /\ Head(down).kind = k BY DEF Received
<1>4. /\ down' \in Seq(KnownFrame(DOMAIN timestamp)) /\ 1 \in DOMAIN down /\ Head(down) = down[1]
      /\ down[1].page.msgs \in Seq(Known(DOMAIN timestamp)) /\ down[1].page.more \in BOOLEAN
      /\ \A i \in DOMAIN down' : i + 1 \in DOMAIN down /\ i + 1 # 1 /\ down'[i] = down[i + 1]
      /\ InFrames \subseteq ToSet(down[1].page.msgs) \cup InFrames'
  BY <1>1, <1>3, FrameTaken
<1>5. \A i \in DOMAIN down' : down'[i].kind # "hello" BY <1>4 DEF PagesInv, Phases
<1> QED BY <1>1, <1>2, <1>3, <1>4, <1>5

LEMMA SetInitialPages ==
    ASSUME PagesInv, DoSetInitialState
    PROVE  PagesInv'
<1> DEFINE q == SortByTimestamp(down[1].page.msgs)
<1>1. /\ Received("hello") /\ down' = Tail(down) /\ room_known' = TRUE
      /\ messages' = SortByTimestamp(Head(down).page.msgs) /\ hasMoreMessages' = Head(down).page.more
      /\ UNCHANGED <<store_vars, bus, comet_vars, requests, isAtTop>>
  BY DEF DoSetInitialState
<1>2. /\ UNCHANGED <<timestamp, stream, message_infos, refused, bus, session, subscribed, hello, snapshot, gap,
                     requests, isAtTop>>
      /\ StoreTypes /\ SeenTypes /\ NothingLost /\ StoreTypes' /\ InBus' = InBus
      /\ down' \in Seq(KnownFrame(DOMAIN timestamp)) /\ 1 \in DOMAIN down
      /\ Head(down) = down[1] /\ down[1].kind = "hello"
      /\ down[1].page.msgs \in Seq(Known(DOMAIN timestamp)) /\ down[1].page.more \in BOOLEAN
      /\ \A i \in DOMAIN down' : i + 1 \in DOMAIN down /\ i + 1 # 1 /\ down'[i] = down[i + 1]
      /\ \A i \in DOMAIN down' : down'[i].kind # "hello"
      /\ InFrames \subseteq ToSet(down[1].page.msgs) \cup InFrames'
  BY <1>1, ReceivedFrame
<1>3. session = "open" /\ ~room_known /\ down[1] = Frame("hello", hello) /\ messages = <<>> /\ requests = <<>>
  BY <1>2 DEF PagesInv, Phases
<1>4. down[1].page = hello BY <1>3 DEF Frame
<1>5. messages' = q /\ hasMoreMessages' = hello.more BY <1>1, <1>2, <1>4
<1>6. q \in Seq(Known(DOMAIN timestamp)) /\ Len(q) = Len(hello.msgs) /\ ToSet(q) = ToSet(hello.msgs)
  BY <1>2, <1>4, SortKeeps DEF StoreTypes
<1> HIDE DEF q
<1>7. \A i \in DOMAIN down' : down'[i].kind # "serverRoomHistory"
  BY <1>2, <1>3 DEF PagesInv, Phases, IsHistory
<1>8. SeenTypes' BY <1>1, <1>2, <1>4, <1>5, <1>6 DEF SeenTypes
<1>9. Phases' BY <1>1, <1>2, <1>3 DEF PagesInv, Phases
<1>10. StoredFirst'
  <2>1. AllStored(hello) /\ (hello.more => hello.msgs # <<>>) BY <1>3 DEF PagesInv, StoredFirst
  <2>2. ASSUME hello.more PROVE q # <<>> /\ q[1].stored
    <3>1. hello.msgs # <<>> /\ hello.msgs \in Seq(Known(DOMAIN timestamp)) BY <1>2, <1>4, <2>1, <2>2
    <3>2. Len(hello.msgs) \in Nat /\ Len(hello.msgs) # 0 BY <3>1, EmptySeq
    <3>3. 1 \in DOMAIN q /\ q # <<>> BY <1>6, <3>2
    <3>4. q[1] \in ToSet(hello.msgs) BY <1>6, <3>3 DEF ToSet
    <3>5. PICK i \in DOMAIN hello.msgs : q[1] = hello.msgs[i] BY <3>4 DEF ToSet
    <3> QED BY <2>1, <3>3, <3>5 DEF AllStored
  <2> QED BY <1>1, <1>2, <1>3, <1>5, <1>7, <2>1, <2>2
        DEF PagesInv, StoredFirst, IsHistory, PagesFromStoredIds, AllStored
<1>11. NothingLost'
  <2>1. ToSet(messages) \cup InFrames \subseteq ToSet(messages') \cup InFrames'
    <3>1. ToSet(messages) = {} BY <1>3 DEF ToSet
    <3> QED BY <1>2, <1>4, <1>5, <1>6, <3>1
  <2>2. Reached \subseteq Reached' BY <2>1, ReachedMore
  <2> QED BY <1>2, <2>2, NothingLostKept
<1> QED BY <1>2, <1>8, <1>9, <1>10, <1>11 DEF PagesInv

LEMMA AddMessagesPages ==
    ASSUME PagesInv, DoAddMessages
    PROVE  PagesInv'
<1> DEFINE s == down[1].page.msgs
           q == SortByTimestamp(s)
<1>1. /\ Received("serverMessages") /\ down' = Tail(down)
      /\ messages' = IF room_known THEN messages \o SortByTimestamp(Head(down).page.msgs) ELSE messages
      /\ UNCHANGED <<store_vars, bus, comet_vars, requests, isAtTop, room_known, hasMoreMessages>>
  BY DEF DoAddMessages
<1>2. /\ UNCHANGED <<timestamp, stream, message_infos, refused, bus, session, subscribed, hello, snapshot, gap,
                     requests, isAtTop>>
      /\ StoreTypes /\ SeenTypes /\ NothingLost /\ StoreTypes' /\ InBus' = InBus
      /\ down' \in Seq(KnownFrame(DOMAIN timestamp)) /\ down # <<>> /\ 1 \in DOMAIN down
      /\ Head(down) = down[1] /\ down[1].kind = "serverMessages"
      /\ s \in Seq(Known(DOMAIN timestamp))
      /\ \A i \in DOMAIN down' : i + 1 \in DOMAIN down /\ i + 1 # 1 /\ down'[i] = down[i + 1]
      /\ \A i \in DOMAIN down' : down'[i].kind # "hello"
      /\ InFrames \subseteq ToSet(s) \cup InFrames'
  BY <1>1, ReceivedFrame
<1>3. ~room_known => session # "open"
  <2>1. down[1].kind # "hello" BY <1>2
  <2>2. Frame("hello", hello).kind = "hello" BY DEF Frame
  <2> QED BY <2>1, <2>2 DEF PagesInv, Phases
<1> HIDE DEF s
<1>4. /\ messages \o q \in Seq(Known(DOMAIN timestamp))
      /\ ToSet(messages \o q) = ToSet(messages) \cup ToSet(s)
      /\ messages # <<>> => messages \o q # <<>> /\ (messages \o q)[1] = messages[1]
  BY <1>2, MessagesJoined
<1>5. messages' = IF room_known THEN messages \o q ELSE messages BY <1>1, <1>2 DEF s
<1> HIDE DEF q
<1>6. \A i \in DOMAIN down' : i + 1 \in DOMAIN down /\ (IsHistory(i)' <=> IsHistory(i + 1))
                                /\ down'[i].page = down[i + 1].page
  BY <1>2 DEF IsHistory
<1>7. SeenTypes'
  <2>1. messages' \in Seq(Known(DOMAIN timestamp)) BY <1>2, <1>4, <1>5 DEF SeenTypes
  <2> QED BY <1>1, <1>2, <2>1 DEF SeenTypes
<1>8. Phases' BY <1>1, <1>2, <1>3, <1>5, <1>6 DEF PagesInv, Phases
<1>9. StoredFirst'
  <2>1. \A i \in DOMAIN down' : IsHistory(i)' => AllStored(down'[i].page) BY <1>6 DEF PagesInv, StoredFirst
  <2>2. messages # <<>> /\ room_known => messages' # <<>> /\ messages'[1] = messages[1] BY <1>4, <1>5
  <2>3. hasMoreMessages \/ requests # <<>> \/ (\E i \in DOMAIN down' : IsHistory(i)') =>
          ~room_known \/ (messages' # <<>> /\ messages'[1].stored)
    BY <1>6, <2>2 DEF PagesInv, StoredFirst
  <2> QED BY <1>1, <1>2, <2>1, <2>3 DEF PagesInv, StoredFirst, AllStored, PagesFromStoredIds
<1>10. NothingLost'
  <2>1. CASE room_known
    <3>1. Reached \subseteq Reached' BY <1>2, <1>4, <1>5, <2>1, ReachedMore
    <3> QED BY <1>2, <3>1, NothingLostKept
  <2>2. CASE ~room_known
    <3>1. session = "failed" BY <1>1, <1>3, <2>2 DEF Received
    <3> QED BY <1>2, <3>1 DEF NothingLost
  <2> QED BY <2>1, <2>2
<1> QED BY <1>2, <1>7, <1>8, <1>9, <1>10 DEF PagesInv

LEMMA UpdateHistoryPages ==
    ASSUME PagesInv, UpdateRoomHistory
    PROVE  PagesInv'
<1> DEFINE s == down[1].page.msgs
           q == SortByTimestamp(s)
<1>1. /\ Received("serverRoomHistory") /\ down' = Tail(down) /\ room_known
      /\ messages' = SortByTimestamp(Head(down).page.msgs) \o messages
      /\ hasMoreMessages' = Head(down).page.more
      /\ UNCHANGED <<store_vars, bus, comet_vars, requests, isAtTop, room_known>>
  BY DEF UpdateRoomHistory
<1>2. /\ UNCHANGED <<timestamp, stream, message_infos, refused, bus, session, subscribed, hello, snapshot, gap,
                     requests, isAtTop>>
      /\ StoreTypes /\ SeenTypes /\ NothingLost /\ StoreTypes' /\ InBus' = InBus
      /\ down' \in Seq(KnownFrame(DOMAIN timestamp)) /\ down # <<>> /\ 1 \in DOMAIN down
      /\ Head(down) = down[1] /\ down[1].kind = "serverRoomHistory"
      /\ s \in Seq(Known(DOMAIN timestamp)) /\ down[1].page.more \in BOOLEAN
      /\ \A i \in DOMAIN down' : i + 1 \in DOMAIN down /\ i + 1 # 1 /\ down'[i] = down[i + 1]
      /\ \A i \in DOMAIN down' : down'[i].kind # "hello"
      /\ InFrames \subseteq ToSet(s) \cup InFrames'
  BY <1>1, ReceivedFrame
<1>3. IsHistory(1) BY <1>2 DEF IsHistory
<1>4. messages # <<>> /\ messages[1].stored BY <1>1, <1>2, <1>3 DEF PagesInv, StoredFirst
<1>5. \A x \in ToSet(s) : x.stored
  <2>1. AllStored(down[1].page) BY <1>2, <1>3 DEF PagesInv, StoredFirst
  <2> QED BY <2>1 DEF AllStored, ToSet
<1> HIDE DEF s
<1>6. /\ q \o messages \in Seq(Known(DOMAIN timestamp))
      /\ ToSet(q \o messages) = ToSet(messages) \cup ToSet(s)
      /\ q \o messages # <<>> /\ (q \o messages)[1] \in ToSet(s) \cup {messages[1]}
  BY <1>2, <1>4, MessagesJoined
<1>7. messages' = q \o messages BY <1>1, <1>2 DEF s
<1> HIDE DEF q
<1>8. \A i \in DOMAIN down' : i + 1 \in DOMAIN down /\ (IsHistory(i)' <=> IsHistory(i + 1))
                                /\ down'[i].page = down[i + 1].page
  BY <1>2 DEF IsHistory
<1>9. SeenTypes' BY <1>1, <1>2, <1>6, <1>7 DEF SeenTypes
<1>10. Phases' BY <1>1, <1>2 DEF PagesInv, Phases
<1>11. StoredFirst'
  <2>1. \A i \in DOMAIN down' : IsHistory(i)' => AllStored(down'[i].page) BY <1>8 DEF PagesInv, StoredFirst
  <2>2. messages' # <<>> /\ messages'[1].stored BY <1>4, <1>5, <1>6, <1>7
  <2> QED BY <1>1, <1>2, <2>1, <2>2 DEF PagesInv, StoredFirst, AllStored, PagesFromStoredIds
<1>12. NothingLost'
  <2>1. Reached \subseteq Reached' BY <1>2, <1>6, <1>7, ReachedMore
  <2> QED BY <1>2, <2>1, NothingLostKept
<1> QED BY <1>2, <1>9, <1>10, <1>11, <1>12 DEF PagesInv

LEMMA ScrollPages ==
    ASSUME PagesInv, ScrollRequestsHistory \/ ScrollToTop \/ ScrollDown
    PROVE  PagesInv'
<1>1. StoreTypes /\ SeenTypes /\ NothingLost BY DEF PagesInv
<1>2. /\ UNCHANGED <<timestamp, stream, message_infos, refused, bus, session, subscribed, hello, snapshot, gap,
                     down, room_known, messages, hasMoreMessages>>
      /\ isAtTop' \in BOOLEAN /\ room_known
  BY DEF ScrollRequestsHistory, ScrollToTop, ScrollDown, store_vars, comet_vars
<1>3. StoreTypes' /\ NothingLost' BY <1>1, <1>2 DEF StoreTypes, NothingLost, Reached, InFrames, InBus
<1>4. Phases' BY <1>2 DEF PagesInv, Phases, IsHistory
<1>5. CASE requests' = requests
  <2>1. SeenTypes' BY <1>1, <1>2, <1>5 DEF SeenTypes
  <2>2. StoredFirst' BY <1>2, <1>5 DEF PagesInv, StoredFirst, AllStored, IsHistory, PagesFromStoredIds
  <2> QED BY <1>3, <1>4, <2>1, <2>2 DEF PagesInv
<1>6. CASE ScrollRequestsHistory
  <2>1. hasMoreMessages /\ messages # <<>> /\ requests' = Append(requests, Head(messages))
    BY <1>6 DEF ScrollRequestsHistory
  <2>2. messages[1].stored BY <1>2, <2>1 DEF PagesInv, StoredFirst
  <2>3. Head(messages) = messages[1] /\ messages[1] \in Known(DOMAIN timestamp)
        /\ requests \in Seq(Known(DOMAIN timestamp))
    BY <1>1, <2>1 DEF SeenTypes
  <2>4. /\ requests' \in Seq(Known(DOMAIN timestamp)) /\ Len(requests') = Len(requests) + 1
        /\ \A i \in 1..Len(requests) : requests'[i] = requests[i]
        /\ requests'[Len(requests) + 1] = messages[1] /\ Len(requests) \in Nat
    BY <2>1, <2>3, AppendProperties
  <2>5. \A i \in DOMAIN requests' : requests'[i].stored
    <3>1. DOMAIN requests' = 1..(Len(requests) + 1) /\ DOMAIN requests = 1..Len(requests) BY <2>3, <2>4
    <3> QED BY <2>2, <2>4, <3>1 DEF PagesInv, StoredFirst, PagesFromStoredIds
  <2>6. SeenTypes' BY <1>1, <1>2, <2>4 DEF SeenTypes
  <2>7. StoredFirst' BY <1>2, <2>1, <2>2, <2>5 DEF PagesInv, StoredFirst, AllStored, IsHistory, PagesFromStoredIds
  <2> QED BY <1>3, <1>4, <2>6, <2>7 DEF PagesInv
<1> QED BY <1>5, <1>6 DEF ScrollToTop, ScrollDown

LEMMA InitPages == ASSUME Init PROVE PagesInv
<1>1. <<>> \in Seq(Nat) /\ Len(<<>>) = 0 /\ DOMAIN <<>> = {} OBVIOUS
<1>2. StoreTypes
  <2>1. <<>> \in Seq(DOMAIN timestamp) /\ MaxMsgs \in Nat BY HistoryAssumption
  <2> QED BY <1>1, <2>1 DEF Init, StoreTypes
<1>3. hello.msgs = <<>> /\ hello.more = FALSE /\ hello = EmptyPage BY DEF Init, EmptyPage, PageOf
<1>4. SeenTypes
  <2>1. <<>> \in Seq(Known(DOMAIN timestamp)) /\ <<>> \in Seq(KnownFrame(DOMAIN timestamp)) OBVIOUS
  <2>2. hello \in KnownPage(DOMAIN timestamp) BY <1>3, <2>1 DEF EmptyPage, PageOf, KnownPage
  <2>3. subscribed \in BOOLEAN BY HistoryAssumption DEF Init
  <2>4. snapshot \in 0..Len(stream) BY <1>1 DEF Init
  <2> QED BY <2>1, <2>2, <2>3, <2>4 DEF Init, SeenTypes
<1>5. DOMAIN down = {} /\ DOMAIN requests = {} BY <1>1 DEF Init
<1>6. Phases BY <1>5 DEF Init, Phases
<1>7. StoredFirst BY <1>5 DEF Init, StoredFirst, PagesFromStoredIds
<1>8. NothingLost BY DEF Init, NothingLost
<1> QED BY <1>2, <1>4, <1>6, <1>7, <1>8 DEF PagesInv

LEMMA NextPages == ASSUME PagesInv, [Next]_vars PROVE PagesInv'
<1>1. ASSUME NEW n \in 1..MaxBatch, NEW cached \in 0..MaxBatch, NEW in_db \in BOOLEAN, NEW sent \in BOOLEAN,
             cached <= n, HandleSend(n, cached, in_db, sent)
      PROVE  PagesInv'
  <2>1. n \in Nat \ {0} /\ cached \in 0..n BY <1>1, HistoryAssumption
  <2> QED BY <1>1, <2>1, SendPages
<1>2. CASE UNCHANGED vars
  <2>1. UNCHANGED <<timestamp, stream, message_infos, refused, bus, session, subscribed, hello, snapshot, gap,
                    requests, down, room_known, messages, hasMoreMessages, isAtTop>>
    BY <1>2 DEF vars, store_vars, comet_vars, client_vars
  <2>2. StoreTypes' BY <2>1 DEF PagesInv, StoreTypes
  <2>3. SeenTypes' BY <2>1 DEF PagesInv, SeenTypes
  <2>4. Phases' BY <2>1 DEF PagesInv, Phases, IsHistory
  <2>5. StoredFirst' BY <2>1 DEF PagesInv, StoredFirst, AllStored, IsHistory, PagesFromStoredIds
  <2>6. NothingLost' BY <2>1 DEF PagesInv, NothingLost, Reached, InFrames, InBus
  <2> QED BY <2>2, <2>3, <2>4, <2>5, <2>6 DEF PagesInv
<1> QED BY <1>1, <1>2, AnswerPages, HandshakePages, SendHelloPages, BroadcastPages, SetInitialPages,
           AddMessagesPages, UpdateHistoryPages, ScrollPages DEF Next

LEMMA PagesInvHolds == Spec => []PagesInv
<1>1. Init => PagesInv BY InitPages
<1>2. PagesInv /\ [Next]_vars => PagesInv' BY NextPages
<1> QED BY <1>1, <1>2, PTL DEF Spec

\* The client pages back only from ids that Redis gave (handleScroll): a room that
\* is said to have more begins with a stored message, whatever is pushed meanwhile,
\* however many requests are outstanding and whichever fail.
THEOREM PagesFromStored == Spec => []PagesFromStoredIds
<1>1. PagesInv => PagesFromStoredIds BY DEF PagesInv, StoredFirst
<1> QED BY <1>1, PagesInvHolds, PTL

\* A message stored after the hello answer was made is on screen, in a frame on its
\* way, still to be pushed or refused by the producer - or it fell between the answer
\* and the subscription of a user who was not subscribed before.
THEOREM OnlyTheGapIsMissed == Spec => []MissesOnlyTheGap
<1>1. PagesInv => MissesOnlyTheGap BY DEF PagesInv, NothingLost, MissesOnlyTheGap
<1> QED BY <1>1, PagesInvHolds, PTL

-----------------------------------------------------------------------------
(* Pages *)

\* Redis gives the entries of a stream in the order handleSend made them.
LEMMA StreamIncreases ==
    ASSUME StoreTypes, NEW n \in Nat \ {0}, NEW cached \in 0..n, SendFacts(n, cached),
           \A i, j \in DOMAIN stream : i < j => stream[i] < stream[j]
    PROVE  \A i, j \in DOMAIN stream' : i < j => stream'[i] < stream'[j]
<1> DEFINE L == Len(timestamp)
           S == Len(stream)
<1>1. /\ L \in Nat /\ S \in Nat /\ DOMAIN stream = 1..S /\ \A i \in 1..S : stream[i] \in 1..L
      /\ DOMAIN timestamp = 1..L
  BY DEF StoreTypes
<1>2. /\ stream' \in Seq(DOMAIN timestamp') /\ Len(stream') = S + cached
      /\ \A i \in 1..S : stream'[i] = stream[i]
      /\ \A i \in 1..cached : stream'[S + i] = L + i
  BY DEF SendFacts
<1>3. DOMAIN stream' = 1..(S + cached) BY <1>1, <1>2
<1>4. \A j \in (S + 1)..(S + cached) : stream'[j] = L + (j - S)
  <2> SUFFICES ASSUME NEW j \in (S + 1)..(S + cached) PROVE stream'[j] = L + (j - S) OBVIOUS
  <2>1. j - S \in 1..cached /\ S + (j - S) = j BY <1>1
  <2> QED BY <1>2, <2>1
<1> HIDE DEF L, S
<1>5. ASSUME NEW i \in 1..(S + cached), NEW j \in 1..(S + cached), i < j PROVE stream'[i] < stream'[j]
  <2>1. CASE j <= S
    <3>1. i \in 1..S /\ j \in 1..S BY <1>1, <1>5, <2>1
    <3> QED BY <1>1, <1>2, <1>5, <3>1
  <2>2. CASE j > S /\ i <= S
    <3>1. i \in 1..S /\ j \in (S + 1)..(S + cached) BY <1>1, <2>2
    <3>2. stream'[i] \in 1..L BY <1>1, <1>2, <3>1
    <3> QED BY <1>1, <1>4, <3>1, <3>2
  <2>3. CASE i > S
    <3>1. i \in (S + 1)..(S + cached) /\ j \in (S + 1)..(S + cached) BY <1>1, <1>5, <2>3
    <3> QED BY <1>1, <1>4, <1>5, <3>1
  <2> QED BY <1>1, <2>1, <2>2, <2>3
<1> QED BY <1>3, <1>5

\* A page stays a page when the stream grows.
LEMMA PageKept ==
    ASSUME NEW s, NEW t, NEW p, NEW N \in Nat, NEW k \in 1..(N + 1), \A i \in 1..N : t[i] = s[i],
           IsPageBefore(s, p, k)
    PROVE  IsPageBefore(t, p, k)
<1>1. PICK m \in 0..(k - 1) : p.msgs = PageBefore(s, k, m) /\ (p.more \/ m = k - 1) BY DEF IsPageBefore
<1>2. \A i \in 1..m : k - i \in 1..N OBVIOUS
<1>3. PageBefore(t, k, m) = PageBefore(s, k, m) BY <1>2 DEF PageBefore
<1> QED BY <1>1, <1>3 DEF IsPageBefore

\* The hello answer is the page before the end of the stream ...
LEMMA HelloIsPage ==
    ASSUME StoreTypes
    PROVE  IsPageBefore(stream, GetRoomHistory(<<>>, HelloCount), Len(stream) + 1)
<1> DEFINE S == Len(stream)
           n == HelloCount
           p == GetRoomHistory(<<>>, n)
           f == IF S <= n THEN S ELSE n
<1>1. stream \in Seq(DOMAIN timestamp) /\ S \in Nat /\ n \in Nat /\ DOMAIN stream = 1..S /\ Len(<<>>) = 0
  BY HistoryAssumption DEF StoreTypes
<1>2. UpTo(<<>>) = S
  <2>1. {i \in DOMAIN stream : \A j \in DOMAIN <<>> :
           stream[i] < <<>>[j].msg \/ (<<>>[j].stored /\ stream[i] = <<>>[j].msg)} = 1..S
    BY <1>1
  <2>2. Cardinality(1..S) = S BY <1>1, UpToLen
  <2> QED BY <2>1, <2>2 DEF UpTo
<1>3. p = PageOf([i \in 1..f |-> [msg |-> stream[S + 1 - i], stored |-> TRUE]], f >= n)
  <2> DEFINE e == <<>>
             r == 0
             m == IF f < r THEN 0 ELSE f - r
  <2>1. r \in {0, 1} /\ Len(e) = r /\ UpTo(e) = S /\ p = GetRoomHistory(e, n) BY <1>1, <1>2
  <2>2. m = f /\ \A i \in 1..f : S + 1 - r - i = S + 1 - i BY <1>1
  <2> HIDE DEF S, n, e, r, p
  <2>3. LET u == UpTo(e)
            g == IF u <= n THEN u ELSE n
            h == IF g < r THEN 0 ELSE g - r
        IN  GetRoomHistory(e, n) = PageOf([i \in 1..h |-> [msg |-> stream[u + 1 - r - i], stored |-> TRUE]], g >= n)
    BY <1>1, <2>1, PageIs
  <2>4. p = PageOf([i \in 1..m |-> [msg |-> stream[S + 1 - r - i], stored |-> TRUE]], f >= n)
    BY <2>1, <2>3
  <2> HIDE DEF f, m
  <2> QED BY <1>1, <2>2, <2>4
<1>4. PICK k \in Nat : k = S + 1 BY <1>1
<1>5. f \in 0..(k - 1) /\ (f >= n \/ f = k - 1) /\ \A i \in 1..f : S + 1 - i = k - i BY <1>1, <1>4
<1> HIDE DEF f, S, n, p
<1>6. p.msgs = PageBefore(stream, k, f) /\ p.more = (f >= n) BY <1>3, <1>5 DEF PageOf, PageBefore
<1>7. IsPageBefore(stream, p, k) BY <1>5, <1>6 DEF IsPageBefore
<1> QED BY <1>4, <1>7 DEF S, n, p

\* ... and the answer to a request the page before the message it names.
LEMMA AnswerIsPage ==
    ASSUME StoreTypes, Ordered, NEW k \in DOMAIN stream, NEW r, r = [msg |-> stream[k], stored |-> TRUE]
    PROVE  IsPageBefore(stream, GetRoomHistory(<<r>>, PageCount), k)
<1> DEFINE S == Len(stream)
           n == PageCount
           p == GetRoomHistory(<<r>>, n)
           f == IF k <= n THEN k ELSE n
           m == IF f < 1 THEN 0 ELSE f - 1
<1>1. /\ stream \in Seq(DOMAIN timestamp) /\ S \in Nat /\ n \in Nat /\ n > 1 /\ DOMAIN stream = 1..S /\ Len(<<r>>) = 1
      /\ k \in 1..S /\ \A i \in 1..S : stream[i] \in Nat
  <2>1. /\ stream \in Seq(DOMAIN timestamp) /\ S \in Nat /\ DOMAIN stream = 1..S /\ k \in 1..S
        /\ \A i \in 1..S : stream[i] \in DOMAIN timestamp
    BY DEF StoreTypes
  <2>2. DOMAIN timestamp \subseteq Nat BY DEF StoreTypes
  <2>3. n \in Nat /\ n > 1 /\ Len(<<r>>) = 1 BY HistoryAssumption
  <2> QED BY <2>1, <2>2, <2>3
<1>2. UpTo(<<r>>) = k
  <2> DEFINE ref == <<r>>
             T == {i \in DOMAIN stream : \A j \in DOMAIN ref :
                     stream[i] < ref[j].msg \/ (ref[j].stored /\ stream[i] = ref[j].msg)}
  <2>1. DOMAIN ref = {1} /\ ref[1].msg = stream[k] /\ ref[1].stored OBVIOUS
  <2>2. T = {i \in 1..S : stream[i] < stream[k] \/ stream[i] = stream[k]}
    <3> HIDE DEF ref, S
    <3> QED BY <1>1, <2>1
  <2>3. T = 1..k
    <3>1. \A i, j \in 1..S : i < j => stream[i] < stream[j] BY <1>1 DEF Ordered
    <3>2. ASSUME NEW i \in 1..S PROVE (stream[i] < stream[k] \/ stream[i] = stream[k]) <=> i <= k
      <4>1. CASE i < k BY <1>1, <3>1, <4>1
      <4>2. CASE i = k BY <4>2
      <4>3. CASE i > k
        <5>1. stream[k] < stream[i] BY <1>1, <3>1, <4>3
        <5> QED BY <1>1, <4>3, <5>1
      <4> QED BY <1>1, <4>1, <4>2, <4>3
    <3> HIDE DEF T, S
    <3> QED BY <1>1, <2>2, <3>2
  <2>4. Cardinality(1..k) = k BY <1>1, UpToLen
  <2>5. UpTo(ref) = Cardinality(T) BY DEF UpTo
  <2> QED BY <2>3, <2>4, <2>5
<1>3. p = PageOf([i \in 1..m |-> [msg |-> stream[k + 1 - 1 - i], stored |-> TRUE]], f >= n)
  <2>1. 1 \in {0, 1} OBVIOUS
  <2> HIDE DEF S, n
  <2> QED BY <1>1, <1>2, <2>1, PageIs DEF p
<1>4. m \in 0..(k - 1) /\ (f >= n \/ m = k - 1) BY <1>1
<1>5. \A i \in 1..m : k + 1 - 1 - i = k - i BY <1>1
<1> HIDE DEF f, m, S, n, p
<1>6. p.msgs = PageBefore(stream, k, m) /\ p.more = (f >= n) BY <1>3, <1>5 DEF PageOf, PageBefore
<1> QED BY <1>4, <1>6 DEF IsPageBefore, n, p

-----------------------------------------------------------------------------
(* The steps, for WindowInv *)

\* A page as a set: the m entries before the k-th.
LEMMA PageSet ==
    ASSUME NEW s, NEW k \in Nat, NEW m \in 0..(k - 1)
    PROVE  ToSet(PageBefore(s, k, m)) = Entries(s, k - m, k - 1)
<1> DEFINE p == PageBefore(s, k, m)
<1>1. DOMAIN p = 1..m /\ \A i \in 1..m : p[i] = [msg |-> s[k - i], stored |-> TRUE] BY DEF PageBefore
<1> HIDE DEF p
<1>2. ASSUME NEW i \in 1..m PROVE p[i] \in Entries(s, k - m, k - 1)
  <2>1. k - i \in (k - m)..(k - 1) OBVIOUS
  <2> QED BY <1>1, <2>1 DEF Entries
<1>3. ASSUME NEW j \in (k - m)..(k - 1) PROVE [msg |-> s[j], stored |-> TRUE] \in ToSet(p)
  <2>1. k - j \in 1..m /\ k - (k - j) = j OBVIOUS
  <2>2. p[k - j] = [msg |-> s[j], stored |-> TRUE] BY <1>1, <2>1
  <2> QED BY <1>1, <2>1, <2>2 DEF ToSet
<1>4. ToSet(p) \subseteq Entries(s, k - m, k - 1) BY <1>1, <1>2 DEF ToSet
<1>5. Entries(s, k - m, k - 1) \subseteq ToSet(p) BY <1>3 DEF Entries
<1> QED BY <1>4, <1>5 DEF p

\* Entries are stored; a window and a page that ends in it or just before it make one
\* window.
LEMMA EntriesStored ==
    ASSUME NEW s, NEW a, NEW b
    PROVE  StoredPart(Entries(s, a, b)) = Entries(s, a, b)
<1>1. \A x \in Entries(s, a, b) : x.stored BY DEF Entries
<1> QED BY <1>1 DEF StoredPart

LEMMA WindowsJoin ==
    ASSUME NEW s, NEW a \in Nat, NEW b \in Nat, NEW k \in Nat, NEW h \in k..b, a <= h
    PROVE  Entries(s, a, h - 1) \cup Entries(s, k, b) = Entries(s, IF a < k THEN a ELSE k, b)
<1> DEFINE c == IF a < k THEN a ELSE k
<1>1. \A i \in a..(h - 1) : i \in c..b OBVIOUS
<1>2. \A i \in k..b : i \in c..b OBVIOUS
<1>3. \A i \in c..b : i \in a..(h - 1) \/ i \in k..b OBVIOUS
<1> HIDE DEF c
<1>4. Entries(s, a, h - 1) \cup Entries(s, k, b) = Entries(s, c, b) BY <1>1, <1>2, <1>3 DEF Entries
<1> QED BY <1>4 DEF c

LEMMA SendWindow ==
    ASSUME PagesInv, WindowInv, NEW n \in Nat \ {0}, NEW cached \in 0..n, NEW in_db \in BOOLEAN,
           NEW sent \in BOOLEAN, HandleSend(n, cached, in_db, sent)
    PROVE  WindowInv'
<1>1. StoreTypes /\ SeenTypes /\ SendFacts(n, cached) BY HandleSendFacts DEF PagesInv
<1>2. UNCHANGED <<session, hello, snapshot, requests, down, room_known, messages, hasMoreMessages>>
  BY <1>1 DEF SendFacts, comet_vars, client_vars
<1>3. Ordered' BY <1>1, StreamIncreases DEF WindowInv, Ordered
<1>4. snapshot \in Nat /\ \A i \in 1..snapshot : stream'[i] = stream[i]
  <2>1. Len(stream) \in Nat /\ snapshot \in 0..Len(stream) BY <1>1 DEF StoreTypes, SeenTypes
  <2>2. \A i \in 1..Len(stream) : stream'[i] = stream[i] BY <1>1 DEF SendFacts
  <2> QED BY <2>1, <2>2
<1>5. \A p : \A k \in 1..(snapshot + 1) : IsPageBefore(stream, p, k) => IsPageBefore(stream', p, k)
  BY <1>4, PageKept
<1>6. session' \in {"fetched", "open"} => IsPageBefore(stream', hello', snapshot' + 1)
  BY <1>2, <1>4, <1>5 DEF WindowInv
<1>7. PushesUnstored' BY <1>2 DEF WindowInv, PushesUnstored
<1>8. ASSUME NEW k \in 1..(snapshot + 1), WindowFrom(k) PROVE WindowFrom(k)'
  <2>1. \A i \in k..snapshot : i \in 1..snapshot /\ i \in 1..(snapshot + 1) BY <1>4
  <2>2. Entries(stream', k, snapshot) = Entries(stream, k, snapshot) BY <1>4, <2>1 DEF Entries
  <2>3. \A i \in DOMAIN requests : \E h \in k..snapshot : requests[i] = [msg |-> stream'[h], stored |-> TRUE]
    BY <1>4, <1>8, <2>1 DEF WindowFrom
  <2>4. \A i \in DOMAIN down : IsHistory(i) => \E h \in k..snapshot : IsPageBefore(stream', down[i].page, h)
    BY <1>5, <1>8, <2>1 DEF WindowFrom
  <2> QED BY <1>2, <1>8, <2>2, <2>3, <2>4 DEF WindowFrom, IsHistory
<1>9. room_known' => \E k \in 1..(snapshot' + 1) : WindowFrom(k)' BY <1>2, <1>8 DEF WindowInv
<1> QED BY <1>3, <1>6, <1>7, <1>9 DEF WindowInv

LEMMA AnswerWindow ==
    ASSUME PagesInv, WindowInv, NEW i \in DOMAIN requests, NEW ok \in BOOLEAN, HandleRoomHistory(i, ok)
    PROVE  WindowInv'
<1>1. StoreTypes /\ SeenTypes BY DEF PagesInv
<1>2. /\ UNCHANGED <<timestamp, stream, session, hello, snapshot, room_known, messages, hasMoreMessages>>
      /\ requests' = RemoveAt(requests, i)
  BY DEF HandleRoomHistory, store_vars, comet_vars, client_vars
<1>3. requests # <<>> /\ \A j \in DOMAIN requests' : \E h \in DOMAIN requests : requests'[j] = requests[h]
  BY <1>1, <1>2, RequestTaken
<1>4. room_known BY <1>3 DEF PagesInv, Phases, SeenTypes
<1>5. PICK k \in 1..(snapshot + 1) : WindowFrom(k) BY <1>4 DEF WindowInv
<1> DEFINE p == GetRoomHistory(<<requests[i]>>, PageCount)
           f == Frame("serverRoomHistory", p)
<1>6. PICK h \in k..snapshot : requests[i] = [msg |-> stream[h], stored |-> TRUE] BY <1>5 DEF WindowFrom
<1>7. IsPageBefore(stream, p, h)
  <2>1. h \in DOMAIN stream BY <1>1, <1>6 DEF StoreTypes, SeenTypes
  <2> QED BY <1>1, <1>6, <2>1, AnswerIsPage DEF WindowInv
<1>8. f \in KnownFrame(DOMAIN timestamp) /\ f.kind = "serverRoomHistory" /\ f.page = p
  <2>1. Len(<<requests[i]>>) = 1 /\ PageCount \in Nat \ {0} BY HistoryAssumption
  <2>2. p \in KnownPage(DOMAIN timestamp) BY <1>1, <2>1, PageTypes
  <2> HIDE DEF p
  <2> QED BY <2>2 DEF Frame, KnownFrame
<1> HIDE DEF p, f
<1>9. down' = Append(down, f) \/ down' = down BY DEF HandleRoomHistory, f, p
<1>10. \A j \in DOMAIN down' : (j \in DOMAIN down /\ down'[j] = down[j]) \/ down'[j] = f
  BY <1>1, <1>8, <1>9, FrameAdded
<1>11. Ordered' BY <1>2 DEF WindowInv, Ordered
<1>12. PushesUnstored' BY <1>8, <1>10 DEF WindowInv, PushesUnstored
<1>13. WindowFrom(k)'
  <2>1. \A j \in DOMAIN down' : IsHistory(j)' => \E g \in k..snapshot : IsPageBefore(stream, down'[j].page, g)
    BY <1>5, <1>7, <1>8, <1>10 DEF WindowFrom, IsHistory
  <2>2. \A j \in DOMAIN requests' : \E g \in k..snapshot : requests'[j] = [msg |-> stream[g], stored |-> TRUE]
    BY <1>3, <1>5 DEF WindowFrom
  <2> QED BY <1>2, <1>5, <2>1, <2>2 DEF WindowFrom
<1> QED BY <1>2, <1>11, <1>12, <1>13 DEF WindowInv

LEMMA HandshakeWindow ==
    ASSUME PagesInv, WindowInv, InsertConn \/ HandleHello \/ HandleHelloSkips \/ AddSubscriber
    PROVE  WindowInv'
<1>1. StoreTypes BY DEF PagesInv
<1>2. session # "open" /\ UNCHANGED <<timestamp, stream, requests, down, room_known>>
  BY DEF InsertConn, HandleHello, HandleHelloSkips, AddSubscriber, store_vars, client_vars
<1>3. ~room_known BY <1>2 DEF PagesInv, Phases
<1>4. Ordered' /\ PushesUnstored' BY <1>2 DEF WindowInv, Ordered, PushesUnstored
<1>5. session' \in {"fetched", "open"} => IsPageBefore(stream', hello', snapshot' + 1)
  <2>1. CASE HandleHello
    <3>1. hello' = GetRoomHistory(<<>>, HelloCount) /\ snapshot' = Len(stream) BY <2>1 DEF HandleHello
    <3> QED BY <1>1, <1>2, <3>1, HelloIsPage
  <2>2. CASE InsertConn \/ HandleHelloSkips \/ AddSubscriber
    <3>1. UNCHANGED <<hello, snapshot>> /\ (session' = session \/ session' \in {"registered", "failed"})
      BY <2>2 DEF InsertConn, HandleHelloSkips, AddSubscriber
    <3> QED BY <1>2, <3>1 DEF WindowInv
  <2> QED BY <2>1, <2>2
<1> QED BY <1>2, <1>3, <1>4, <1>5 DEF WindowInv

LEMMA SendHelloWindow ==
    ASSUME PagesInv, WindowInv, SendHelloMessage
    PROVE  WindowInv'
<1>1. SeenTypes BY DEF PagesInv
<1>2. /\ session = "fetched" /\ down' = <<Frame("hello", hello)>> \o down
      /\ UNCHANGED <<timestamp, stream, hello, snapshot, requests, room_known>>
  BY DEF SendHelloMessage, store_vars, client_vars
<1>3. ~room_known BY <1>2 DEF PagesInv, Phases
<1> DEFINE f == Frame("hello", hello)
<1>4. f \in KnownFrame(DOMAIN timestamp) /\ f.kind = "hello" BY <1>1 DEF SeenTypes, Frame, KnownFrame
<1> HIDE DEF f
<1>5. down'[1] = f /\ \A i \in DOMAIN down' : i = 1 \/ (i - 1 \in DOMAIN down /\ down'[i] = down[i - 1])
  BY <1>1, <1>2, <1>4, HelloAhead DEF f
<1>6. PushesUnstored' BY <1>4, <1>5 DEF WindowInv, PushesUnstored
<1> QED BY <1>2, <1>3, <1>6 DEF WindowInv, Ordered

LEMMA BroadcastWindow ==
    ASSUME PagesInv, WindowInv, NEW batch \in bus, BroadcastRoom(batch)
    PROVE  WindowInv'
<1>1. StoreTypes /\ SeenTypes BY DEF PagesInv
<1> DEFINE f == Frame("serverMessages", PageOf(Pushed(batch), FALSE))
<1>2. /\ down' = IF PushTo THEN Append(down, f) ELSE down
      /\ UNCHANGED <<timestamp, stream, session, hello, snapshot, requests, room_known, messages, hasMoreMessages>>
  BY DEF BroadcastRoom, store_vars, client_vars
<1>3. Pushed(batch) \in Seq(Known(DOMAIN timestamp)) BY <1>1, PushedIs DEF StoreTypes
<1>4. f \in KnownFrame(DOMAIN timestamp) /\ f.kind = "serverMessages" /\ f.page.msgs = Pushed(batch)
  BY <1>3 DEF Frame, PageOf, KnownFrame, KnownPage
<1>5. \A x \in ToSet(f.page.msgs) : ~x.stored
  <2>1. DOMAIN Pushed(batch) = DOMAIN batch /\ \A i \in DOMAIN batch : ~Pushed(batch)[i].stored BY DEF Pushed
  <2> HIDE DEF f
  <2> QED BY <1>4, <2>1 DEF ToSet
<1> HIDE DEF f
<1>6. \A j \in DOMAIN down' : (j \in DOMAIN down /\ down'[j] = down[j]) \/ down'[j] = f
  <2>1. CASE PushTo BY <1>1, <1>2, <1>4, <2>1, FrameAdded
  <2>2. CASE ~PushTo BY <1>2, <2>2
  <2> QED BY <2>1, <2>2
<1>7. \A j \in DOMAIN down' : IsHistory(j)' => j \in DOMAIN down /\ IsHistory(j) /\ down'[j] = down[j]
  BY <1>4, <1>6 DEF IsHistory
<1>8. Ordered' BY <1>2 DEF WindowInv, Ordered
<1>9. PushesUnstored' BY <1>5, <1>6 DEF WindowInv, PushesUnstored
<1>10. ASSUME NEW k, WindowFrom(k) PROVE WindowFrom(k)'
  <2>1. \A j \in DOMAIN down' : IsHistory(j)' => \E h \in k..snapshot : IsPageBefore(stream, down'[j].page, h)
    BY <1>7, <1>10 DEF WindowFrom
  <2> QED BY <1>2, <1>10, <2>1 DEF WindowFrom
<1>11. room_known' => \E k \in 1..(snapshot' + 1) : WindowFrom(k)' BY <1>2, <1>10 DEF WindowInv
<1> QED BY <1>2, <1>8, <1>9, <1>11 DEF WindowInv

LEMMA SetInitialWindow ==
    ASSUME PagesInv, WindowInv, DoSetInitialState
    PROVE  WindowInv'
<1>1. /\ Received("hello") /\ down' = Tail(down) /\ room_known' = TRUE
      /\ messages' = SortByTimestamp(Head(down).page.msgs) /\ hasMoreMessages' = Head(down).page.more
      /\ UNCHANGED <<store_vars, bus, comet_vars, requests, isAtTop>>
  BY DEF DoSetInitialState
<1>2. /\ UNCHANGED <<timestamp, stream, session, hello, snapshot, requests>>
      /\ StoreTypes /\ SeenTypes /\ 1 \in DOMAIN down /\ Head(down) = down[1] /\ down[1].kind = "hello"
      /\ down[1].page.msgs \in Seq(Known(DOMAIN timestamp))
      /\ \A i \in DOMAIN down' : i + 1 \in DOMAIN down /\ i + 1 # 1 /\ down'[i] = down[i + 1]
  BY <1>1, ReceivedFrame
<1>3. /\ session = "open" /\ ~room_known /\ down[1] = Frame("hello", hello) /\ requests = <<>>
      /\ \A i \in DOMAIN down : ~IsHistory(i)
  BY <1>2 DEF PagesInv, Phases
<1>4. down[1].page = hello BY <1>3 DEF Frame
<1>5. messages' = SortByTimestamp(hello.msgs) /\ hasMoreMessages' = hello.more BY <1>1, <1>2, <1>4
<1>6. snapshot \in Nat BY <1>2 DEF StoreTypes, SeenTypes
<1>7. PICK h \in Nat : h = snapshot + 1 BY <1>6
<1>8. PICK m \in 0..(h - 1) : hello.msgs = PageBefore(stream, h, m) /\ (hello.more \/ m = h - 1)
  BY <1>3, <1>7 DEF WindowInv, IsPageBefore
<1>9. ToSet(messages') = ToSet(hello.msgs) BY <1>2, <1>4, <1>5, SortKeeps DEF StoreTypes
<1>10. ToSet(messages') = Entries(stream, h - m, h - 1) BY <1>8, <1>9, PageSet
<1>11. PICK k \in 1..(snapshot + 1) : k = h - m BY <1>6, <1>7
<1>12. h - 1 = snapshot /\ (m = h - 1 => k = 1) BY <1>6, <1>7, <1>11
<1>13. StoredPart(ToSet(messages')) = Entries(stream, k, snapshot) BY <1>10, <1>11, <1>12, EntriesStored
<1>14. \A i \in DOMAIN down' : ~(IsHistory(i)') BY <1>2, <1>3 DEF IsHistory
<1>15. WindowFrom(k)'
  <2>1. hasMoreMessages' \/ k = 1 BY <1>5, <1>8, <1>12
  <2>2. DOMAIN requests' = {} BY <1>2, <1>3
  <2> QED BY <1>2, <1>13, <1>14, <2>1, <2>2 DEF WindowFrom
<1>16. Ordered' BY <1>2 DEF WindowInv, Ordered
<1>17. PushesUnstored' BY <1>2 DEF WindowInv, PushesUnstored
<1> QED BY <1>2, <1>15, <1>16, <1>17 DEF WindowInv

LEMMA AddMessagesWindow ==
    ASSUME PagesInv, WindowInv, DoAddMessages
    PROVE  WindowInv'
<1> DEFINE s == down[1].page.msgs
<1>1. /\ Received("serverMessages") /\ down' = Tail(down)
      /\ messages' = IF room_known THEN messages \o SortByTimestamp(Head(down).page.msgs) ELSE messages
      /\ UNCHANGED <<store_vars, bus, comet_vars, requests, isAtTop, room_known, hasMoreMessages>>
  BY DEF DoAddMessages
<1>2. /\ UNCHANGED <<timestamp, stream, session, hello, snapshot, requests>>
      /\ StoreTypes /\ SeenTypes /\ 1 \in DOMAIN down /\ Head(down) = down[1] /\ down[1].kind = "serverMessages"
      /\ s \in Seq(Known(DOMAIN timestamp))
      /\ \A i \in DOMAIN down' : i + 1 \in DOMAIN down /\ i + 1 # 1 /\ down'[i] = down[i + 1]
  BY <1>1, ReceivedFrame
<1>3. ToSet(messages \o SortByTimestamp(s)) = ToSet(messages) \cup ToSet(s) BY <1>2, MessagesJoined
<1>4. \A x \in ToSet(s) : ~x.stored BY <1>2 DEF WindowInv, PushesUnstored
<1>5. messages' = IF room_known THEN messages \o SortByTimestamp(s) ELSE messages BY <1>1, <1>2
<1> HIDE DEF s
<1>6. room_known => StoredPart(ToSet(messages')) = StoredPart(ToSet(messages)) BY <1>3, <1>4, <1>5 DEF StoredPart
<1>7. \A i \in DOMAIN down' : i + 1 \in DOMAIN down /\ (IsHistory(i)' <=> IsHistory(i + 1))
                                /\ down'[i].page = down[i + 1].page
  BY <1>2 DEF IsHistory
<1>8. Ordered' BY <1>2 DEF WindowInv, Ordered
<1>9. PushesUnstored' BY <1>2 DEF WindowInv, PushesUnstored
<1>10. ASSUME room_known, NEW k \in 1..(snapshot + 1), WindowFrom(k) PROVE WindowFrom(k)'
  <2>1. \A i \in DOMAIN down' : IsHistory(i)' => \E h \in k..snapshot : IsPageBefore(stream, down'[i].page, h)
    BY <1>7, <1>10 DEF WindowFrom
  <2> QED BY <1>1, <1>2, <1>6, <1>10, <2>1 DEF WindowFrom
<1>11. room_known' => \E k \in 1..(snapshot' + 1) : WindowFrom(k)' BY <1>1, <1>2, <1>10 DEF WindowInv
<1> QED BY <1>2, <1>8, <1>9, <1>11 DEF WindowInv

\* A page that arrives late, twice or after the ones that were asked for later begins
\* somewhere before its reference, and its reference is already in the window: what is
\* new in it continues the window, the rest is there a second time.
LEMMA UpdateHistoryWindow ==
    ASSUME PagesInv, WindowInv, UpdateRoomHistory
    PROVE  WindowInv'
<1> DEFINE p == down[1].page
<1>1. /\ Received("serverRoomHistory") /\ down' = Tail(down) /\ room_known
      /\ messages' = SortByTimestamp(Head(down).page.msgs) \o messages
      /\ hasMoreMessages' = Head(down).page.more
      /\ UNCHANGED <<store_vars, bus, comet_vars, requests, isAtTop, room_known>>
  BY DEF UpdateRoomHistory
<1>2. /\ UNCHANGED <<timestamp, stream, session, hello, snapshot, requests>>
      /\ StoreTypes /\ SeenTypes /\ 1 \in DOMAIN down /\ Head(down) = down[1]
      /\ down[1].kind = "serverRoomHistory" /\ p.msgs \in Seq(Known(DOMAIN timestamp))
      /\ \A i \in DOMAIN down' : i + 1 \in DOMAIN down /\ i + 1 # 1 /\ down'[i] = down[i + 1]
  BY <1>1, ReceivedFrame
<1>3. messages' = SortByTimestamp(p.msgs) \o messages /\ hasMoreMessages' = p.more BY <1>1, <1>2
<1>4. ToSet(messages') = ToSet(p.msgs) \cup ToSet(messages) BY <1>2, <1>3, MessagesJoined
<1>5. snapshot \in Nat BY <1>2 DEF StoreTypes, SeenTypes
<1>6. PICK k \in 1..(snapshot + 1) : WindowFrom(k) BY <1>1 DEF WindowInv
<1>7. PICK h \in k..snapshot : IsPageBefore(stream, p, h)
  <2>1. IsHistory(1) BY <1>2 DEF IsHistory
  <2> QED BY <1>2, <1>6, <2>1 DEF WindowFrom
<1>8. PICK m \in 0..(h - 1) : p.msgs = PageBefore(stream, h, m) /\ (p.more \/ m = h - 1)
  BY <1>7 DEF IsPageBefore
<1> HIDE DEF p
<1> DEFINE a == h - m
           c == IF a < k THEN a ELSE k
<1>9. h \in Nat /\ k \in Nat /\ a \in Nat /\ a <= h /\ a >= 1 /\ (m = h - 1 => a = 1) BY <1>5
<1>10. ToSet(p.msgs) = Entries(stream, a, h - 1) BY <1>8, <1>9, PageSet
<1>11. StoredPart(ToSet(messages')) = Entries(stream, a, h - 1) \cup Entries(stream, k, snapshot)
  <2>1. StoredPart(ToSet(messages')) = StoredPart(ToSet(p.msgs)) \cup StoredPart(ToSet(messages))
    BY <1>4 DEF StoredPart
  <2>2. StoredPart(ToSet(p.msgs)) = Entries(stream, a, h - 1) BY <1>10, EntriesStored
  <2>3. StoredPart(ToSet(messages)) = Entries(stream, k, snapshot) BY <1>6 DEF WindowFrom
  <2> QED BY <2>1, <2>2, <2>3
<1>12. StoredPart(ToSet(messages')) = Entries(stream, c, snapshot)
  <2> HIDE DEF a
  <2> QED BY <1>5, <1>9, <1>11, WindowsJoin
<1>13. c \in 1..(snapshot + 1) /\ (a = 1 => c = 1) /\ c <= k BY <1>5, <1>9
<1>14. hasMoreMessages' \/ c = 1 BY <1>3, <1>8, <1>9, <1>13
<1> HIDE DEF a, c
<1>15. \A g \in k..snapshot : g \in c..snapshot BY <1>5, <1>9, <1>13
<1>16. \A i \in DOMAIN down' : i + 1 \in DOMAIN down /\ (IsHistory(i)' <=> IsHistory(i + 1))
                                 /\ down'[i].page = down[i + 1].page
  BY <1>2 DEF IsHistory
<1>17. WindowFrom(c)'
  <2>1. \A i \in DOMAIN down' : IsHistory(i)' => \E g \in c..snapshot : IsPageBefore(stream, down'[i].page, g)
    BY <1>6, <1>15, <1>16 DEF WindowFrom
  <2>2. \A i \in DOMAIN requests : \E g \in c..snapshot : requests[i] = [msg |-> stream[g], stored |-> TRUE]
    BY <1>6, <1>15 DEF WindowFrom
  <2> QED BY <1>2, <1>12, <1>14, <2>1, <2>2 DEF WindowFrom
<1>18. Ordered' BY <1>2 DEF WindowInv, Ordered
<1>19. PushesUnstored' BY <1>2 DEF WindowInv, PushesUnstored
<1> QED BY <1>2, <1>13, <1>17, <1>18, <1>19 DEF WindowInv

LEMMA ScrollWindow ==
    ASSUME PagesInv, WindowInv, ScrollRequestsHistory \/ ScrollToTop \/ ScrollDown
    PROVE  WindowInv'
<1>1. StoreTypes /\ SeenTypes BY DEF PagesInv
<1>2. /\ UNCHANGED <<timestamp, stream, session, hello, snapshot, down, room_known, messages, hasMoreMessages>>
      /\ room_known
  BY DEF ScrollRequestsHistory, ScrollToTop, ScrollDown, store_vars, comet_vars
<1>3. Ordered' /\ PushesUnstored' BY <1>2 DEF WindowInv, Ordered, PushesUnstored
<1>4. PICK k \in 1..(snapshot + 1) : WindowFrom(k) BY <1>2 DEF WindowInv
<1>5. \A i \in DOMAIN requests' : \E h \in k..snapshot : requests'[i] = [msg |-> stream[h], stored |-> TRUE]
  <2>1. CASE requests' = requests BY <1>4, <2>1 DEF WindowFrom
  <2>2. CASE ScrollRequestsHistory
    <3>1. hasMoreMessages /\ messages # <<>> /\ requests' = Append(requests, Head(messages))
      BY <2>2 DEF ScrollRequestsHistory
    <3>2. messages[1].stored BY <1>2, <3>1 DEF PagesInv, StoredFirst
    <3>3. /\ 1 \in DOMAIN messages /\ Head(messages) = messages[1]
          /\ messages[1] \in Known(DOMAIN timestamp) /\ requests \in Seq(Known(DOMAIN timestamp))
      BY <1>1, <3>1 DEF SeenTypes
    <3>4. messages[1] \in StoredPart(ToSet(messages)) BY <3>2, <3>3 DEF StoredPart, ToSet
    <3>5. PICK h \in k..snapshot : messages[1] = [msg |-> stream[h], stored |-> TRUE]
      BY <1>4, <3>4 DEF WindowFrom, Entries
    <3>6. \A i \in DOMAIN requests' : (i \in DOMAIN requests /\ requests'[i] = requests[i]) \/ requests'[i] = messages[1]
      <4>1. /\ requests' \in Seq(Known(DOMAIN timestamp)) /\ Len(requests') = Len(requests) + 1
            /\ \A i \in 1..Len(requests) : requests'[i] = requests[i]
            /\ requests'[Len(requests) + 1] = messages[1] /\ Len(requests) \in Nat
        BY <3>1, <3>3, AppendProperties
      <4>2. DOMAIN requests' = 1..(Len(requests) + 1) /\ DOMAIN requests = 1..Len(requests) BY <3>3, <4>1
      <4> QED BY <4>1, <4>2
    <3> QED BY <1>4, <3>5, <3>6 DEF WindowFrom
  <2> QED BY <2>1, <2>2 DEF ScrollToTop, ScrollDown
<1>6. WindowFrom(k)' BY <1>2, <1>4, <1>5 DEF WindowFrom, IsHistory
<1> QED BY <1>2, <1>3, <1>6 DEF WindowInv

LEMMA InitWindow == ASSUME Init PROVE WindowInv
<1>1. DOMAIN stream = {} /\ DOMAIN down = {} BY DEF Init
<1>2. Ordered /\ PushesUnstored BY <1>1 DEF Init, Ordered, PushesUnstored
<1> QED BY <1>2 DEF Init, WindowInv

LEMMA NextWindow ==
    ASSUME PagesInv, WindowInv, [Next]_vars
    PROVE  WindowInv'
<1>1. ASSUME NEW n \in 1..MaxBatch, NEW cached \in 0..MaxBatch, NEW in_db \in BOOLEAN, NEW sent \in BOOLEAN,
             cached <= n, HandleSend(n, cached, in_db, sent)
      PROVE  WindowInv'
  <2>1. n \in Nat \ {0} /\ cached \in 0..n BY <1>1, HistoryAssumption
  <2> QED BY <1>1, <2>1, SendWindow
<1>2. CASE UNCHANGED vars
  <2>1. UNCHANGED <<timestamp, stream, session, hello, snapshot, requests, down, room_known, messages,
                    hasMoreMessages>>
    BY <1>2 DEF vars, store_vars, comet_vars, client_vars
  <2>2. Ordered' /\ PushesUnstored' BY <2>1 DEF WindowInv, Ordered, PushesUnstored
  <2>3. ASSUME NEW k, WindowFrom(k) PROVE WindowFrom(k)' BY <2>1, <2>3 DEF WindowFrom, IsHistory
  <2> QED BY <2>1, <2>2, <2>3 DEF WindowInv
<1> QED BY <1>1, <1>2, AnswerWindow, HandshakeWindow, SendHelloWindow, BroadcastWindow, SetInitialWindow,
           AddMessagesWindow, UpdateHistoryWindow, ScrollWindow DEF Next

LEMMA WindowInvHolds == Spec => [](PagesInv /\ WindowInv)
<1>1. Init => PagesInv /\ WindowInv BY InitPages, InitWindow
<1>2. PagesInv /\ WindowInv /\ [Next]_vars => PagesInv' /\ WindowInv' BY NextPages, NextWindow
<1> QED BY <1>1, <1>2, PTL DEF Spec

\* What getRoomHistory gave, in the hello answer and page by page, is on screen without
\* a hole: a window of the stream that ends where the hello answer ended.  For any page
\* sizes, batches and failures, any number of overlapping requests answered in any order
\* and any messages that share a millisecond.
THEOREM HistoryHasNoHole == Spec => []LoadedWithoutHole
<1>1. PagesInv /\ WindowInv => LoadedWithoutHole
  <2> SUFFICES ASSUME PagesInv, WindowInv, room_known PROVE LoadedWithoutHole BY DEF LoadedWithoutHole
  <2>1. PICK k \in 1..(snapshot + 1) : WindowFrom(k) BY DEF WindowInv
  <2>2. StoredPart(ToSet(messages)) = Entries(stream, k, snapshot) BY <2>1 DEF WindowFrom
  <2>3. ASSUME NEW i \in Loaded PROVE messages[i].msg \in {stream[j] : j \in k..snapshot}
    <3>1. messages[i] \in Entries(stream, k, snapshot) BY <2>2, <2>3 DEF Loaded, StoredPart, ToSet
    <3> QED BY <3>1 DEF Entries
  <2>4. ASSUME NEW j \in k..snapshot PROVE stream[j] \in {messages[i].msg : i \in Loaded}
    <3> DEFINE x == [msg |-> stream[j], stored |-> TRUE]
    <3>1. x \in Entries(stream, k, snapshot) BY DEF Entries
    <3>2. PICK i \in DOMAIN messages : messages[i] = x BY <2>2, <3>1 DEF StoredPart, ToSet
    <3>3. x.msg = stream[j] /\ x.stored OBVIOUS
    <3> HIDE DEF x
    <3> QED BY <3>2, <3>3 DEF Loaded
  <2>5. {messages[i].msg : i \in Loaded} = {stream[j] : j \in k..snapshot} BY <2>3, <2>4
  <2> QED BY <2>5 DEF LoadedWithoutHole
<1> QED BY <1>1, WindowInvHolds, PTL

\* When has_more is false the client has everything that was in the stream when it was
\* greeted: the guess from the number of entries is never wrong in that direction, also
\* when pages overlap, arrive late or begin among messages of one millisecond.
THEOREM NoMoreIsTheEnd == Spec => []EndIsTheEnd
<1>1. PagesInv /\ WindowInv => EndIsTheEnd
  <2> SUFFICES ASSUME PagesInv, WindowInv, room_known, ~hasMoreMessages, NEW i \in 1..snapshot
               PROVE  \E j \in DOMAIN messages : messages[j] = [msg |-> stream[i], stored |-> TRUE]
    BY DEF EndIsTheEnd
  <2>1. PICK k \in 1..(snapshot + 1) : WindowFrom(k) BY DEF WindowInv
  <2>2. k = 1 BY <2>1 DEF WindowFrom
  <2>3. [msg |-> stream[i], stored |-> TRUE] \in Entries(stream, k, snapshot) BY <2>2 DEF Entries
  <2>4. [msg |-> stream[i], stored |-> TRUE] \in ToSet(messages) BY <2>1, <2>3 DEF WindowFrom, StoredPart
  <2> QED BY <2>4 DEF ToSet
<1> QED BY <1>1, WindowInvHolds, PTL
=============================================================================
