----------------------------- MODULE StoreProofs ----------------------------
(***************************************************************************)
(* Theorems about the stores.  WalStore: type correctness, and for a       *)
(* process that stops when its store fails, that every log it left behind  *)
(* is accepted, that the chain never breaks, that what was acknowledged is *)
(* found again, and that it implements RecordLog, for any number of keys,  *)
(* puts and files.  ReplicatedStore: type correctness and that every node  *)
(* has what was acknowledged, for any number of nodes, keys and puts.      *)
(***************************************************************************)
EXTENDS WalStore, ReplicatedStore, ExtremaLemmas

\* The contents of a log file.
Contents == Seq(Frames \union {Torn, Corrupt})

\* The logs that verify to their end.
Verified(log) == log \in Seq(Frames) /\ GoodPrefix(log, Len(log))

-----------------------------------------------------------------------------
(***************************************************************************)
(* What open_with reads.                                                   *)
(***************************************************************************)

\* The three kinds of items are told apart by their kind.
LEMMA Kinds ==
    ASSUME NEW i \in Frames \union {Torn, Corrupt}
    PROVE  /\ i.kind = "frame" <=> i \in Frames
           /\ Torn.kind # "frame" /\ Corrupt.kind # "frame" /\ Torn # Corrupt
           /\ i \in Frames => /\ i.rec \in Records
                              /\ i.rec.key \in Keys /\ i.rec.put \in 1..MaxPuts
BY DEF Frames, Torn, Corrupt, Records

\* The records of a log.
LEMMA RecordsOfType ==
    ASSUME NEW log \in Seq(Frames)
    PROVE  /\ RecordsOf(log) \in Seq(Records)
           /\ Len(RecordsOf(log)) = Len(log)
           /\ \A i \in 1..Len(log) : RecordsOf(log)[i] = log[i].rec
<1>1. \A i \in 1..Len(log) : log[i].rec \in Records
  <2> SUFFICES ASSUME NEW i \in 1..Len(log) PROVE log[i].rec \in Records
    OBVIOUS
  <2>1. log[i] \in Frames
    OBVIOUS
  <2>2. QED
    BY <2>1, Kinds
<1>2. RecordsOf(log) = [i \in 1..Len(log) |-> log[i].rec]
  BY DEF RecordsOf
<1>3. QED
  BY <1>1, <1>2

\* Whether a prefix verifies depends on that prefix only.
LEMMA GoodPrefixAgrees ==
    ASSUME NEW a \in Contents, NEW b \in Contents, NEW n \in Nat,
           n <= Len(a), n <= Len(b), \A i \in 1..n : a[i] = b[i],
           GoodPrefix(a, n)
    PROVE  GoodPrefix(b, n)
<1> SUFFICES ASSUME NEW i \in 1..n
             PROVE  b[i].kind = "frame" /\ b[i].chain = RecordsOf(SubSeq(b, 1, i))
  BY DEF GoodPrefix
<1>1. a[i].kind = "frame" /\ a[i].chain = RecordsOf(SubSeq(a, 1, i))
  BY DEF GoodPrefix
<1>2. SubSeq(a, 1, i) = SubSeq(b, 1, i)
  BY DEF Contents
<1>3. QED
  BY <1>1, <1>2

\* A shorter prefix of one that verifies does.
LEMMA GoodPrefixShorter ==
    ASSUME NEW a, NEW n \in Nat, NEW m \in 0..n, GoodPrefix(a, n)
    PROVE  GoodPrefix(a, m)
BY DEF GoodPrefix

\* The replay loop consumes the longest prefix that verifies.
LEMMA ConsumedProperty ==
    ASSUME NEW items \in Contents
    PROVE  /\ Consumed(items) \in 0..Len(items)
           /\ GoodPrefix(items, Consumed(items))
           /\ \A n \in 0..Len(items) : GoodPrefix(items, n) => n <= Consumed(items)
<1> DEFINE P == {n \in 0..Len(items) : GoodPrefix(items, n)}
<1>1. Len(items) \in Nat
  BY DEF Contents
<1>2. P \in SUBSET Nat /\ \A n \in P : n <= Len(items)
  BY <1>1
<1>3. 0 \in P
  BY <1>1 DEF GoodPrefix
<1>4. Consumed(items) = Max(P)
  BY DEF Consumed
<1> HIDE DEF P
<1>5. Max(P) \in P /\ \A n \in P : n <= Max(P)
  BY <1>1, <1>2, <1>3, MaxProperty
<1>6. QED
  BY <1>4, <1>5 DEF P

\* A prefix that verifies consists of frames.
LEMMA PrefixIsVerified ==
    ASSUME NEW items \in Contents, NEW n \in 0..Len(items), GoodPrefix(items, n)
    PROVE  /\ SubSeq(items, 1, n) \in Seq(Frames)
           /\ Len(SubSeq(items, 1, n)) = n
           /\ \A i \in 1..n : SubSeq(items, 1, n)[i] = items[i]
           /\ Verified(SubSeq(items, 1, n))
<1> DEFINE s == SubSeq(items, 1, n)
<1>1. Len(items) \in Nat /\ n \in Nat /\ n <= Len(items)
  BY DEF Contents
<1>2. /\ s \in Contents /\ Len(s) = n
      /\ \A i \in 1..n : s[i] = items[i] /\ items[i] \in Frames \union {Torn, Corrupt}
  BY <1>1 DEF Contents
<1> HIDE DEF s
<1>3. \A i \in 1..n : s[i] \in Frames
  BY <1>2, Kinds DEF GoodPrefix
<1>4. s \in Seq(Frames)
  BY <1>1, <1>2, <1>3 DEF Contents
<1>5. GoodPrefix(s, n)
  BY <1>1, <1>2, GoodPrefixAgrees
<1>6. QED
  BY <1>2, <1>4, <1>5 DEF Verified, s

\* A log that verifies is consumed to its end.
LEMMA VerifiedConsumed ==
    ASSUME NEW log, Verified(log)
    PROVE  /\ log \in Contents /\ log \in Seq(Frames)
           /\ Consumed(log) = Len(log)
<1>1. log \in Contents /\ log \in Seq(Frames) /\ Len(log) \in Nat
  BY DEF Verified, Contents
<1>2. GoodPrefix(log, Len(log))
  BY DEF Verified
<1>3. Consumed(log) \in 0..Len(log) /\ Len(log) <= Consumed(log)
  BY <1>1, <1>2, ConsumedProperty
<1>4. QED
  BY <1>1, <1>3

\* A torn tail behind a log that verifies is where the loop stops.
LEMMA TornConsumed ==
    ASSUME NEW items \in Contents, NEW n \in Nat, Len(items) = n + 1,
           items[n + 1] = Torn, GoodPrefix(items, n)
    PROVE  Consumed(items) = n
<1>1. Consumed(items) \in 0..(n + 1) /\ GoodPrefix(items, Consumed(items)) /\ n <= Consumed(items)
  BY ConsumedProperty
<1>2. Consumed(items) # n + 1
  <2>1. SUFFICES ASSUME GoodPrefix(items, n + 1) PROVE FALSE
    BY <1>1
  <2>2. items[n + 1].kind = "frame"
    BY <2>1 DEF GoodPrefix
  <2>3. QED
    BY <2>2 DEF Torn
<1>3. QED
  BY <1>1, <1>2

\* put appends a frame that continues the chain.
LEMMA AppendVerifies ==
    ASSUME NEW log, Verified(log), NEW rec \in Records
    PROVE  /\ Frame(rec, RecordsOf(log)) \in Frames
           /\ Verified(Append(log, Frame(rec, RecordsOf(log))))
           /\ RecordsOf(Append(log, Frame(rec, RecordsOf(log)))) = Append(RecordsOf(log), rec)
<1> DEFINE f == Frame(rec, RecordsOf(log))
           new == Append(log, f)
           n == Len(log)
<1>1. log \in Seq(Frames) /\ n \in Nat /\ GoodPrefix(log, n) /\ RecordsOf(log) \in Seq(Records)
  BY RecordsOfType DEF Verified
<1>2. f \in Frames /\ f.kind = "frame" /\ f.rec = rec /\ f.chain = Append(RecordsOf(log), rec)
  BY <1>1 DEF Frame, Frames
<1> HIDE DEF f
<1>3. /\ new \in Seq(Frames) /\ Len(new) = n + 1 /\ new[n + 1] = f
      /\ \A i \in 1..n : new[i] = log[i]
  BY <1>1, <1>2
<1> HIDE DEF new
<1>4. RecordsOf(new) = Append(RecordsOf(log), rec)
  <2>1. /\ RecordsOf(new) \in Seq(Records) /\ Len(RecordsOf(new)) = n + 1
        /\ \A i \in 1..(n + 1) : RecordsOf(new)[i] = new[i].rec
    BY <1>3, RecordsOfType
  <2>2. /\ Len(RecordsOf(log)) = n /\ \A i \in 1..n : RecordsOf(log)[i] = log[i].rec
    BY <1>1, RecordsOfType
  <2>3. \A i \in 1..(n + 1) : RecordsOf(new)[i] = Append(RecordsOf(log), rec)[i]
    BY <1>1, <1>2, <1>3, <2>1, <2>2
  <2>4. Len(Append(RecordsOf(log), rec)) = n + 1 /\ Append(RecordsOf(log), rec) \in Seq(Records)
    BY <1>1, <2>2
  <2> HIDE DEF n
  <2>5. QED
    BY <1>1, <2>1, <2>3, <2>4
<1>5. GoodPrefix(new, n + 1)
  <2> SUFFICES ASSUME NEW i \in 1..(n + 1)
               PROVE  new[i].kind = "frame" /\ new[i].chain = RecordsOf(SubSeq(new, 1, i))
    BY DEF GoodPrefix
  <2>1. CASE i = n + 1
    <3>1. SubSeq(new, 1, i) = new
      BY <1>1, <1>3, <2>1
    <3>2. QED
      BY <1>2, <1>3, <1>4, <2>1, <3>1
  <2>2. CASE i \in 1..n
    <3>1. log \in Contents /\ new \in Contents
      BY <1>1, <1>3 DEF Contents
    <3>2. n <= Len(log) /\ n <= Len(new)
      BY <1>1, <1>3
    <3> HIDE DEF n
    <3>3. GoodPrefix(new, n)
      BY <1>1, <1>3, <3>1, <3>2, GoodPrefixAgrees
    <3>4. QED
      BY <2>2, <3>3 DEF GoodPrefix
  <2>3. QED
    BY <1>1, <2>1, <2>2
<1>6. QED
  BY <1>2, <1>3, <1>4, <1>5 DEF Verified, new, f

-----------------------------------------------------------------------------
(***************************************************************************)
(* What a log replays to.                                                  *)
(***************************************************************************)

\* i is where the last record of key k is.
LastOf(log, k, i) ==
    /\ i \in 1..Len(log)
    /\ log[i].rec.key = k
    /\ \A j \in 1..Len(log) : log[j].rec.key = k => j <= i

\* Replay keeps the last record of each key.
LEMMA ReplayLast ==
    ASSUME NEW log \in Seq(Frames), NEW k \in Keys
    PROVE  \/ /\ \A i \in 1..Len(log) : log[i].rec.key # k
              /\ ReplayIndex(log)[k] = 0
           \/ \E i \in 1..Len(log) :
                /\ LastOf(log, k, i)
                /\ ReplayIndex(log)[k] = log[i].rec.put
<1> DEFINE at == {i \in DOMAIN log : log[i].rec.key = k}
<1>1. Len(log) \in Nat /\ DOMAIN log = 1..Len(log)
  OBVIOUS
<1>2. ReplayIndex(log)[k] = IF at = {} THEN 0 ELSE log[Max(at)].rec.put
  BY DEF ReplayIndex
<1>3. CASE at = {}
  BY <1>1, <1>2, <1>3
<1>4. CASE at # {}
  <2>1. at \in SUBSET Nat /\ \A i \in at : i <= Len(log)
    BY <1>1
  <2>2. \A i : i \in at <=> i \in 1..Len(log) /\ log[i].rec.key = k
    BY <1>1
  <2> HIDE DEF at
  <2>3. Max(at) \in at /\ \A i \in at : i <= Max(at)
    BY <1>1, <1>4, <2>1, MaxProperty
  <2>4. LastOf(log, k, Max(at))
    BY <2>2, <2>3 DEF LastOf
  <2>5. QED
    BY <1>2, <1>4, <2>2, <2>3, <2>4
<1>5. QED
  BY <1>3, <1>4

\* The value of a key is the put of its last record.
LEMMA ReplayAt ==
    ASSUME NEW log \in Seq(Frames), NEW k \in Keys, NEW i, LastOf(log, k, i)
    PROVE  ReplayIndex(log)[k] = log[i].rec.put
<1>1. i \in 1..Len(log) /\ Len(log) \in Nat
  BY DEF LastOf
<1>2. PICK j \in 1..Len(log) : LastOf(log, k, j) /\ ReplayIndex(log)[k] = log[j].rec.put
  BY <1>1, ReplayLast DEF LastOf
<1>3. i <= j /\ j <= i
  BY <1>1, <1>2 DEF LastOf
<1>4. QED
  BY <1>1, <1>2, <1>3

\* An index maps keys to puts.
LEMMA ReplayType ==
    ASSUME NEW log \in Seq(Frames), MaxPuts \in Nat
    PROVE  ReplayIndex(log) \in [Keys -> 0..MaxPuts]
<1>1. DOMAIN ReplayIndex(log) = Keys
  BY DEF ReplayIndex
<1>2. \A k \in Keys : ReplayIndex(log)[k] \in 0..MaxPuts
  <2> SUFFICES ASSUME NEW k \in Keys PROVE ReplayIndex(log)[k] \in 0..MaxPuts
    OBVIOUS
  <2>1. CASE ReplayIndex(log)[k] = 0
    BY <2>1
  <2>2. CASE \E i \in 1..Len(log) : ReplayIndex(log)[k] = log[i].rec.put
    <3>1. PICK i \in 1..Len(log) : ReplayIndex(log)[k] = log[i].rec.put
      BY <2>2
    <3>2. log[i] \in Frames
      OBVIOUS
    <3>3. log[i].rec.put \in 1..MaxPuts
      BY <3>2, Kinds
    <3>4. QED
      BY <3>1, <3>3
  <2>3. QED
    BY <2>1, <2>2, ReplayLast
<1>3. ReplayIndex(log) = [k \in Keys |-> ReplayIndex(log)[k]]
  BY DEF ReplayIndex
<1>4. QED
  BY <1>2, <1>3

\* A frame appended for key k is what k replays to, and changes no other key.
LEMMA ReplayAppend ==
    ASSUME NEW log \in Seq(Frames), NEW f \in Frames, MaxPuts \in Nat
    PROVE  ReplayIndex(Append(log, f)) =
                [ReplayIndex(log) EXCEPT ![f.rec.key] = f.rec.put]
<1> DEFINE new == Append(log, f)
           n == Len(log)
<1>1. /\ new \in Seq(Frames) /\ n \in Nat /\ Len(new) = n + 1 /\ new[n + 1] = f
      /\ \A i \in 1..n : new[i] = log[i]
  OBVIOUS
<1> HIDE DEF new
<1>2. \A k \in Keys : ReplayIndex(new)[k] =
                        IF k = f.rec.key THEN f.rec.put ELSE ReplayIndex(log)[k]
  <2> SUFFICES ASSUME NEW k \in Keys
               PROVE  ReplayIndex(new)[k] =
                        IF k = f.rec.key THEN f.rec.put ELSE ReplayIndex(log)[k]
    OBVIOUS
  <2>1. CASE k = f.rec.key
    <3>1. LastOf(new, k, n + 1)
      BY <1>1, <2>1 DEF LastOf
    <3>2. QED
      BY <1>1, <2>1, <3>1, ReplayAt
  <2>2. CASE k # f.rec.key /\ \A i \in 1..n : log[i].rec.key # k
    <3>1. \A i \in 1..(n + 1) : new[i].rec.key # k
      BY <1>1, <2>2
    <3>2. ReplayIndex(new)[k] = 0
      BY <1>1, <3>1, ReplayLast DEF LastOf
    <3>3. ReplayIndex(log)[k] = 0
      BY <2>2, ReplayLast DEF LastOf
    <3>4. QED
      BY <2>2, <3>2, <3>3
  <2>3. CASE k # f.rec.key /\ \E i \in 1..n : log[i].rec.key = k
    <3>1. PICK i \in 1..n : LastOf(log, k, i) /\ ReplayIndex(log)[k] = log[i].rec.put
      BY <2>3, ReplayLast
    <3>2. LastOf(new, k, i)
      <4>1. i \in 1..(n + 1) /\ new[i].rec.key = k
        BY <1>1, <3>1 DEF LastOf
      <4>2. ASSUME NEW j \in 1..(n + 1), new[j].rec.key = k PROVE j <= i
        <5>1. j # n + 1 /\ j \in 1..n /\ new[j] = log[j]
          BY <1>1, <2>3, <4>2
        <5>2. QED
          BY <3>1, <4>2, <5>1 DEF LastOf
      <4>3. QED
        BY <1>1, <4>1, <4>2 DEF LastOf
    <3>3. ReplayIndex(new)[k] = new[i].rec.put
      BY <1>1, <3>2, ReplayAt
    <3>4. QED
      BY <1>1, <2>3, <3>1, <3>3
  <2>4. QED
    BY <2>1, <2>2, <2>3
<1>3. ReplayIndex(new) \in [Keys -> 0..MaxPuts] /\ ReplayIndex(log) \in [Keys -> 0..MaxPuts]
  BY <1>1, ReplayType
<1>4. ReplayIndex(new) = [ReplayIndex(log) EXCEPT ![f.rec.key] = f.rec.put]
  BY <1>2, <1>3
<1>5. QED
  BY <1>4 DEF new

\* The records of one key are in the order of their puts, none above `last`.
Ordered(log, last) ==
    \A i \in 1..Len(log) :
        /\ log[i].rec.put <= last
        /\ \A j \in 1..Len(log) :
                i < j /\ log[i].rec.key = log[j].rec.key => log[i].rec.put < log[j].rec.put

\* In an ordered log, a longer prefix replays to puts that are no older.
LEMMA ReplayGrows ==
    ASSUME NEW a \in Seq(Frames), NEW b \in Seq(Frames), NEW last, Ordered(b, last),
           Len(a) <= Len(b), \A i \in 1..Len(a) : a[i] = b[i],
           NEW k \in Keys, MaxPuts \in Nat
    PROVE  ReplayIndex(a)[k] <= ReplayIndex(b)[k]
<1>1. /\ ReplayIndex(a)[k] \in 0..MaxPuts /\ ReplayIndex(b)[k] \in 0..MaxPuts
      /\ Len(a) \in Nat /\ Len(b) \in Nat
  BY ReplayType
<1>2. CASE ReplayIndex(a)[k] = 0
  BY <1>1, <1>2
<1>3. CASE \E i \in 1..Len(a) : LastOf(a, k, i) /\ ReplayIndex(a)[k] = a[i].rec.put
  <2>1. PICK i \in 1..Len(a) : LastOf(a, k, i) /\ ReplayIndex(a)[k] = a[i].rec.put
    BY <1>3
  <2>2. i \in 1..Len(b) /\ a[i] = b[i] /\ b[i].rec.key = k
    BY <1>1, <2>1 DEF LastOf
  <2>3. PICK j \in 1..Len(b) : LastOf(b, k, j) /\ ReplayIndex(b)[k] = b[j].rec.put
    BY <2>2, ReplayLast
  <2>4. i <= j /\ b[j].rec.key = k
    BY <2>2, <2>3 DEF LastOf
  <2>5. CASE i = j
    BY <1>1, <2>1, <2>2, <2>3, <2>5
  <2>6. CASE i < j
    <3>1. b[i].rec.put < b[j].rec.put
      BY <2>2, <2>3, <2>4, <2>6 DEF Ordered
    <3>2. QED
      BY <1>1, <2>1, <2>2, <2>3, <3>1
  <2>7. QED
    BY <1>1, <2>4, <2>5, <2>6
<1>4. QED
  BY <1>2, <1>3, ReplayLast

\* A prefix of an ordered log is ordered.
LEMMA OrderedPrefix ==
    ASSUME NEW a \in Seq(Frames), NEW b \in Seq(Frames), NEW last, Ordered(b, last),
           Len(a) <= Len(b), \A i \in 1..Len(a) : a[i] = b[i]
    PROVE  Ordered(a, last)
<1>1. Len(a) \in Nat /\ Len(b) \in Nat
  OBVIOUS
<1>2. \A i \in 1..Len(a) : i \in 1..Len(b) /\ a[i] = b[i]
  BY <1>1
<1>3. QED
  BY <1>2 DEF Ordered

\* A frame with the next put keeps a log ordered.
LEMMA OrderedAppend ==
    ASSUME NEW log \in Seq(Frames), NEW f \in Frames, NEW last \in Nat,
           Ordered(log, last), f.rec.put = last + 1, MaxPuts \in Nat
    PROVE  Ordered(Append(log, f), last + 1)
<1> DEFINE new == Append(log, f)
           n == Len(log)
<1>1. /\ n \in Nat /\ Len(new) = n + 1 /\ new[n + 1] = f
      /\ \A i \in 1..n : new[i] = log[i] /\ log[i] \in Frames
  OBVIOUS
<1> HIDE DEF new
<1>2. \A i \in 1..n : log[i].rec.put \in Nat
  BY <1>1, Kinds
<1>3. SUFFICES ASSUME NEW i \in 1..(n + 1)
               PROVE  /\ new[i].rec.put <= last + 1
                      /\ \A j \in 1..(n + 1) :
                            i < j /\ new[i].rec.key = new[j].rec.key
                                => new[i].rec.put < new[j].rec.put
  BY <1>1 DEF Ordered, new
<1>4. CASE i = n + 1
  BY <1>1, <1>4
<1>5. CASE i \in 1..n
  <2>1. log[i].rec.put <= last /\ log[i].rec.put \in Nat /\ new[i] = log[i]
    BY <1>1, <1>2, <1>5 DEF Ordered
  <2>2. ASSUME NEW j \in 1..(n + 1), i < j, new[i].rec.key = new[j].rec.key
        PROVE  new[i].rec.put < new[j].rec.put
    <3>1. CASE j = n + 1
      BY <1>1, <2>1, <3>1
    <3>2. CASE j \in 1..n
      <4>1. new[j] = log[j]
        BY <1>1, <3>2
      <4>2. QED
        BY <1>5, <2>1, <2>2, <3>2, <4>1 DEF Ordered
    <3>3. QED
      BY <1>1, <3>1, <3>2
  <2>3. QED
    BY <2>1, <2>2
<1>6. QED
  BY <1>1, <1>4, <1>5

-----------------------------------------------------------------------------
(***************************************************************************)
(* What compaction writes.                                                 *)
(***************************************************************************)

\* A listing of a finite set reaches every element once.
LEMMA Listing ==
    ASSUME NEW S, IsFiniteSet(S), NEW ks \in SetToSeqs(S)
    PROVE  /\ ks \in Seq(S)
           /\ \A i, j \in 1..Len(ks) : i # j => ks[i] # ks[j]
           /\ \A x \in S : \E i \in 1..Len(ks) : ks[i] = x
<1> DEFINE n == Cardinality(S)
<1>1. n \in Nat
  BY FS_CardinalityType
<1>2. ks \in [1..n -> S] /\ \A i, j \in 1..n : i # j => ks[i] # ks[j]
  BY DEF SetToSeqs
<1>3. ks \in Seq(S) /\ Len(ks) = n
  BY <1>1, <1>2
<1>4. IsFiniteSet(1..n) /\ Cardinality(1..n) = n
  BY <1>1, FS_Interval
<1>5. ks \in Injection(1..n, S)
  BY <1>2 DEF Injection, IsInjective
<1>6. ks \in Surjection(1..n, S)
  BY <1>4, <1>5, FS_Injection
<1>7. \A x \in S : \E i \in 1..n : ks[i] = x
  BY <1>6 DEF Surjection
<1>8. QED
  BY <1>2, <1>3, <1>7

\* A compacted log has one frame for each key of the index, and replays to it.
LEMMA CompactedProperty ==
    ASSUME NEW ix \in [Keys -> 0..MaxPuts], NEW log \in CompactedLogs(ix),
           IsFiniteSet(Keys), MaxPuts \in Nat
    PROVE  /\ log \in Seq(Frames)
           /\ Verified(log)
           /\ ReplayIndex(log) = ix
           /\ \A i \in 1..Len(log) : log[i].rec.put = ix[log[i].rec.key]
           /\ \A i, j \in 1..Len(log) : i # j => log[i].rec.key # log[j].rec.key
<1> DEFINE live == {k \in Keys : ix[k] # 0}
           R(k) == [key |-> k, put |-> ix[k]]
<1>1. PICK ks \in SetToSeqs(live) :
          log = [i \in DOMAIN ks |-> Frame(R(ks[i]), [j \in 1..(i - 1) |-> R(ks[j])])]
  BY DEF CompactedLogs
<1>2. IsFiniteSet(live) /\ \A k \in live : k \in Keys /\ ix[k] \in 1..MaxPuts
  BY FS_Subset
<1> HIDE DEF live
<1>3. /\ ks \in Seq(live)
      /\ \A i, j \in 1..Len(ks) : i # j => ks[i] # ks[j]
      /\ \A k \in live : \E i \in 1..Len(ks) : ks[i] = k
  BY <1>1, <1>2, Listing, ZenonT(30)
<1> DEFINE n == Len(ks)
<1>4. /\ n \in Nat /\ DOMAIN ks = 1..n
      /\ \A i \in 1..n : ks[i] \in Keys /\ ix[ks[i]] \in 1..MaxPuts
  <2>1. n \in Nat /\ DOMAIN ks = 1..n /\ \A i \in 1..n : ks[i] \in live
    BY <1>3
  <2>2. QED
    BY <1>2, <2>1
<1>5. \A i \in 1..n : R(ks[i]) \in Records /\ R(ks[i]).key = ks[i] /\ R(ks[i]).put = ix[ks[i]]
  BY <1>4 DEF Records
<1>6. \A i \in 1..n : [j \in 1..(i - 1) |-> R(ks[j])] \in Seq(Records)
  <2> SUFFICES ASSUME NEW i \in 1..n
               PROVE  [j \in 1..(i - 1) |-> R(ks[j])] \in Seq(Records)
    OBVIOUS
  <2>1. i - 1 \in Nat /\ \A j \in 1..(i - 1) : R(ks[j]) \in Records
    BY <1>4, <1>5
  <2> HIDE DEF R
  <2>2. QED
    BY <2>1
<1>7. \A i \in 1..n :
        /\ log[i] = Frame(R(ks[i]), [j \in 1..(i - 1) |-> R(ks[j])])
        /\ log[i].kind = "frame" /\ log[i].rec = R(ks[i])
        /\ log[i].chain = Append([j \in 1..(i - 1) |-> R(ks[j])], R(ks[i]))
        /\ log[i] \in Frames
  <2> SUFFICES ASSUME NEW i \in 1..n
               PROVE  /\ log[i] = Frame(R(ks[i]), [j \in 1..(i - 1) |-> R(ks[j])])
                      /\ log[i].kind = "frame" /\ log[i].rec = R(ks[i])
                      /\ log[i].chain = Append([j \in 1..(i - 1) |-> R(ks[j])], R(ks[i]))
                      /\ log[i] \in Frames
    OBVIOUS
  <2> DEFINE c == [j \in 1..(i - 1) |-> R(ks[j])]
  <2>1. c \in Seq(Records) /\ R(ks[i]) \in Records
    BY <1>5, <1>6
  <2> HIDE DEF R
  <2>2. log[i] = Frame(R(ks[i]), c)
    BY <1>1, <1>4
  <2> HIDE DEF c
  <2>3. Frame(R(ks[i]), c) \in Frames
    BY <2>1 DEF Frame, Frames
  <2>4. /\ Frame(R(ks[i]), c).kind = "frame" /\ Frame(R(ks[i]), c).rec = R(ks[i])
        /\ Frame(R(ks[i]), c).chain = Append(c, R(ks[i]))
    BY DEF Frame
  <2>5. QED
    BY <2>2, <2>3, <2>4 DEF c
<1>8. log \in Seq(Frames) /\ Len(log) = n
  <2>1. DOMAIN log = 1..n
    BY <1>1, <1>4
  <2>2. log = [i \in 1..n |-> log[i]]
    BY <1>1, <1>4
  <2>3. n \in Nat /\ \A i \in 1..n : log[i] \in Frames
    BY <1>4, <1>7
  <2> HIDE DEF n
  <2>4. log \in [1..n -> Frames]
    BY <2>2, <2>3
  <2>5. QED
    BY <2>3, <2>4
<1>9. GoodPrefix(log, n)
  <2> SUFFICES ASSUME NEW i \in 1..n
               PROVE  log[i].chain = RecordsOf(SubSeq(log, 1, i))
    BY <1>7 DEF GoodPrefix
  <2> DEFINE c == [j \in 1..(i - 1) |-> R(ks[j])]
             s == SubSeq(log, 1, i)
  <2>1. i \in Nat /\ i - 1 \in Nat /\ i <= n
    BY <1>4
  <2>2. s \in Seq(Frames) /\ Len(s) = i /\ \A j \in 1..i : s[j] = log[j]
    BY <1>8, <2>1
  <2> HIDE DEF s
  <2>3. /\ RecordsOf(s) \in Seq(Records) /\ Len(RecordsOf(s)) = i
        /\ \A j \in 1..i : RecordsOf(s)[j] = s[j].rec
    BY <2>2, RecordsOfType
  <2>4. \A j \in 1..i : RecordsOf(s)[j] = R(ks[j])
    <3> SUFFICES ASSUME NEW j \in 1..i PROVE RecordsOf(s)[j] = R(ks[j])
      OBVIOUS
    <3>1. j \in 1..n
      BY <2>1
    <3>2. log[j].rec = R(ks[j])
      BY <1>7, <3>1
    <3> HIDE DEF R
    <3>3. QED
      BY <2>2, <2>3, <3>2
  <2>5. c \in Seq(Records) /\ Len(c) = i - 1 /\ \A j \in 1..(i - 1) : c[j] = R(ks[j])
    BY <1>6, <2>1
  <2>6. R(ks[i]) \in Records /\ log[i].chain = Append(c, R(ks[i]))
    BY <1>5, <1>7
  <2> HIDE DEF c, R, n
  <2>7. /\ Append(c, R(ks[i])) \in Seq(Records) /\ Len(Append(c, R(ks[i]))) = i
        /\ \A j \in 1..i : Append(c, R(ks[i]))[j] = R(ks[j])
    BY <2>1, <2>5, <2>6
  <2>8. Append(c, R(ks[i])) = RecordsOf(s)
    BY <2>1, <2>3, <2>4, <2>7
  <2>9. QED
    BY <2>6, <2>8 DEF s
<1>10. \A i \in 1..n : log[i].rec.key = ks[i] /\ log[i].rec.put = ix[ks[i]]
  BY <1>5, <1>7
<1>11. ReplayIndex(log) = ix
  <2>1. ASSUME NEW k \in Keys PROVE ReplayIndex(log)[k] = ix[k]
    <3>1. CASE ix[k] = 0
      <4>1. \A i \in 1..n : log[i].rec.key # k
        BY <1>4, <1>10, <3>1
      <4>2. QED
        BY <1>8, <3>1, <4>1, ReplayLast DEF LastOf
    <3>2. CASE ix[k] # 0
      <4>1. PICK i \in 1..n : ks[i] = k
        BY <1>3, <3>2 DEF live
      <4>2. LastOf(log, k, i)
        <5>1. ASSUME NEW j \in 1..n, log[j].rec.key = k PROVE j <= i
          <6>1. ks[j] = k
            BY <1>10, <5>1
          <6>2. j = i
            BY <1>3, <4>1, <6>1
          <6>3. QED
            BY <1>4, <6>2
        <5>2. QED
          BY <1>8, <1>10, <4>1, <5>1 DEF LastOf
      <4>3. QED
        BY <1>8, <1>10, <4>1, <4>2, ReplayAt
    <3>3. QED
      BY <3>1, <3>2
  <2>2. ReplayIndex(log) \in [Keys -> 0..MaxPuts]
    BY <1>8, ReplayType
  <2>3. QED
    BY <2>1, <2>2
<1>12. \A i \in 1..n : log[i].rec.put = ix[log[i].rec.key]
  BY <1>10
<1>13. \A i, j \in 1..n : i # j => log[i].rec.key # log[j].rec.key
  BY <1>3, <1>10
<1>14. QED
  BY <1>8, <1>9, <1>11, <1>12, <1>13 DEF Verified

-----------------------------------------------------------------------------
(***************************************************************************)
(* Type correctness.                                                       *)
(***************************************************************************)
FileType == [items: Contents, synced: Nat]

\* The parts of a file.
LEMMA FileParts ==
    ASSUME NEW fs \in Seq(FileType), NEW f \in DOMAIN fs
    PROVE  /\ fs[f] \in FileType
           /\ fs[f].items \in Contents /\ Len(fs[f].items) \in Nat
           /\ fs[f].synced \in Nat
<1>1. fs[f] \in FileType
  OBVIOUS
<1>2. fs[f].items \in Contents /\ fs[f].synced \in Nat
  BY <1>1 DEF FileType
<1>3. QED
  BY <1>1, <1>2 DEF Contents

\* What may follow the frames of a log.
LEMMA Tails ==
    ASSUME NEW tail \in {<<>>, <<Torn>>, <<Corrupt>>}
    PROVE  tail \in Contents
<1> DEFINE I == Frames \union {Torn, Corrupt}
<1>1. Torn \in I /\ Corrupt \in I
  OBVIOUS
<1> HIDE DEF I
<1>2. <<>> \in Seq(I) /\ <<Torn>> \in Seq(I) /\ <<Corrupt>> \in Seq(I)
  BY <1>1
<1>3. QED
  BY <1>2 DEF Contents, I

\* What a failed write leaves is a prefix of the buffer, or one and a torn frame.
LEMMA WrittenType ==
    ASSUME NEW frames \in Seq(Frames), NEW written \in Written(frames)
    PROVE  /\ written \in Contents
           /\ \E n \in 0..Len(frames), tail \in {<<>>, <<Torn>>} :
                    written = Cut(frames, n, tail)
<1>1. Len(frames) \in Nat /\ frames = Cut(frames, Len(frames), <<>>)
  BY DEF Cut
<1>2. \/ written = frames
      \/ \E n \in 0..(Len(frames) - 1), tail \in {<<>>, <<Torn>>} :
                written = Cut(frames, n, tail)
  BY DEF Written
<1>3. PICK n \in 0..Len(frames), tail \in {<<>>, <<Torn>>} : written = Cut(frames, n, tail)
  BY <1>1, <1>2
<1>4. SubSeq(frames, 1, n) \in Contents
  BY DEF Contents
<1>5. tail \in Contents
  BY Tails
<1>6. SubSeq(frames, 1, n) \o tail \in Contents
  BY <1>4, <1>5 DEF Contents
<1>7. written \in Contents
  BY <1>3, <1>6 DEF Cut
<1>8. QED
  BY <1>3, <1>7

\* Loss of power leaves a prefix that contains what was synced, or one and a tail.
LEMMA PowerLossType ==
    ASSUME NEW file \in FileType, NEW items \in PowerLossContents(file)
    PROVE  /\ items \in Contents
           /\ Len(items) <= Len(file.items)
           /\ \E n \in file.synced..Len(file.items), tail \in {<<>>, <<Torn>>, <<Corrupt>>} :
                    items = Cut(file.items, n, tail) /\ (~ CorruptTails => tail # <<Corrupt>>)
<1>1. file.items \in Contents /\ Len(file.items) \in Nat /\ file.synced \in Nat
  BY DEF FileType, Contents
<1>2. <<Corrupt>> # <<>> /\ <<Corrupt>> # <<Torn>>
  <2>1. Corrupt # Torn
    BY DEF Corrupt, Torn
  <2>2. QED
    BY <2>1
<1> DEFINE tails == {<<>>, <<Torn>>} \union (IF CorruptTails THEN {<<Corrupt>>} ELSE {})
<1>3. \A tail \in tails : /\ tail \in {<<>>, <<Torn>>, <<Corrupt>>}
                          /\ ~ CorruptTails => tail # <<Corrupt>>
  BY <1>2
<1>4. /\ items \in {Cut(file.items, n, tail) : n \in file.synced..Len(file.items), tail \in tails}
      /\ Len(items) <= Len(file.items)
  BY DEF PowerLossContents, AfterPowerLoss
<1> HIDE DEF tails
<1>5. PICK n \in file.synced..Len(file.items), tail \in tails : items = Cut(file.items, n, tail)
  BY <1>4
<1>6. SubSeq(file.items, 1, n) \in Contents
  BY <1>1 DEF Contents
<1>7. tail \in Contents
  BY <1>3, Tails
<1>8. items \in Contents
  BY <1>5, <1>6, <1>7 DEF Contents, Cut
<1>9. QED
  BY <1>3, <1>4, <1>5, <1>8

LEMMA MinOfTwo ==
    ASSUME NEW a \in Nat, NEW b \in Nat
    PROVE  /\ Min({a, b}) \in Nat
           /\ a <= b => Min({a, b}) = a
           /\ b <= a => Min({a, b}) = b
<1>1. \E x \in {a, b} : \A y \in {a, b} : x <= y
  BY SMT
<1>2. Min({a, b}) \in {a, b} /\ \A y \in {a, b} : Min({a, b}) <= y
  BY <1>1 DEF Min
<1>3. QED
  BY <1>2

\* What open_with leaves behind, by its verdict.
LEMMA OpenType ==
    ASSUME TypeOK, MaxPuts \in Nat, NEW f \in DOMAIN files,
           NEW items \in Contents, NEW synced \in Nat, Open(f, items, synced)
    PROVE  /\ index' \in [Keys -> 0..MaxPuts]
           /\ pending' \in Seq(Frames)
           /\ syncEach' \in BOOLEAN
           /\ chain' \in Seq(Records)
           /\ files' \in Seq(FileType) /\ Len(files') = Len(files)
           /\ handle' \in DOMAIN files
           /\ status' \in {"open", "halted", "refused"}
<1> DEFINE n == Consumed(items)
           good == SubSeq(items, 1, n)
<1>1. files \in Seq(FileType)
  BY DEF TypeOK, FileType, Contents
<1>2. n \in 0..Len(items) /\ n \in Nat /\ GoodPrefix(items, n)
  BY ConsumedProperty DEF Contents
<1> HIDE DEF n
<1>3. good \in Seq(Frames)
  BY <1>2, PrefixIsVerified
<1>4. good \in Contents
  BY <1>3 DEF Contents
<1>5. ReplayIndex(good) \in [Keys -> 0..MaxPuts] /\ RecordsOf(good) \in Seq(Records)
  BY <1>3, ReplayType, RecordsOfType
<1>6. Min({synced, n}) \in Nat
  BY <1>2, MinOfTwo
<1> HIDE DEF good
<1>7. CASE /\ status' = "refused"
           /\ files' = [files EXCEPT ![f] = [items |-> items, synced |-> synced]]
           /\ UNCHANGED storeVars
  <2>1. [items |-> items, synced |-> synced] \in FileType
    BY DEF FileType
  <2>2. files' \in Seq(FileType) /\ Len(files') = Len(files)
    BY <1>1, <1>7, <2>1
  <2>3. QED
    BY <1>7, <2>2 DEF TypeOK, storeVars
<1>8. CASE /\ status' = "open"
           /\ files' = [files EXCEPT ![f] = [items |-> good, synced |-> Min({synced, n})]]
           /\ index' = ReplayIndex(good)
           /\ pending' = <<>>
           /\ syncEach' \in BOOLEAN
           /\ chain' = RecordsOf(good)
           /\ handle' = f
  <2>1. [items |-> good, synced |-> Min({synced, n})] \in FileType
    BY <1>4, <1>6 DEF FileType
  <2>2. files' \in Seq(FileType) /\ Len(files') = Len(files)
    BY <1>1, <1>8, <2>1
  <2>3. QED
    BY <1>5, <1>8, <2>2
<1>9. QED
  BY <1>7, <1>8 DEF Open, n, good

\* What a flush leaves behind.
LEMMA FlushType ==
    ASSUME TypeOK, NEW frames \in Seq(Frames),
           FlushSucceeds(frames) \/ FlushFails(frames)
    PROVE  /\ files' \in Seq(FileType) /\ Len(files') = Len(files)
           /\ pending' \in Seq(Frames)
           /\ status' \in {"open", "halted", "refused"}
<1>1. files \in Seq(FileType) /\ handle \in DOMAIN files
  BY DEF TypeOK, FileType, Contents
<1>2. /\ files[handle] \in FileType
      /\ files[handle].items \in Contents /\ Len(files[handle].items) \in Nat
      /\ files[handle].synced \in Nat
  BY <1>1, FileParts
<1>3. CASE FlushSucceeds(frames)
  <2> DEFINE new == [items |-> files[handle].items \o frames,
                     synced |-> Len(files[handle].items) + Len(frames)]
  <2>1. files[handle].items \o frames \in Contents /\ Len(frames) \in Nat
    BY <1>2 DEF Contents
  <2>2. new \in FileType
    BY <1>2, <2>1 DEF FileType
  <2>3. files' = [files EXCEPT ![handle] = new]
    BY <1>3 DEF FlushSucceeds
  <2> HIDE DEF new
  <2>4. files' \in Seq(FileType) /\ Len(files') = Len(files)
    BY <1>1, <2>2, <2>3
  <2>5. QED
    BY <1>3, <2>4 DEF FlushSucceeds, TypeOK
<1>4. CASE FlushFails(frames)
  <2>1. PICK written \in Written(frames) :
            files' = [files EXCEPT ![handle] =
                        [items |-> files[handle].items \o written,
                         synced |-> files[handle].synced]]
    BY <1>4 DEF FlushFails
  <2>2. written \in Contents
    BY WrittenType
  <2>3. files[handle].items \o written \in Contents
    BY <1>2, <2>2 DEF Contents
  <2> DEFINE new == [items |-> files[handle].items \o written,
                     synced |-> files[handle].synced]
  <2>4. new \in FileType
    BY <1>2, <2>3 DEF FileType
  <2>5. files' = [files EXCEPT ![handle] = new]
    BY <2>1
  <2> HIDE DEF new
  <2>6. files' \in Seq(FileType) /\ Len(files') = Len(files)
    BY <1>1, <2>4, <2>5
  <2>7. QED
    BY <1>4, <2>6 DEF FlushFails, Panic
<1>5. QED
  BY <1>3, <1>4

\* What a rename leaves behind, for the index that retain left.
LEMMA RenameType ==
    ASSUME TypeOK, WalAssumption, NEW ix \in [Keys -> 0..MaxPuts],
           NEW log \in CompactedLogs(ix), Len(files) < MaxFiles, Rename(log)
    PROVE  /\ files' \in Seq(FileType) /\ Len(files') = Len(files) + 1
           /\ Len(files') \in 1..MaxFiles
           /\ name' = Len(files) + 1 /\ diskName' \in 0..(Len(files) + 1)
           /\ log \in Seq(Frames) /\ RecordsOf(log) \in Seq(Records)
<1>1. log \in Seq(Frames)
  BY CompactedProperty DEF WalAssumption
<1>2. [items |-> log, synced |-> Len(log)] \in FileType
  BY <1>1 DEF FileType, Contents
<1>3. files \in Seq(FileType) /\ Len(files) \in Nat
  BY DEF TypeOK, FileType, Contents
<1>4. files' \in Seq(FileType) /\ Len(files') = Len(files) + 1
  BY <1>2, <1>3 DEF Rename
<1>5. name' = Len(files) + 1 /\ diskName' \in 0..(Len(files) + 1)
  <2>1. diskName \in 0..Len(files)
    BY DEF TypeOK
  <2>2. QED
    BY <1>3, <2>1 DEF Rename
<1>6. Len(files') \in 1..MaxFiles
  BY <1>3, <1>4 DEF WalAssumption
<1>7. QED
  BY <1>1, <1>4, <1>5, <1>6, RecordsOfType

\* What retain leaves behind.
LEMMA RetainType ==
    ASSUME TypeOK, WalAssumption, NEW drop, Retain(drop)
    PROVE  index' \in [Keys -> 0..MaxPuts] /\ acked' \in [Keys -> 0..MaxPuts]
BY SMTT(30) DEF TypeOK, WalAssumption, Retain

LEMMA WalTypeStep ==
    ASSUME TypeOK, WalAssumption, [Next]_vars
    PROVE  TypeOK'
<1> USE DEF WalAssumption
<1>1. files \in Seq(FileType) /\ Len(files) \in Nat /\ DOMAIN files = 1..Len(files)
  BY DEF TypeOK, FileType, Contents
<1>2. \A f \in DOMAIN files : /\ files[f].items \in Contents /\ files[f].synced \in Nat
                              /\ Len(files[f].items) \in Nat
  BY <1>1, FileParts
<1>3. SUFFICES ASSUME Next PROVE TypeOK'
  BY DEF TypeOK, vars, storeVars, fileVars
<1>4. ASSUME NEW k \in Keys, Put(k) PROVE TypeOK'
  <2> DEFINE frame == Frame([key |-> k, put |-> puts + 1], chain)
  <2>1. puts + 1 \in 1..MaxPuts /\ status = "open"
    BY <1>4 DEF Put, TypeOK
  <2>2. [key |-> k, put |-> puts + 1] \in Records
    BY <2>1 DEF Records
  <2>3. frame \in Frames /\ frame.chain \in Seq(Records)
    <3>1. Append(chain, [key |-> k, put |-> puts + 1]) \in Seq(Records)
      BY <2>2 DEF TypeOK
    <3>2. QED
      BY <2>2, <3>1 DEF Frame, Frames
  <2> HIDE DEF frame
  <2>4. Append(pending, frame) \in Seq(Frames)
    BY <2>3 DEF TypeOK
  <2>5. /\ files' \in Seq(FileType) /\ Len(files') = Len(files)
        /\ pending' \in Seq(Frames)
        /\ status' \in {"open", "halted", "refused"}
    BY <1>1, <1>4, <2>1, <2>4, FlushType DEF Put, frame
  <2>6. index' \in [Keys -> 0..MaxPuts] /\ puts' \in 0..MaxPuts
    BY <1>4, <2>1 DEF Put, TypeOK
  <2>7. acked' \in [Keys -> 0..MaxPuts]
    BY <1>4, <2>6 DEF Put, TypeOK
  <2>8. chain' \in Seq(Records) /\ UNCHANGED <<syncEach, handle, name, diskName>>
    BY <1>4, <2>3 DEF Put, frame
  <2>9. DOMAIN files' = DOMAIN files
    BY <1>1, <2>5
  <2>10. QED
    BY <2>5, <2>6, <2>7, <2>8, <2>9 DEF TypeOK, FileType, Contents
<1>5. ASSUME Flush PROVE TypeOK'
  <2>1. /\ files' \in Seq(FileType) /\ Len(files') = Len(files)
        /\ pending' \in Seq(Frames)
        /\ status' \in {"open", "halted", "refused"}
    BY <1>5, FlushType DEF Flush, TypeOK
  <2>2. DOMAIN files' = DOMAIN files
    BY <1>1, <2>1
  <2>3. QED
    BY <1>5, <2>1, <2>2 DEF Flush, TypeOK, FileType, Contents
<1>6. ASSUME NEW drop \in SUBSET Keys, Compact(drop) PROVE TypeOK'
  <2>1. index' \in [Keys -> 0..MaxPuts] /\ acked' \in [Keys -> 0..MaxPuts]
    BY <1>6, RetainType DEF Compact
  <2>2. PICK log \in CompactedLogs(index') : Rename(log) /\ chain' = RecordsOf(log)
    BY <1>6 DEF Compact
  <2>3. Len(files) < MaxFiles
    BY <1>6 DEF Compact
  <2>4. /\ files' \in Seq(FileType) /\ Len(files') = Len(files) + 1
        /\ Len(files') \in 1..MaxFiles
        /\ name' = Len(files) + 1 /\ diskName' \in 0..(Len(files) + 1)
        /\ RecordsOf(log) \in Seq(Records)
    BY <2>1, <2>2, <2>3, RenameType
  <2>5. DOMAIN files' = 1..(Len(files) + 1)
    BY <2>4
  <2>6. name' \in DOMAIN files' /\ handle' \in DOMAIN files' /\ diskName' \in 0..Len(files')
    BY <1>1, <1>6, <2>4, <2>5 DEF Compact
  <2>7. /\ pending' \in Seq(Frames) /\ syncEach' \in BOOLEAN /\ chain' \in Seq(Records)
        /\ status' \in {"open", "halted", "refused"} /\ puts' \in 0..MaxPuts
    BY <1>6, <2>2, <2>4 DEF Compact, TypeOK
  <2>8. QED
    BY <2>1, <2>4, <2>6, <2>7 DEF TypeOK, FileType, Contents
<1>7. ASSUME NEW drop \in SUBSET Keys, CompactFailsEarly(drop) PROVE TypeOK'
  <2>1. index' \in [Keys -> 0..MaxPuts] /\ acked' \in [Keys -> 0..MaxPuts]
    BY <1>7, RetainType DEF CompactFailsEarly
  <2>2. QED
    BY <1>7, <2>1 DEF CompactFailsEarly, Panic, TypeOK, fileVars
<1>8. ASSUME NEW drop \in SUBSET Keys, CompactFailsLate(drop) PROVE TypeOK'
  <2>1. index' \in [Keys -> 0..MaxPuts] /\ acked' \in [Keys -> 0..MaxPuts]
    BY <1>8, RetainType DEF CompactFailsLate
  <2>2. PICK log \in CompactedLogs(index') : Rename(log)
    BY <1>8 DEF CompactFailsLate
  <2>3. Len(files) < MaxFiles
    BY <1>8 DEF CompactFailsLate
  <2>4. /\ files' \in Seq(FileType) /\ Len(files') = Len(files) + 1
        /\ Len(files') \in 1..MaxFiles
        /\ name' = Len(files) + 1 /\ diskName' \in 0..(Len(files) + 1)
    BY <2>1, <2>2, <2>3, RenameType
  <2>5. DOMAIN files' = 1..(Len(files) + 1)
    BY <2>4
  <2>6. name' \in DOMAIN files' /\ handle' \in DOMAIN files' /\ diskName' \in 0..Len(files')
    BY <1>1, <1>8, <2>4, <2>5 DEF CompactFailsLate, TypeOK
  <2>7. /\ pending' \in Seq(Frames) /\ syncEach' \in BOOLEAN /\ chain' \in Seq(Records)
        /\ status' \in {"open", "halted", "refused"} /\ puts' \in 0..MaxPuts
    BY <1>8 DEF CompactFailsLate, Panic, TypeOK
  <2>8. QED
    BY <2>1, <2>4, <2>6, <2>7 DEF TypeOK, FileType, Contents
<1>9. ASSUME Kill PROVE TypeOK'
  <2>1. name \in DOMAIN files /\ Open(name, files[name].items, files[name].synced)
    BY <1>9 DEF Kill, TypeOK
  <2>2. /\ index' \in [Keys -> 0..MaxPuts]
        /\ pending' \in Seq(Frames)
        /\ syncEach' \in BOOLEAN
        /\ chain' \in Seq(Records)
        /\ files' \in Seq(FileType) /\ Len(files') = Len(files)
        /\ handle' \in DOMAIN files
        /\ status' \in {"open", "halted", "refused"}
    BY <1>2, <2>1, OpenType
  <2>3. DOMAIN files' = DOMAIN files
    BY <1>1, <2>2
  <2>4. QED
    BY <1>9, <2>2, <2>3 DEF Kill, TypeOK, FileType, Contents
<1>10. ASSUME PowerLoss PROVE TypeOK'
  <2>1. PICK f \in {name, diskName} :
            IF f = 0
            THEN /\ Open(name, <<>>, 0)
                 /\ UNCHANGED <<name, diskName>>
            ELSE /\ \E items \in PowerLossContents(files[f]) :
                        Open(f, items, Min({files[f].synced, Len(items)}))
                 /\ name' = f
                 /\ diskName' = f
    BY <1>10 DEF PowerLoss
  <2>2. /\ index' \in [Keys -> 0..MaxPuts]
        /\ pending' \in Seq(Frames)
        /\ syncEach' \in BOOLEAN
        /\ chain' \in Seq(Records)
        /\ files' \in Seq(FileType) /\ Len(files') = Len(files)
        /\ handle' \in DOMAIN files
        /\ status' \in {"open", "halted", "refused"}
    <3>1. CASE f = 0
      <4>1. Open(name, <<>>, 0) /\ name \in DOMAIN files /\ <<>> \in Contents
        BY <2>1, <3>1 DEF TypeOK, Contents
      <4>2. QED
        BY <4>1, OpenType
    <3>2. CASE f # 0
      <4>1. f \in DOMAIN files
        BY <1>1, <3>2, SMTT(30) DEF TypeOK
      <4>2. PICK items \in PowerLossContents(files[f]) :
                    Open(f, items, Min({files[f].synced, Len(items)}))
        BY <2>1, <3>2
      <4>3. files[f] \in FileType
        BY <1>1, <4>1, FileParts
      <4>4. items \in Contents
        BY <4>2, <4>3, PowerLossType
      <4>5. Min({files[f].synced, Len(items)}) \in Nat
        <5>1. Len(items) \in Nat
          BY <4>4 DEF Contents
        <5>2. QED
          BY <1>2, <4>1, <5>1, MinOfTwo
      <4>6. QED
        BY <4>1, <4>2, <4>4, <4>5, OpenType
    <3>3. QED
      BY <3>1, <3>2
  <2>3. DOMAIN files' = DOMAIN files
    BY <1>1, <2>2
  <2>4. name' \in DOMAIN files /\ diskName' \in 0..Len(files)
    BY <1>1, <2>1, SMTT(30) DEF TypeOK
  <2>5. UNCHANGED <<puts, acked>>
    BY <1>10 DEF PowerLoss
  <2>6. QED
    BY <2>2, <2>3, <2>4, <2>5 DEF TypeOK, FileType, Contents
<1>11. QED
  BY <1>3, <1>4, <1>5, <1>6, <1>7, <1>8, <1>9, <1>10 DEF Next

\* The store keeps its types through failed writes, restarts, loss of power
\* and compaction, in every mode: what open_with replays from any contents is
\* an index, and every frame a put, a flush or a compaction writes is one.
THEOREM WalTypeCorrect == Spec => []TypeOK
<1>1. Init => TypeOK
  <2> SUFFICES ASSUME Init PROVE TypeOK
    OBVIOUS
  <2>1. NewFile \in [items: Seq(Frames \union {Torn, Corrupt}), synced: Nat]
    BY DEF NewFile
  <2>2. files \in Seq([items: Seq(Frames \union {Torn, Corrupt}), synced: Nat]) /\ Len(files) = 1
    BY <2>1 DEF Init
  <2>3. QED
    BY <2>2, WalAssumption DEF Init, TypeOK, WalAssumption
<1>2. TypeOK /\ [Next]_vars => TypeOK'
  BY WalAssumption, WalTypeStep
<1>3. QED
  BY <1>1, <1>2, PTL DEF Spec

-----------------------------------------------------------------------------
(***************************************************************************)
(* A process that stops when its store fails.  The file the path names is  *)
(* a verified log, perhaps with a torn frame behind it; what was           *)
(* acknowledged is in its synced part; and while the store is open, the    *)
(* file and the buffer are one verified log, ordered by put, that replays  *)
(* to the index.                                                           *)
(***************************************************************************)

\* The frames open_with replays from a file.
Replayed(file) == SubSeq(file.items, 1, Consumed(file.items))

Recoverable(file, last, need) ==
    /\ file.items \in {Replayed(file), Append(Replayed(file), Torn)}
    /\ file.synced <= Len(Replayed(file))
    /\ Ordered(Replayed(file), last)
    /\ \A k \in Keys : need[k] <= ReplayIndex(SubSeq(Replayed(file), 1, file.synced))[k]

\* The log of an open store with this chain root, index and number of puts.
OpenLog(log, root, ix, last) ==
    /\ Verified(log)
    /\ root = RecordsOf(log)
    /\ ix = ReplayIndex(log)
    /\ Ordered(log, last)

WalInv ==
    /\ NeverRefused
    /\ diskName = name
    /\ Recoverable(files[name], puts, acked)
    /\ status = "open" =>
            handle = name /\ OpenLog(files[name].items \o pending, chain, index, puts)

\* What open_with replays is a verified log.
LEMMA ReplayedVerified ==
    ASSUME NEW file \in FileType
    PROVE  /\ Verified(Replayed(file)) /\ Replayed(file) \in Seq(Frames)
           /\ Replayed(file) \in Contents
           /\ Len(Replayed(file)) = Consumed(file.items) /\ Len(Replayed(file)) \in Nat
           /\ Len(Replayed(file)) <= Len(file.items)
           /\ \A i \in 1..Len(Replayed(file)) : Replayed(file)[i] = file.items[i]
<1>1. file.items \in Contents /\ Len(file.items) \in Nat
  BY DEF FileType, Contents
<1>2. Consumed(file.items) \in 0..Len(file.items) /\ GoodPrefix(file.items, Consumed(file.items))
  BY <1>1, ConsumedProperty
<1>3. /\ Replayed(file) \in Seq(Frames)
      /\ Len(Replayed(file)) = Consumed(file.items)
      /\ \A i \in 1..Consumed(file.items) : Replayed(file)[i] = file.items[i]
      /\ Verified(Replayed(file))
  BY <1>1, <1>2, PrefixIsVerified DEF Replayed
<1>4. Replayed(file) \in Contents
  BY <1>3 DEF Contents
<1>5. QED
  BY <1>1, <1>2, <1>3, <1>4

\* A verified log, alone or before a torn frame, is what open_with replays.
LEMMA ReplayedIs ==
    ASSUME NEW log, Verified(log), NEW file \in FileType,
           file.items \in {log, Append(log, Torn)}
    PROVE  Replayed(file) = log
<1> DEFINE n == Len(log)
<1>1. log \in Contents /\ log \in Seq(Frames) /\ n \in Nat /\ GoodPrefix(log, n)
  BY VerifiedConsumed DEF Verified
<1>2. CASE file.items = log
  <2>1. Consumed(log) = n
    BY VerifiedConsumed
  <2>2. QED
    BY <1>1, <1>2, <2>1 DEF Replayed, Contents
<1>3. CASE file.items = Append(log, Torn)
  <2> DEFINE items == Append(log, Torn)
  <2>1. items \in Contents
    BY <1>3 DEF FileType
  <2>2. Len(items) = n + 1 /\ items[n + 1] = Torn /\ \A i \in 1..n : items[i] = log[i]
    BY <1>1 DEF Contents
  <2> HIDE DEF items
  <2>3. GoodPrefix(items, n)
    BY <1>1, <2>1, <2>2, GoodPrefixAgrees
  <2>4. Consumed(items) = n
    BY <1>1, <2>1, <2>2, <2>3, TornConsumed
  <2>5. SubSeq(items, 1, n) = log
    BY <1>1, <2>1, <2>2 DEF Contents
  <2>6. QED
    BY <1>3, <2>4, <2>5 DEF Replayed, items
<1>4. QED
  BY <1>2, <1>3

\* What remains of a verified log that is cut behind its synced part.
LEMMA CutRecoverable ==
    ASSUME NEW log, Verified(log), NEW last, Ordered(log, last),
           NEW n \in 0..Len(log), NEW tail \in {<<>>, <<Torn>>},
           NEW file \in FileType, file.items = Cut(log, n, tail), file.synced <= n,
           NEW need \in [Keys -> 0..MaxPuts], MaxPuts \in Nat,
           \A k \in Keys : need[k] <= ReplayIndex(SubSeq(log, 1, file.synced))[k]
    PROVE  /\ Recoverable(file, last, need)
           /\ Replayed(file) = SubSeq(log, 1, n)
<1> DEFINE cut == SubSeq(log, 1, n)
<1>1. /\ log \in Contents /\ log \in Seq(Frames) /\ Len(log) \in Nat
      /\ GoodPrefix(log, Len(log)) /\ n \in Nat /\ n <= Len(log) /\ file.synced \in Nat
  BY VerifiedConsumed DEF Verified, FileType
<1>2. GoodPrefix(log, n)
  BY <1>1, GoodPrefixShorter
<1>3. /\ Verified(cut) /\ cut \in Seq(Frames) /\ Len(cut) = n
      /\ \A i \in 1..n : cut[i] = log[i]
  BY <1>1, <1>2, PrefixIsVerified
<1>4. file.items \in {cut, Append(cut, Torn)}
  <2>1. \A c \in Seq(Frames) : c \o <<>> = c /\ c \o <<Torn>> = Append(c, Torn)
    OBVIOUS
  <2>2. QED
    BY <1>3, <2>1, Zenon DEF Cut
<1>5. SubSeq(cut, 1, file.synced) = SubSeq(log, 1, file.synced)
  BY <1>1
<1> HIDE DEF cut
<1>6. Replayed(file) = cut
  BY <1>3, <1>4, ReplayedIs
<1>7. Ordered(cut, last)
  BY <1>1, <1>3, OrderedPrefix
<1>8. Recoverable(file, last, need)
  BY <1>3, <1>4, <1>5, <1>6, <1>7 DEF Recoverable
<1>9. QED
  BY <1>6, <1>8 DEF cut

\* A verified log that lost nothing.
LEMMA WholeRecoverable ==
    ASSUME NEW log, Verified(log), NEW last, Ordered(log, last),
           NEW file \in FileType, file.items = log, file.synced <= Len(log),
           NEW need \in [Keys -> 0..MaxPuts], MaxPuts \in Nat,
           \A k \in Keys : need[k] <= ReplayIndex(SubSeq(log, 1, file.synced))[k]
    PROVE  Recoverable(file, last, need) /\ Replayed(file) = log
<1>1. log \in Seq(Frames) /\ Len(log) \in 0..Len(log)
  BY VerifiedConsumed
<1>2. file.items = Cut(log, Len(log), <<>>)
  BY <1>1 DEF Cut
<1>3. <<>> \in {<<>>, <<Torn>>}
  OBVIOUS
<1>4. Recoverable(file, last, need)
  BY <1>1, <1>2, <1>3, CutRecoverable
<1>5. QED
  BY <1>4, ReplayedIs

\* A concatenation, and a prefix and a tail, item by item.
LEMMA ConcatItems ==
    ASSUME NEW a \in Contents, NEW b \in Contents
    PROVE  /\ a \o b \in Contents /\ Len(a \o b) = Len(a) + Len(b)
           /\ \A i \in 1..(Len(a) + Len(b)) :
                (a \o b)[i] = IF i <= Len(a) THEN a[i] ELSE b[i - Len(a)]
BY DEF Contents

LEMMA ConcatAppend ==
    ASSUME NEW a \in Contents, NEW b \in Contents, NEW f \in Frames
    PROVE  a \o Append(b, f) = Append(a \o b, f)
<1> DEFINE I == Frames \union {Torn, Corrupt}
<1>1. a \in Seq(I) /\ b \in Seq(I) /\ f \in I
  BY DEF Contents
<1> HIDE DEF I
<1>2. QED
  BY <1>1

LEMMA CutItems ==
    ASSUME NEW a \in Contents, NEW n \in 0..Len(a), NEW tail \in Contents
    PROVE  /\ Cut(a, n, tail) \in Contents /\ Len(Cut(a, n, tail)) = n + Len(tail)
           /\ \A i \in 1..(n + Len(tail)) :
                Cut(a, n, tail)[i] = IF i <= n THEN a[i] ELSE tail[i - n]
BY DEF Contents, Cut

\* Cutting what was appended is cutting the whole.
LEMMA ConcatCut ==
    ASSUME NEW a \in Contents, NEW b \in Contents, NEW tail \in Contents,
           NEW n \in 0..Len(b)
    PROVE  a \o Cut(b, n, tail) = Cut(a \o b, Len(a) + n, tail)
<1> DEFINE m == Len(a)
           left == a \o Cut(b, n, tail)
           right == Cut(a \o b, m + n, tail)
<1>1. m \in Nat /\ n \in Nat /\ Len(b) \in Nat /\ n <= Len(b) /\ Len(tail) \in Nat
  BY DEF Contents
<1>2. /\ left \in Contents /\ Len(left) = m + n + Len(tail)
      /\ \A i \in 1..(m + n + Len(tail)) :
            left[i] = IF i <= m THEN a[i] ELSE IF i <= m + n THEN b[i - m] ELSE tail[i - m - n]
  <2> DEFINE c == Cut(b, n, tail)
  <2>1. /\ c \in Contents /\ Len(c) = n + Len(tail)
        /\ \A i \in 1..(n + Len(tail)) : c[i] = IF i <= n THEN b[i] ELSE tail[i - n]
    BY CutItems
  <2> HIDE DEF c
  <2>2. /\ a \o c \in Contents /\ Len(a \o c) = m + Len(c)
        /\ \A i \in 1..(m + Len(c)) : (a \o c)[i] = IF i <= m THEN a[i] ELSE c[i - m]
    BY <2>1, ConcatItems
  <2>3. ASSUME NEW i \in 1..(m + n + Len(tail)), ~ (i <= m)
        PROVE  c[i - m] = IF i <= m + n THEN b[i - m] ELSE tail[i - m - n]
    <3>1. i - m \in 1..(n + Len(tail)) /\ i - m - n = (i - m) - n
      BY <1>1, <2>3
    <3>2. QED
      BY <1>1, <2>1, <3>1
  <2>4. QED
    BY <1>1, <2>1, <2>2, <2>3 DEF c
<1>3. /\ right \in Contents /\ Len(right) = m + n + Len(tail)
      /\ \A i \in 1..(m + n + Len(tail)) :
            right[i] = IF i <= m THEN a[i] ELSE IF i <= m + n THEN b[i - m] ELSE tail[i - m - n]
  <2> DEFINE c == a \o b
  <2>1. /\ c \in Contents /\ Len(c) = m + Len(b)
        /\ \A i \in 1..(m + Len(b)) : c[i] = IF i <= m THEN a[i] ELSE b[i - m]
    BY ConcatItems
  <2> HIDE DEF c
  <2>2. /\ Cut(c, m + n, tail) \in Contents /\ Len(Cut(c, m + n, tail)) = m + n + Len(tail)
        /\ \A i \in 1..(m + n + Len(tail)) :
              Cut(c, m + n, tail)[i] = IF i <= m + n THEN c[i] ELSE tail[i - (m + n)]
    <3>1. m + n \in 0..Len(c) /\ c \in Contents
      BY <1>1, <2>1
    <3>2. QED
      BY <3>1, CutItems
  <2>3. ASSUME NEW i \in 1..(m + n + Len(tail))
        PROVE  /\ i <= m => i <= m + n
               /\ i <= m + n => i \in 1..(m + Len(b))
               /\ i - (m + n) = i - m - n
    BY <1>1
  <2>4. QED
    BY <2>1, <2>2, <2>3 DEF c
<1> HIDE DEF left, right, m
<1>4. \A i \in 1..(m + n + Len(tail)) : left[i] = right[i]
  BY <1>2, <1>3
<1>5. left = right
  BY <1>1, <1>2, <1>3, <1>4 DEF Contents
<1>6. QED
  BY <1>5 DEF left, right, m

\* A file stays recoverable when there are more puts, or less is acknowledged.
LEMMA RecoverableWeaker ==
    ASSUME NEW file \in FileType, NEW last \in Nat, NEW more \in Nat, last <= more,
           NEW need \in [Keys -> 0..MaxPuts], NEW less \in [Keys -> 0..MaxPuts],
           \A k \in Keys : less[k] <= need[k], MaxPuts \in Nat,
           Recoverable(file, last, need)
    PROVE  Recoverable(file, more, less)
<1> DEFINE log == Replayed(file)
<1>1. log \in Seq(Frames) /\ Len(log) \in Nat /\ file.synced \in Nat
  BY ReplayedVerified DEF FileType
<1>2. file.items \in {log, Append(log, Torn)} /\ file.synced <= Len(log) /\ Ordered(log, last)
  BY DEF Recoverable
<1> DEFINE s == SubSeq(log, 1, file.synced)
<1>3. \A k \in Keys : need[k] <= ReplayIndex(s)[k]
  BY DEF Recoverable
<1>4. s \in Seq(Frames)
  <2> HIDE DEF log
  <2>1. QED
    BY <1>1, <1>2
<1> HIDE DEF log, s
<1>5. Ordered(log, more)
  <2>1. \A i \in 1..Len(log) : log[i].rec.put \in Nat
    <3>1. \A i \in 1..Len(log) : log[i] \in Frames
      BY <1>1
    <3>2. QED
      BY <3>1, Kinds
  <2>2. QED
    BY <1>2, <2>1 DEF Ordered
<1>6. \A k \in Keys : less[k] <= ReplayIndex(s)[k]
  <2>1. ReplayIndex(s) \in [Keys -> 0..MaxPuts]
    BY <1>4, ReplayType
  <2>2. QED
    BY <1>3, <2>1
<1>7. QED
  BY <1>2, <1>5, <1>6 DEF Recoverable, log, s

\* open_with accepts a recoverable file, cuts a torn frame off and starts from
\* the log that is left.
LEMMA OpenAccepts ==
    ASSUME TypeOK, WalAssumption, NEW f \in DOMAIN files,
           NEW items \in Contents, NEW synced \in Nat,
           Recoverable([items |-> items, synced |-> synced], puts, acked),
           Open(f, items, synced), UNCHANGED <<puts, acked>>
    PROVE  /\ status' = "open" /\ handle' = f /\ pending' = <<>>
           /\ files'[f].items = Replayed([items |-> items, synced |-> synced])
           /\ files'[f].synced = synced
           /\ Recoverable(files'[f], puts', acked')
           /\ OpenLog(files'[f].items \o pending', chain', index', puts')
<1> USE DEF WalAssumption
<1> DEFINE file == [items |-> items, synced |-> synced]
           log == Replayed(file)
           n == Consumed(items)
<1>1. file \in FileType /\ file.items = items /\ file.synced = synced
  BY DEF FileType
<1> HIDE DEF file
<1>2. /\ Verified(log) /\ log \in Seq(Frames) /\ log \in Contents
      /\ Len(log) = n /\ Len(log) \in Nat
      /\ log = SubSeq(items, 1, n)
  BY <1>1, ReplayedVerified DEF Replayed
<1>3. /\ items \in {log, Append(log, Torn)} /\ synced <= Len(log) /\ Ordered(log, puts)
      /\ \A k \in Keys : acked[k] <= ReplayIndex(SubSeq(log, 1, synced))[k]
  BY <1>1 DEF Recoverable, file
<1> HIDE DEF log, n
<1>4. "refused" \notin Verdicts(items)
  <2>1. CASE items = log
    BY <1>2, <2>1 DEF Verdicts, n
  <2>2. CASE items = Append(log, Torn)
    <3>1. Len(items) = n + 1 /\ items[n + 1] = Torn
      BY <1>2, <2>2 DEF Contents
    <3>2. QED
      BY <1>2, <3>1 DEF Verdicts, n
  <2>3. QED
    BY <1>3, <2>1, <2>2
<1>5. Min({synced, n}) = synced
  BY <1>2, <1>3, MinOfTwo
<1>6. /\ status' = "open" /\ handle' = f /\ pending' = <<>>
      /\ files' = [files EXCEPT ![f] = [items |-> log, synced |-> synced]]
      /\ index' = ReplayIndex(log) /\ chain' = RecordsOf(log)
  BY <1>2, <1>4, <1>5 DEF Open, n
<1>7. files'[f] = [items |-> log, synced |-> synced]
  BY <1>6 DEF TypeOK
<1>8. /\ files'[f] \in FileType
      /\ files'[f].synced = synced /\ files'[f].items = log
  BY <1>2, <1>7 DEF FileType
<1>9. Recoverable(files'[f], puts, acked)
  <2>1. acked \in [Keys -> 0..MaxPuts]
    BY DEF TypeOK
  <2>2. QED
    BY <1>2, <1>3, <1>8, <2>1, WholeRecoverable
<1>10. files'[f].items \o pending' = log
  BY <1>2, <1>6, <1>8
<1>11. QED
  BY <1>2, <1>3, <1>6, <1>8, <1>9, <1>10 DEF OpenLog, log, file

\* A flush of frames that continue the file: all of it is acknowledged, or the
\* process stops over a file that still holds what was.
LEMMA FlushKeeps ==
    ASSUME TypeOK, WalAssumption, PanicAborts, NEW frames \in Seq(Frames), handle = name,
           NEW last \in Nat, puts <= last, Recoverable(files[name], puts, acked),
           Verified(files[name].items \o frames), Ordered(files[name].items \o frames, last)
    PROVE  /\ FlushSucceeds(frames) =>
                /\ Recoverable(files'[name], last, ReplayIndex(files[name].items \o frames))
                /\ files'[name].items \o pending' = files[name].items \o frames
                /\ files'[name].synced = Len(files[name].items \o frames)
           /\ FlushFails(frames) =>
                /\ Recoverable(files'[name], last, acked) /\ status' = "halted"
                /\ files'[name].synced = files[name].synced
                /\ \E m \in files[name].synced..Len(files[name].items \o frames) :
                        Replayed(files'[name]) = SubSeq(files[name].items \o frames, 1, m)
<1> USE DEF WalAssumption
<1> DEFINE items == files[name].items
           log == items \o frames
<1>1. /\ files \in Seq(FileType) /\ name \in DOMAIN files
      /\ acked \in [Keys -> 0..MaxPuts]
  BY DEF TypeOK, FileType, Contents
<1>2. /\ files[name] \in FileType /\ items \in Contents /\ Len(items) \in Nat
      /\ files[name].synced \in Nat /\ Len(frames) \in Nat
  BY <1>1, FileParts
<1>3. /\ log \in Seq(Frames) /\ Len(log) = Len(items) + Len(frames)
      /\ \A i \in 1..Len(items) : log[i] = items[i]
  <2>1. log \in Seq(Frames)
    BY DEF Verified
  <2>2. QED
    BY <1>2, <2>1 DEF Contents
<1>4. Verified(items)
  <2>1. GoodPrefix(log, Len(items)) /\ log \in Contents /\ Len(items) \in 0..Len(log)
    <3>1. GoodPrefix(log, Len(log)) /\ Len(log) \in Nat /\ Len(items) \in 0..Len(log)
      BY <1>2, <1>3 DEF Verified
    <3>2. log \in Contents
      BY <1>3 DEF Contents
    <3> HIDE DEF log, items
    <3>3. QED
      BY <3>1, <3>2, GoodPrefixShorter
  <2> HIDE DEF log
  <2>2. GoodPrefix(items, Len(items))
    <3>1. Len(items) <= Len(log) /\ Len(items) <= Len(items)
      BY <1>2, <1>3
    <3> HIDE DEF items
    <3>2. QED
      BY <1>2, <1>3, <2>1, <3>1, GoodPrefixAgrees, ZenonT(30)
  <2>3. ASSUME NEW i \in 1..Len(items) PROVE items[i] \in Frames
    <3> HIDE DEF items
    <3>1. i \in 1..Len(log)
      BY <1>2, <1>3
    <3>2. log[i] \in Frames
      BY <1>3, <3>1
    <3>3. QED
      BY <1>3, <3>2
  <2>4. items \in Seq(Frames)
    BY <1>2, <2>3 DEF Contents
  <2>5. QED
    BY <2>2, <2>4 DEF Verified
<1>5. Replayed(files[name]) = items
  BY <1>2, <1>4, ReplayedIs
<1>6. /\ files[name].synced <= Len(items)
      /\ \A k \in Keys : acked[k] <= ReplayIndex(SubSeq(items, 1, files[name].synced))[k]
  BY <1>5 DEF Recoverable
<1>7. SubSeq(log, 1, files[name].synced) = SubSeq(items, 1, files[name].synced)
  BY <1>2, <1>3, <1>6 DEF Contents
<1>8. /\ Verified(log) /\ Ordered(log, last)
      /\ SubSeq(log, 1, Len(log)) = log /\ log \o <<>> = log /\ log \in Contents
  BY <1>3, SMTT(30) DEF Contents
<1>9. ASSUME FlushSucceeds(frames)
      PROVE  /\ Recoverable(files'[name], last, ReplayIndex(log))
             /\ files'[name].items \o pending' = log
             /\ files'[name].synced = Len(log)
  <2>1. files'[name] = [items |-> log, synced |-> Len(items) + Len(frames)] /\ pending' = <<>>
    BY <1>1, <1>9 DEF FlushSucceeds
  <2> HIDE DEF log
  <2>2. /\ files'[name] \in FileType
        /\ files'[name].synced = Len(log) /\ files'[name].items = log
    BY <1>2, <1>3, <1>8, <2>1 DEF FileType
  <2>3. ReplayIndex(log) \in [Keys -> 0..MaxPuts]
    BY <1>3, ReplayType
  <2>4. \A k \in Keys : ReplayIndex(log)[k] <= ReplayIndex(SubSeq(log, 1, files'[name].synced))[k]
    <3>1. SubSeq(log, 1, files'[name].synced) = log
      BY <1>8, <2>2
    <3>2. \A k \in Keys : ReplayIndex(log)[k] \in Nat
      BY <2>3
    <3>3. \A k \in Keys : ReplayIndex(log)[k] <= ReplayIndex(log)[k]
      BY <3>2
    <3>4. QED
      BY <3>1, <3>3
  <2>5. Recoverable(files'[name], last, ReplayIndex(log))
    <3>1. files'[name].synced <= Len(log)
      BY <1>2, <1>3, <2>2
    <3>2. QED
      BY <1>8, <2>2, <2>3, <2>4, <3>1, WholeRecoverable
  <2>6. QED
    BY <1>8, <2>1, <2>2, <2>5
<1>10. ASSUME FlushFails(frames)
       PROVE  /\ Recoverable(files'[name], last, acked) /\ status' = "halted"
              /\ files'[name].synced = files[name].synced
              /\ \E m \in files[name].synced..Len(log) :
                        Replayed(files'[name]) = SubSeq(log, 1, m)
  <2>1. PICK written \in Written(frames) :
            files' = [files EXCEPT ![handle] =
                        [items |-> files[handle].items \o written,
                         synced |-> files[handle].synced]]
    BY <1>10 DEF FlushFails
  <2>2. files'[name] = [items |-> items \o written, synced |-> files[name].synced]
    BY <1>1, <2>1
  <2>3. PICK n \in 0..Len(frames), tail \in {<<>>, <<Torn>>} : written = Cut(frames, n, tail)
    BY WrittenType
  <2>4. written \in Contents
    BY WrittenType
  <2>5. items \o written = Cut(log, Len(items) + n, tail)
    <3>1. tail \in Contents
      BY Tails
    <3>2. frames \in Contents
      BY DEF Contents
    <3>3. QED
      BY <1>2, <2>3, <3>1, <3>2, ConcatCut, ZenonT(30)
  <2>6. /\ files'[name] \in FileType
        /\ files'[name].items = Cut(log, Len(items) + n, tail)
        /\ files'[name].synced = files[name].synced
    <3>1. items \o written \in Contents
      BY <1>2, <2>4 DEF Contents
    <3>2. QED
      BY <1>2, <2>2, <2>5, <3>1 DEF FileType
  <2>7. Len(items) + n \in 0..Len(log) /\ files[name].synced <= Len(items) + n
    <3>1. n \in Nat /\ n <= Len(frames)
      BY <1>2
    <3> HIDE DEF items, log
    <3>2. QED
      BY <1>2, <1>3, <1>6, <3>1
  <2> HIDE DEF log
  <2>8. \A k \in Keys : acked[k] <= ReplayIndex(SubSeq(log, 1, files'[name].synced))[k]
    BY <1>6, <1>7, <2>6
  <2>9. /\ Recoverable(files'[name], last, acked)
        /\ Replayed(files'[name]) = SubSeq(log, 1, Len(items) + n)
    <3>1. Recoverable(files'[name], last, acked)
      BY <1>1, <1>8, <2>6, <2>7, <2>8, CutRecoverable, ZenonT(30)
    <3> DEFINE cut == SubSeq(log, 1, Len(items) + n)
    <3>2. Verified(cut)
      <4>1. GoodPrefix(log, Len(items) + n)
        <5>1. Len(log) \in Nat /\ GoodPrefix(log, Len(log))
          BY <1>3, <1>8 DEF Verified
        <5>2. QED
          BY <2>7, <5>1, GoodPrefixShorter
      <4>2. QED
        BY <1>8, <2>7, <4>1, PrefixIsVerified
    <3>3. files'[name].items \in {cut, Append(cut, Torn)}
      <4>1. cut \o <<>> = cut /\ cut \o <<Torn>> = Append(cut, Torn)
        <5> HIDE DEF cut
        <5>1. QED
          BY <3>2 DEF Verified
      <4>2. QED
        BY <2>6, <4>1 DEF Cut
    <3> HIDE DEF cut
    <3>4. Replayed(files'[name]) = cut
      BY <2>6, <3>2, <3>3, ReplayedIs
    <3>5. QED
      BY <3>1, <3>4 DEF cut
  <2>10. Len(items) + n \in files[name].synced..Len(log)
    <3> HIDE DEF items
    <3>1. QED
      BY <1>2, <1>3, <2>7
  <2>11. status' = "halted"
    BY <1>10 DEF FlushFails, Panic
  <2>12. QED
    BY <2>6, <2>9, <2>10, <2>11
<1>11. QED
  BY <1>9, <1>10

\* The file compaction leaves behind, for the index retain left.
LEMMA RenameKeeps ==
    ASSUME TypeOK, WalAssumption, DirSyncWorks,
           NEW ix \in [Keys -> 0..MaxPuts], NEW need \in [Keys -> 0..MaxPuts],
           \A k \in Keys : need[k] <= ix[k] /\ ix[k] <= puts,
           NEW log \in CompactedLogs(ix), Rename(log)
    PROVE  /\ Verified(log) /\ ReplayIndex(log) = ix /\ Ordered(log, puts)
           /\ diskName' = name' /\ files'[name'].items = log
           /\ files'[name'].synced = Len(log) /\ Replayed(files'[name']) = log
           /\ Recoverable(files'[name'], puts, need)
<1> USE DEF WalAssumption
<1>1. /\ log \in Seq(Frames) /\ Len(log) \in Nat /\ Verified(log) /\ ReplayIndex(log) = ix
      /\ \A i \in 1..Len(log) : log[i].rec.put = ix[log[i].rec.key]
      /\ \A i, j \in 1..Len(log) : i # j => log[i].rec.key # log[j].rec.key
  <2>1. IsFiniteSet(Keys) /\ MaxPuts \in Nat
    OBVIOUS
  <2>2. log \in Seq(Frames)
    BY <2>1, CompactedProperty
  <2>3. Len(log) \in Nat
    BY <2>2
  <2>4. QED
    BY <2>1, <2>2, <2>3, CompactedProperty, Zenon
<1>2. Ordered(log, puts)
  <2>1. \A i \in 1..Len(log) : log[i].rec.key \in Keys
    <3>1. \A i \in 1..Len(log) : log[i] \in Frames
      BY <1>1
    <3>2. QED
      BY <3>1, Kinds
  <2>2. \A i, j \in 1..Len(log) : i < j => i # j
    BY <1>1
  <2>3. \A i \in 1..Len(log) : log[i].rec.put <= puts
    BY <1>1, <2>1
  <2>4. QED
    BY <1>1, <2>2, <2>3 DEF Ordered
<1>3. /\ files' = Append(files, [items |-> log, synced |-> Len(log)])
      /\ name' = Len(files) + 1 /\ diskName' = name'
  BY DEF Rename
<1>4. files'[name'] = [items |-> log, synced |-> Len(log)]
  BY <1>3 DEF TypeOK
<1>5. /\ files'[name'] \in FileType
      /\ files'[name'].synced = Len(log) /\ files'[name'].items = log
      /\ SubSeq(log, 1, Len(log)) = log
  BY <1>1, <1>4 DEF FileType, Contents
<1>6. \A k \in Keys : need[k] <= ReplayIndex(SubSeq(log, 1, files'[name'].synced))[k]
  BY <1>1, <1>5
<1>7. Recoverable(files'[name'], puts, need) /\ Replayed(files'[name']) = log
  <2>1. Len(log) <= Len(log) /\ MaxPuts \in Nat
    BY <1>1
  <2>2. QED
    BY <1>1, <1>2, <1>5, <1>6, <2>1, WholeRecoverable
<1>8. QED
  BY <1>1, <1>2, <1>3, <1>5, <1>7

\* The process and the file system of the theorems below: a failed store ends
\* the process, syncing the directory works, the log's directory entry is on
\* disk, and loss of power leaves a frame whole or torn.
Durable == PanicAborts /\ DirSyncWorks /\ ~ FreshLog /\ ~ CorruptTails

\* Nothing acknowledged is newer than the index of an open store, and nothing in
\* the index is newer than the last put.
LEMMA AckedBelowIndex ==
    ASSUME TypeOK, WalAssumption, WalInv, status = "open", NEW k \in Keys
    PROVE  acked[k] <= index[k] /\ index[k] <= puts
<1> USE DEF WalAssumption
<1> DEFINE items == files[name].items
           log == items \o pending
           old == Replayed(files[name])
           s == SubSeq(old, 1, files[name].synced)
<1>1. /\ files \in Seq(FileType) /\ name \in DOMAIN files /\ pending \in Seq(Frames)
      /\ acked[k] \in Nat /\ index[k] \in Nat /\ puts \in Nat
  BY DEF TypeOK, FileType, Contents
<1>2. /\ files[name] \in FileType /\ items \in Contents /\ Len(items) \in Nat
      /\ files[name].synced \in Nat
  BY <1>1, FileParts
<1>3. Verified(log) /\ index = ReplayIndex(log) /\ Ordered(log, puts)
  BY DEF WalInv, OpenLog
<1>4. files[name].synced <= Len(old) /\ acked[k] <= ReplayIndex(s)[k]
  BY DEF WalInv, Recoverable
<1>5. /\ old \in Seq(Frames) /\ Len(old) \in Nat /\ Len(old) <= Len(items)
      /\ \A i \in 1..Len(old) : old[i] = items[i]
  BY <1>2, ReplayedVerified
<1>6. pending \in Contents /\ log \in Seq(Frames) /\ Len(pending) \in Nat
  BY <1>1, <1>3 DEF Contents, Verified
<1>7. /\ Len(log) = Len(items) + Len(pending)
      /\ \A i \in 1..Len(items) : log[i] = items[i]
  BY <1>2, <1>6, ConcatItems
<1> HIDE DEF log, old, items
<1>8. /\ s \in Seq(Frames) /\ Len(s) = files[name].synced
      /\ \A i \in 1..files[name].synced : s[i] = old[i]
  BY <1>2, <1>4, <1>5
<1> HIDE DEF s
<1>9. Len(s) <= Len(log) /\ \A i \in 1..Len(s) : s[i] = log[i]
  BY <1>2, <1>4, <1>5, <1>6, <1>7, <1>8
<1>10. ReplayIndex(s)[k] <= ReplayIndex(log)[k]
  BY <1>3, <1>6, <1>8, <1>9, ReplayGrows
<1>11. ReplayIndex(s)[k] \in 0..MaxPuts
  BY <1>8, ReplayType
<1>12. index[k] <= puts
  <2>1. CASE ReplayIndex(log)[k] = 0
    BY <1>1, <1>3, <2>1
  <2>2. CASE \E i \in 1..Len(log) : ReplayIndex(log)[k] = log[i].rec.put
    BY <1>3, <2>2 DEF Ordered
  <2>3. QED
    BY <1>6, <2>1, <2>2, ReplayLast
<1>13. QED
  BY <1>1, <1>3, <1>4, <1>10, <1>11, <1>12

\* The log with the frame of a put behind it: it verifies, and replays to the
\* index the put leaves.
LEMMA PutLog ==
    ASSUME TypeOK, WalAssumption, WalInv, status = "open", puts < MaxPuts, NEW k \in Keys
    PROVE  LET rec == [key |-> k, put |-> puts + 1]
               frame == Frame(rec, chain)
               buffered == Append(pending, frame)
               new == files[name].items \o buffered
           IN  /\ rec \in Records /\ frame.chain = Append(chain, rec)
               /\ buffered \in Seq(Frames)
               /\ Verified(new) /\ RecordsOf(new) = Append(chain, rec)
               /\ ReplayIndex(new) = [index EXCEPT ![k] = puts + 1]
               /\ Ordered(new, puts + 1)
<1> USE DEF WalAssumption
<1> DEFINE rec == [key |-> k, put |-> puts + 1]
           frame == Frame(rec, chain)
           buffered == Append(pending, frame)
           log == files[name].items \o pending
           new == Append(log, frame)
<1>1. /\ Verified(log) /\ chain = RecordsOf(log) /\ index = ReplayIndex(log)
      /\ Ordered(log, puts)
  BY DEF WalInv, OpenLog
<1>2. /\ files \in Seq(FileType) /\ name \in DOMAIN files /\ pending \in Seq(Frames)
      /\ puts \in Nat /\ puts + 1 \in Nat
  BY DEF TypeOK, FileType, Contents
<1>3. files[name] \in FileType /\ files[name].items \in Contents
  BY <1>2, FileParts
<1>4. rec \in Records /\ rec.key = k /\ rec.put = puts + 1
  BY <1>2 DEF Records
<1> HIDE DEF rec
<1>5. /\ frame \in Frames /\ Verified(new) /\ RecordsOf(new) = Append(chain, rec)
  BY <1>1, <1>4, AppendVerifies
<1>6. frame.rec = rec /\ frame.chain = Append(chain, rec)
  BY DEF Frame
<1>7. log \in Seq(Frames) /\ new \in Seq(Frames)
  BY <1>1, <1>5 DEF Verified
<1>8. ReplayIndex(new) = [index EXCEPT ![k] = puts + 1]
  <2>1. MaxPuts \in Nat
    OBVIOUS
  <2> HIDE DEF log, frame
  <2>2. ReplayIndex(new) = [ReplayIndex(log) EXCEPT ![frame.rec.key] = frame.rec.put]
    BY <1>5, <1>7, <2>1, ReplayAppend
  <2>3. QED
    BY <1>1, <1>4, <1>6, <2>2
<1>9. Ordered(new, puts + 1)
  <2>1. frame.rec.put = puts + 1 /\ MaxPuts \in Nat
    BY <1>4, <1>6
  <2> HIDE DEF log, frame
  <2>2. QED
    BY <1>1, <1>2, <1>5, <1>7, <2>1, OrderedAppend
<1>10. buffered \in Seq(Frames) /\ files[name].items \o buffered = new
  <2> HIDE DEF frame
  <2>1. buffered \in Seq(Frames)
    BY <1>2, <1>5
  <2>2. pending \in Contents
    BY <1>2 DEF Contents
  <2>3. QED
    BY <1>3, <1>5, <2>1, <2>2, ConcatAppend
<1> HIDE DEF new, frame, log
<1>11. QED
  BY <1>4, <1>5, <1>6, <1>8, <1>9, <1>10 DEF rec, frame

LEMMA PutKeeps ==
    ASSUME TypeOK, TypeOK', WalAssumption, Durable, WalInv, NEW k \in Keys, Put(k)
    PROVE  WalInv'
<1> USE DEF WalAssumption
<1> DEFINE rec == [key |-> k, put |-> puts + 1]
           frame == Frame(rec, chain)
           buffered == Append(pending, frame)
           new == files[name].items \o buffered
<1>1. /\ status = "open" /\ puts < MaxPuts /\ puts' = puts + 1 /\ chain' = frame.chain
      /\ index' = [index EXCEPT ![k] = puts + 1]
      /\ UNCHANGED <<handle, name, diskName>>
  BY DEF Put
<1>2. /\ handle = name /\ diskName = name /\ Recoverable(files[name], puts, acked)
  BY <1>1 DEF WalInv
<1>3. /\ files \in Seq(FileType) /\ name \in DOMAIN files /\ pending \in Seq(Frames)
      /\ puts \in Nat /\ puts + 1 \in Nat /\ puts <= puts + 1
      /\ acked \in [Keys -> 0..MaxPuts]
  BY DEF TypeOK, FileType, Contents
<1>4. files[name] \in FileType
  BY <1>3, FileParts
<1>5. /\ chain' = RecordsOf(new) /\ buffered \in Seq(Frames) /\ Verified(new)
      /\ ReplayIndex(new) = index' /\ Ordered(new, puts')
  BY <1>1, PutLog
<1>6. PanicAborts
  BY DEF Durable
<1> HIDE DEF rec, frame, buffered
<1>7. /\ FlushSucceeds(buffered) =>
            /\ Recoverable(files'[name], puts', index')
            /\ files'[name].items \o pending' = new
      /\ FlushFails(buffered) =>
            Recoverable(files'[name], puts', acked) /\ status' = "halted"
  BY <1>1, <1>2, <1>3, <1>5, <1>6, FlushKeeps
<1> HIDE DEF new
<1>8. CASE FlushSucceeds(buffered) /\ acked' = index'
  <2>1. status' = "open"
    BY <1>1, <1>8 DEF FlushSucceeds
  <2>2. Recoverable(files'[name'], puts', acked') /\ diskName' = name' /\ handle' = name'
    BY <1>1, <1>2, <1>7, <1>8
  <2>3. OpenLog(files'[name'].items \o pending', chain', index', puts')
    BY <1>1, <1>5, <1>7, <1>8 DEF OpenLog
  <2>4. QED
    BY <2>1, <2>2, <2>3 DEF WalInv, NeverRefused
<1>9. CASE FlushFails(buffered) /\ acked' = acked
  <2>1. status' = "halted" /\ Recoverable(files'[name'], puts', acked') /\ diskName' = name'
    BY <1>1, <1>2, <1>7, <1>9
  <2>2. QED
    BY <2>1 DEF WalInv, NeverRefused
<1>10. CASE pending' = buffered /\ UNCHANGED <<files, status, acked>>
  <2>1. Recoverable(files[name], puts', acked)
    <3>1. \A j \in Keys : acked[j] <= acked[j]
      BY <1>3
    <3>2. QED
      BY <1>1, <1>2, <1>3, <1>4, <3>1, RecoverableWeaker
  <2>2. files'[name'].items \o pending' = new
    BY <1>1, <1>10 DEF new
  <2>3. QED
    BY <1>1, <1>2, <1>5, <1>10, <2>1, <2>2
    DEF WalInv, OpenLog, NeverRefused
<1>11. QED
  BY <1>8, <1>9, <1>10 DEF Put, buffered, frame, rec

LEMMA FlushesKeep ==
    ASSUME TypeOK, WalAssumption, Durable, WalInv, Flush
    PROVE  WalInv'
<1> USE DEF WalAssumption
<1> DEFINE log == files[name].items \o pending
<1>1. status = "open" /\ UNCHANGED <<index, chain, handle, name, diskName, puts>>
  BY DEF Flush
<1>2. /\ handle = name /\ diskName = name /\ Recoverable(files[name], puts, acked)
      /\ Verified(log) /\ chain = RecordsOf(log) /\ index = ReplayIndex(log)
      /\ Ordered(log, puts)
  BY <1>1 DEF WalInv, OpenLog
<1>3. pending \in Seq(Frames) /\ puts \in Nat /\ puts <= puts /\ PanicAborts
  BY DEF TypeOK, Durable
<1>4. /\ FlushSucceeds(pending) =>
            /\ Recoverable(files'[name], puts, index)
            /\ files'[name].items \o pending' = log
      /\ FlushFails(pending) =>
            Recoverable(files'[name], puts, acked) /\ status' = "halted"
  BY <1>2, <1>3, FlushKeeps
<1> HIDE DEF log
<1>5. CASE FlushSucceeds(pending) /\ acked' = index
  <2>1. status' = "open"
    BY <1>1, <1>5 DEF FlushSucceeds
  <2>2. QED
    BY <1>1, <1>2, <1>4, <1>5, <2>1 DEF WalInv, OpenLog, NeverRefused
<1>6. CASE FlushFails(pending) /\ acked' = acked
  BY <1>1, <1>2, <1>4, <1>6 DEF WalInv, NeverRefused
<1>7. QED
  BY <1>5, <1>6 DEF Flush

LEMMA CompactionKeeps ==
    ASSUME TypeOK, TypeOK', WalAssumption, Durable, WalInv, NEW drop \in SUBSET Keys,
           Compact(drop) \/ CompactFailsEarly(drop) \/ CompactFailsLate(drop)
    PROVE  WalInv'
<1> USE DEF WalAssumption
<1>1. status = "open" /\ Retain(drop) /\ UNCHANGED puts
  BY DEF Compact, CompactFailsEarly, CompactFailsLate
<1>2. \A k \in Keys : acked[k] <= index[k] /\ index[k] <= puts
  BY <1>1, AckedBelowIndex
<1>3. /\ index \in [Keys -> 0..MaxPuts] /\ acked \in [Keys -> 0..MaxPuts]
      /\ index' \in [Keys -> 0..MaxPuts] /\ acked' \in [Keys -> 0..MaxPuts]
      /\ puts \in Nat /\ puts <= puts /\ MaxPuts \in Nat
  <2>1. index' \in [Keys -> 0..MaxPuts] /\ acked' \in [Keys -> 0..MaxPuts]
    BY <1>1, RetainType
  <2>2. puts \in Nat /\ puts <= puts
    BY DEF TypeOK
  <2>3. index \in [Keys -> 0..MaxPuts] /\ acked \in [Keys -> 0..MaxPuts]
    BY DEF TypeOK
  <2>4. QED
    BY <2>1, <2>2, <2>3
<1>4. \A k \in Keys : acked'[k] <= index'[k] /\ index'[k] <= puts /\ acked'[k] <= acked[k]
  <2> SUFFICES ASSUME NEW k \in Keys
               PROVE  acked'[k] <= index'[k] /\ index'[k] <= puts /\ acked'[k] <= acked[k]
    OBVIOUS
  <2>1. /\ index'[k] = IF k \in drop THEN 0 ELSE index[k]
        /\ acked'[k] = IF k \in drop THEN 0 ELSE acked[k]
    BY <1>1 DEF Retain
  <2>2. QED
    BY <1>2, <1>3, <2>1
<1>5. DirSyncWorks /\ (Panic => status' = "halted")
  BY DEF Durable, Panic
<1>6. ASSUME Compact(drop) PROVE WalInv'
  <2>1. PICK log \in CompactedLogs(index') : Rename(log) /\ chain' = RecordsOf(log)
    BY <1>6 DEF Compact
  <2>2. /\ Verified(log) /\ ReplayIndex(log) = index' /\ Ordered(log, puts)
        /\ diskName' = name' /\ files'[name'].items = log
        /\ Recoverable(files'[name'], puts, acked')
    BY <1>3, <1>4, <1>5, <2>1, RenameKeeps
  <2>3. status' = "open" /\ handle' = name' /\ pending' = <<>>
    BY <1>1, <1>6 DEF Compact
  <2>4. files'[name'].items \o pending' = log
    BY <2>2, <2>3 DEF Verified
  <2>5. QED
    BY <1>1, <2>1, <2>2, <2>3, <2>4 DEF WalInv, OpenLog, NeverRefused
<1>7. ASSUME CompactFailsEarly(drop) PROVE WalInv'
  <2>1. status' = "halted" /\ UNCHANGED <<files, name, diskName>>
    BY <1>5, <1>7 DEF CompactFailsEarly, fileVars
  <2>2. files[name] \in FileType /\ Recoverable(files[name], puts, acked) /\ diskName = name
    <3>1. files \in Seq(FileType) /\ name \in DOMAIN files
      BY DEF TypeOK, FileType, Contents
    <3>2. QED
      BY <3>1, FileParts DEF WalInv
  <2>3. Recoverable(files[name], puts, acked')
    BY <1>3, <1>4, <2>2, RecoverableWeaker
  <2>4. QED
    BY <1>1, <2>1, <2>2, <2>3 DEF WalInv, NeverRefused
<1>8. ASSUME CompactFailsLate(drop) PROVE WalInv'
  <2>1. PICK log \in CompactedLogs(index') : Rename(log)
    BY <1>8 DEF CompactFailsLate
  <2>2. diskName' = name' /\ Recoverable(files'[name'], puts, acked')
    BY <1>3, <1>4, <1>5, <2>1, RenameKeeps
  <2>3. status' = "halted"
    BY <1>5, <1>8 DEF CompactFailsLate
  <2>4. QED
    BY <1>1, <2>2, <2>3 DEF WalInv, NeverRefused
<1>9. QED
  BY <1>6, <1>7, <1>8

\* What loss of power leaves of a recoverable file: its log, cut behind what
\* was synced.
LEMMA PowerLossCuts ==
    ASSUME Durable, MaxPuts \in Nat, NEW file \in FileType, NEW last,
           NEW need \in [Keys -> 0..MaxPuts], Recoverable(file, last, need),
           NEW items \in PowerLossContents(file)
    PROVE  /\ items \in Contents
           /\ Min({file.synced, Len(items)}) = file.synced
           /\ Recoverable([items |-> items, synced |-> file.synced], last, need)
           /\ \E m \in file.synced..Len(Replayed(file)) :
                Replayed([items |-> items, synced |-> file.synced])
                    = SubSeq(Replayed(file), 1, m)
<1> DEFINE log == Replayed(file)
<1>1. /\ file.items \in Contents /\ Len(file.items) \in Nat /\ file.synced \in Nat
  BY DEF FileType, Contents
<1>2. Recoverable(file, last, need)
  OBVIOUS
<1>3. PICK n \in file.synced..Len(file.items), tail \in {<<>>, <<Torn>>, <<Corrupt>>} :
              items = Cut(file.items, n, tail) /\ (~ CorruptTails => tail # <<Corrupt>>)
  BY <1>1, PowerLossType
<1>4. /\ items \in Contents /\ Len(items) \in Nat /\ Len(items) <= Len(file.items)
      /\ tail \in {<<>>, <<Torn>>} /\ tail \in Contents /\ n \in 0..Len(file.items)
      /\ n \in Nat
  <2>1. items \in Contents /\ Len(items) <= Len(file.items)
    BY <1>1, PowerLossType
  <2>2. tail \in {<<>>, <<Torn>>}
    BY <1>3 DEF Durable
  <2>3. n \in 0..Len(file.items) /\ n \in Nat
    BY <1>1
  <2>4. tail \in Contents
    BY Tails
  <2>5. Len(items) \in Nat
    BY <2>1 DEF Contents
  <2>6. QED
    BY <2>1, <2>2, <2>3, <2>4, <2>5
<1>5. Len(items) = n + Len(tail) /\ Len(tail) \in Nat
  <2>1. Len(Cut(file.items, n, tail)) = n + Len(tail)
    BY <1>1, <1>4, CutItems, ZenonT(30)
  <2>2. Len(tail) \in Nat
    BY <1>4 DEF Contents
  <2>3. QED
    BY <1>3, <2>1, <2>2
<1>6. Min({file.synced, Len(items)}) = file.synced
  <2>1. file.synced <= Len(items)
    BY <1>1, <1>4, <1>5
  <2>2. QED
    BY <1>1, <1>4, <2>1, MinOfTwo
<1> DEFINE after == [items |-> items, synced |-> file.synced]
<1>7. after \in FileType /\ after.items = items /\ after.synced = file.synced
  BY <1>1, <1>4 DEF FileType
<1>8. /\ file.items \in {log, Append(log, Torn)}
      /\ file.synced <= Len(log) /\ Ordered(log, last)
      /\ \A k \in Keys : need[k] <= ReplayIndex(SubSeq(log, 1, file.synced))[k]
  BY <1>2 DEF Recoverable
<1>9. /\ Verified(log) /\ log \in Contents /\ Len(log) \in Nat /\ Len(log) <= Len(file.items)
      /\ \A i \in 1..Len(log) : log[i] = file.items[i]
  BY <1>1, ReplayedVerified
<1> HIDE DEF after, log
<1>10. /\ Recoverable(after, last, need)
       /\ \E m \in file.synced..Len(log) : Replayed(after) = SubSeq(log, 1, m)
  <2>1. CASE n <= Len(log)
    <3>1. SubSeq(file.items, 1, n) = SubSeq(log, 1, n)
      BY <1>1, <1>4, <1>9, <2>1 DEF Contents
    <3>2. items = Cut(log, n, tail)
      BY <1>3, <3>1 DEF Cut
    <3>3. n \in 0..Len(log) /\ after.synced <= n
      BY <1>1, <1>4, <1>7, <1>9, <2>1
    <3>4. Recoverable(after, last, need) /\ Replayed(after) = SubSeq(log, 1, n)
      BY <1>4, <1>7, <1>8, <1>9, <3>2, <3>3, CutRecoverable
    <3>5. n \in file.synced..Len(log)
      BY <1>1, <1>4, <1>7, <1>9, <3>3
    <3>6. QED
      BY <3>4, <3>5
  <2>2. CASE n > Len(log)
    <3>1. file.items # log /\ Len(file.items) = Len(log) + 1
      BY <1>1, <1>4, <1>8, <1>9, <2>2 DEF Contents
    <3>2. n = Len(file.items) /\ Len(tail) = 0
      BY <1>4, <1>5, <1>9, <2>2, <3>1
    <3>3. tail = <<>>
      BY <1>4, <3>2
    <3>4. items = file.items
      BY <1>1, <1>3, <3>2, <3>3 DEF Cut, Contents
    <3>5. after = file
      BY <1>1, <3>4 DEF FileType, after
    <3>6. Replayed(after) = SubSeq(log, 1, Len(log))
      BY <1>9, <3>5 DEF log, Contents
    <3>7. Len(log) \in file.synced..Len(log)
      BY <1>1, <1>8, <1>9
    <3>8. QED
      BY <1>2, <3>5, <3>6, <3>7
  <2>3. QED
    BY <1>4, <1>9, <2>1, <2>2
<1>11. QED
  BY <1>4, <1>6, <1>10 DEF after, log

LEMMA RestartKeeps ==
    ASSUME TypeOK, WalAssumption, Durable, WalInv, Kill \/ PowerLoss
    PROVE  WalInv'
<1> USE DEF WalAssumption
<1> DEFINE file == files[name]
<1>1. /\ files \in Seq(FileType) /\ name \in DOMAIN files /\ name # 0
      /\ acked \in [Keys -> 0..MaxPuts] /\ MaxPuts \in Nat
  BY DEF TypeOK, FileType, Contents
<1>2. /\ file \in FileType /\ file.items \in Contents /\ Len(file.items) \in Nat
      /\ file.synced \in Nat
  BY <1>1, FileParts
<1>3. diskName = name /\ Recoverable(file, puts, acked)
  BY DEF WalInv
<1>4. UNCHANGED <<puts, acked>>
  BY DEF Kill, PowerLoss
<1>5. ASSUME Kill PROVE WalInv'
  <2>1. Open(name, file.items, file.synced) /\ UNCHANGED <<name, diskName>>
    BY <1>5 DEF Kill
  <2>2. [items |-> file.items, synced |-> file.synced] = file
    BY <1>2 DEF FileType
  <2> HIDE DEF file
  <2>3. /\ status' = "open" /\ handle' = name
        /\ Recoverable(files'[name], puts', acked')
        /\ OpenLog(files'[name].items \o pending', chain', index', puts')
    BY <1>1, <1>2, <1>3, <1>4, <2>1, <2>2, OpenAccepts
  <2>4. QED
    BY <1>3, <2>1, <2>3 DEF WalInv, NeverRefused, OpenLog
<1>6. ASSUME PowerLoss PROVE WalInv'
  <2>1. PICK items \in PowerLossContents(file) :
                Open(name, items, Min({file.synced, Len(items)}))
    BY <1>1, <1>3, <1>6 DEF PowerLoss
  <2>2. name' = name /\ diskName' = name
    BY <1>1, <1>3, <1>6 DEF PowerLoss
  <2>3. /\ Min({file.synced, Len(items)}) = file.synced
        /\ Recoverable([items |-> items, synced |-> file.synced], puts, acked)
        /\ items \in Contents
    BY <1>1, <1>2, <1>3, PowerLossCuts
  <2>4. /\ status' = "open" /\ handle' = name
        /\ Recoverable(files'[name], puts', acked')
        /\ OpenLog(files'[name].items \o pending', chain', index', puts')
    <3>1. Open(name, items, file.synced)
      BY <2>1, <2>3
    <3> HIDE DEF file
    <3>2. QED
      BY <1>1, <1>2, <1>4, <2>3, <3>1, OpenAccepts
  <2>5. QED
    BY <2>2, <2>4 DEF WalInv, NeverRefused, OpenLog
<1>7. QED
  BY <1>5, <1>6

\* Every step of a durable store keeps its file recoverable and its log whole.
THEOREM WalInvariant == ASSUME Durable PROVE Spec => [](TypeOK /\ WalInv)
<1>1. Init => WalInv
  <2> SUFFICES ASSUME Init PROVE WalInv
    OBVIOUS
  <2>1. MaxPuts \in Nat /\ <<>> \in Seq(Frames)
    BY WalAssumption DEF WalAssumption
  <2>2. /\ diskName = name /\ status = "open" /\ handle = name /\ puts = 0 /\ chain = <<>>
        /\ index = [k \in Keys |-> 0] /\ acked = [k \in Keys |-> 0]
        /\ files[name] = NewFile /\ pending = <<>>
    BY DEF Init, Durable
  <2>3. /\ NewFile \in FileType /\ NewFile.items = <<>> /\ NewFile.synced = 0
        /\ NewFile.synced <= Len(<<>>)
    BY DEF NewFile, FileType, Contents
  <2>4. Verified(<<>>) /\ Ordered(<<>>, 0) /\ RecordsOf(<<>>) = <<>>
    <3>1. Len(<<>>) = 0
      OBVIOUS
    <3>2. Verified(<<>>) /\ Ordered(<<>>, 0)
      BY <2>1, <3>1 DEF Verified, GoodPrefix, Ordered
    <3>3. RecordsOf(<<>>) \in Seq(Records) /\ Len(RecordsOf(<<>>)) = 0
      BY <2>1, <3>1, RecordsOfType
    <3>4. QED
      BY <3>2, <3>3
  <2>5. ReplayIndex(<<>>) = [k \in Keys |-> 0]
    BY DEF ReplayIndex
  <2>6. acked \in [Keys -> 0..MaxPuts] /\ SubSeq(<<>>, 1, 0) = <<>>
    BY <2>1, <2>2
  <2>7. \A k \in Keys : acked[k] <= ReplayIndex(SubSeq(<<>>, 1, NewFile.synced))[k]
    BY <2>2, <2>3, <2>5, <2>6
  <2>8. Recoverable(files[name], puts, acked)
    BY <2>1, <2>2, <2>3, <2>4, <2>6, <2>7, WholeRecoverable
  <2>9. files[name].items \o pending = <<>>
    BY <2>1, <2>2, <2>3
  <2>10. QED
    BY <2>2, <2>4, <2>5, <2>8, <2>9 DEF WalInv, OpenLog, NeverRefused
<1>2. TypeOK /\ TypeOK' /\ WalInv /\ [Next]_vars => WalInv'
  <2> SUFFICES ASSUME TypeOK, TypeOK', WalInv, [Next]_vars PROVE WalInv'
    OBVIOUS
  <2>1. CASE UNCHANGED vars
    BY <2>1 DEF WalInv, OpenLog, NeverRefused, vars, storeVars, fileVars
  <2>2. CASE Next
    BY <2>2, WalAssumption, PutKeeps, FlushesKeep, CompactionKeeps, RestartKeeps DEF Next
  <2>3. QED
    BY <2>1, <2>2
<1>3. QED
  BY <1>1, <1>2, WalTypeCorrect, PTL DEF Spec

\* A durable store never meets a log that open_with refuses, whatever write,
\* fsync or compaction was cut short before.
THEOREM LogAccepted == ASSUME Durable PROVE Spec => []NeverRefused
<1>1. WalInv => NeverRefused
  BY DEF WalInv
<1>2. QED
  BY <1>1, WalInvariant, PTL

\* The file and the buffer of an open durable store are one unbroken chain that
\* replays to its index.
THEOREM ChainUnbroken == ASSUME Durable PROVE Spec => []LogVerifies
<1>1. TypeOK /\ WalInv => LogVerifies
  <2> SUFFICES ASSUME TypeOK, WalInv, status = "open"
               PROVE  LET log == files[handle].items \o pending
                      IN  /\ handle = name
                          /\ Consumed(log) = Len(log)
                          /\ chain = RecordsOf(log)
                          /\ index = ReplayIndex(log)
    BY DEF LogVerifies
  <2>1. handle = name /\ OpenLog(files[handle].items \o pending, chain, index, puts)
    BY DEF WalInv
  <2>2. QED
    BY <2>1, VerifiedConsumed DEF OpenLog
<1>2. QED
  BY <1>1, WalInvariant, PTL

\* What put or flush acknowledged is found again by every later open of a
\* durable store, until compaction drops its key.
THEOREM AckedFoundAgain == ASSUME Durable PROVE Spec => []AckedRecoverable
<1>1. TypeOK /\ WalInv => AckedRecoverable
  <2> SUFFICES ASSUME TypeOK, WalInv, status = "open", NEW k \in Keys
               PROVE  index[k] >= acked[k]
    BY DEF AckedRecoverable
  <2>1. acked[k] <= index[k] /\ acked[k] \in 0..MaxPuts /\ index[k] \in 0..MaxPuts
    BY WalAssumption, AckedBelowIndex DEF TypeOK
  <2>2. QED
    BY <2>1, WalAssumption DEF WalAssumption
<1>2. QED
  BY <1>1, WalInvariant, PTL

-----------------------------------------------------------------------------
(***************************************************************************)
(* The refinement of RecordLog.                                            *)
(***************************************************************************)

\* The latest puts of the records of a log are what the log replays to.
LEMMA LatestIsReplay ==
    ASSUME NEW log \in Seq(Frames)
    PROVE  Log!Latest(RecordsOf(log)) = ReplayIndex(log)
<1> DEFINE recs == RecordsOf(log)
           A(k) == {i \in DOMAIN recs : recs[i].key = k}
           B(k) == {i \in DOMAIN log : log[i].rec.key = k}
<1>1. /\ DOMAIN recs = 1..Len(log) /\ DOMAIN log = 1..Len(log) /\ Len(log) \in Nat
      /\ \A i \in 1..Len(log) : recs[i] = log[i].rec
  BY RecordsOfType
<1> HIDE DEF recs
<1>2. \A k : A(k) = B(k)
  BY <1>1
<1>3. ASSUME NEW k \in Keys
      PROVE  (IF A(k) = {} THEN 0 ELSE recs[Max(A(k))].put)
                = (IF B(k) = {} THEN 0 ELSE log[Max(B(k))].rec.put)
  <2>1. CASE B(k) = {}
    BY <1>2, <2>1
  <2>2. CASE B(k) # {}
    <3>1. B(k) \in SUBSET Nat /\ B(k) \subseteq 1..Len(log) /\ \A i \in B(k) : i <= Len(log)
      BY <1>1
    <3> HIDE DEF A, B
    <3>2. Max(B(k)) \in B(k)
      BY <1>1, <2>2, <3>1, MaxProperty
    <3>3. recs[Max(B(k))] = log[Max(B(k))].rec
      BY <1>1, <3>1, <3>2
    <3>4. QED
      BY <1>2, <2>2, <3>3
  <2>3. QED
    BY <2>1, <2>2
<1>4. Log!Latest(recs) = [k \in Keys |-> IF A(k) = {} THEN 0 ELSE recs[Max(A(k))].put]
  BY DEF Log!Latest, Log!Max, Max
<1>5. ReplayIndex(log) = [k \in Keys |-> IF B(k) = {} THEN 0 ELSE log[Max(B(k))].rec.put]
  BY DEF ReplayIndex
<1> HIDE DEF A, B
<1>6. QED
  BY <1>3, <1>4, <1>5 DEF recs

\* The frames of a recoverable file, and those of the buffer of an open store.
LEMMA LoggedFrames ==
    ASSUME NEW file \in FileType, NEW last, NEW need, Recoverable(file, last, need),
           NEW pend \in Seq(Frames)
    PROVE  /\ WithoutTear(file.items) = Replayed(file)
           /\ WithoutTear(file.items) \o <<>> = Replayed(file)
           /\ Verified(file.items \o pend) =>
                WithoutTear(file.items) \o pend = file.items \o pend
<1> DEFINE log == Replayed(file)
<1>1. log \in Seq(Frames) /\ Len(log) \in Nat /\ Verified(log) /\ log \in Contents
  BY ReplayedVerified
<1>2. file.items \in {log, Append(log, Torn)}
  BY DEF Recoverable
<1>3. \A i \in 1..Len(log) : log[i] # Torn
  <2>1. \A i \in 1..Len(log) : log[i] \in Frames
    BY <1>1
  <2>2. \A f \in Frames : f.kind = "frame"
    BY Kinds
  <2>3. QED
    BY <2>1, <2>2 DEF Torn
<1> HIDE DEF log
<1>4. WithoutTear(file.items) = log
  <2>1. CASE file.items = log
    <3>1. log # <<>> => Len(log) \in 1..Len(log)
      BY <1>1
    <3>2. QED
      BY <1>3, <2>1, <3>1 DEF WithoutTear
  <2>2. CASE file.items = Append(log, Torn)
    <3>1. /\ Append(log, Torn) # <<>> /\ Len(Append(log, Torn)) = Len(log) + 1
          /\ Append(log, Torn)[Len(log) + 1] = Torn
          /\ SubSeq(Append(log, Torn), 1, Len(log)) = log
      BY <1>1 DEF Contents
    <3>2. Len(log) + 1 - 1 = Len(log)
      BY <1>1
    <3>3. QED
      BY <2>2, <3>1, <3>2 DEF WithoutTear
  <2>3. QED
    BY <1>2, <2>1, <2>2
<1>5. log \o <<>> = log
  BY <1>1
<1>6. ASSUME Verified(file.items \o pend) PROVE file.items = log
  <2>1. SUFFICES ASSUME file.items = Append(log, Torn) PROVE FALSE
    BY <1>2
  <2> DEFINE whole == Append(log, Torn) \o pend
  <2>2. whole \in Seq(Frames)
    BY <1>6, <2>1 DEF Verified
  <2>3. whole[Len(log) + 1] = Torn /\ Len(log) + 1 \in 1..Len(whole)
    <3>1. Append(log, Torn) \in Contents /\ pend \in Contents
      <4>1. file.items \in Contents
        BY DEF FileType
      <4>2. pend \in Contents
        BY DEF Contents
      <4>3. QED
        BY <2>1, <4>1, <4>2
    <3>2. Len(Append(log, Torn)) = Len(log) + 1 /\ Append(log, Torn)[Len(log) + 1] = Torn
      BY <1>1 DEF Contents
    <3>3. Len(pend) \in Nat
      OBVIOUS
    <3>4. QED
      BY <1>1, <3>1, <3>2, <3>3, ConcatItems
  <2> HIDE DEF whole
  <2>4. Torn \in Frames
    BY <2>2, <2>3
  <2>5. QED
    BY <2>4 DEF Torn, Frames
<1>7. QED
  BY <1>4, <1>5, <1>6 DEF log

\* What a log looks like to its user, cut at s, when records are appended, when
\* they are synced, and when some of the last ones are lost.
LEMMA ViewAppend ==
    ASSUME NEW L \in Seq(Records), NEW s \in 0..Len(L), NEW rec \in Records
    PROVE  /\ SubSeq(Append(L, rec), 1, s) = SubSeq(L, 1, s)
           /\ SubSeq(Append(L, rec), s + 1, Len(Append(L, rec)))
                = Append(SubSeq(L, s + 1, Len(L)), rec)
<1>1. Len(L) \in Nat /\ s \in Nat /\ s <= Len(L)
  OBVIOUS
<1>2. /\ Append(L, rec) \in Seq(Records) /\ Len(Append(L, rec)) = Len(L) + 1
      /\ \A i \in 1..(Len(L) + 1) : Append(L, rec)[i] = IF i = Len(L) + 1 THEN rec ELSE L[i]
  BY <1>1
<1> DEFINE a == SubSeq(Append(L, rec), s + 1, Len(L) + 1)
           b == SubSeq(L, s + 1, Len(L))
           c == Append(b, rec)
           n == Len(L) - s
<1>3. b \in Seq(Records) /\ Len(b) = n /\ n \in Nat /\ \A i \in 1..n : b[i] = L[s + i]
  BY <1>1
<1>4. /\ a \in Seq(Records) /\ Len(a) = n + 1
      /\ \A i \in 1..(n + 1) : a[i] = Append(L, rec)[s + i]
  BY <1>1, <1>2
<1>5. SubSeq(Append(L, rec), 1, s) = SubSeq(L, 1, s)
  BY <1>1, <1>2
<1> HIDE DEF a, b
<1>6. /\ c \in Seq(Records) /\ Len(c) = n + 1
      /\ \A i \in 1..(n + 1) : c[i] = IF i = n + 1 THEN rec ELSE b[i]
  <2>1. \A d \in Seq(Records) :
            /\ Append(d, rec) \in Seq(Records) /\ Len(Append(d, rec)) = Len(d) + 1
            /\ \A i \in 1..(Len(d) + 1) :
                    Append(d, rec)[i] = IF i = Len(d) + 1 THEN rec ELSE d[i]
    OBVIOUS
  <2>2. PICK d \in Seq(Records) : d = b /\ Len(d) = n
    BY <1>3
  <2> HIDE DEF n
  <2>3. /\ Append(d, rec) \in Seq(Records) /\ Len(Append(d, rec)) = n + 1
        /\ \A i \in 1..(n + 1) : Append(d, rec)[i] = IF i = n + 1 THEN rec ELSE d[i]
    BY <2>1, <2>2, Zenon
  <2>4. QED
    BY <2>2, <2>3
<1> HIDE DEF c
<1>7. ASSUME NEW i \in 1..(n + 1) PROVE a[i] = c[i]
  <2>1. CASE i = n + 1
    <3>1. s + i = Len(L) + 1
      BY <1>1, <2>1
    <3>2. QED
      BY <1>1, <1>2, <1>4, <1>6, <2>1, <3>1
  <2>2. CASE i \in 1..n
    <3>1. s + i \in 1..(Len(L) + 1) /\ s + i # Len(L) + 1 /\ i # n + 1
      BY <1>1, <2>2
    <3>2. QED
      BY <1>2, <1>3, <1>4, <1>6, <2>2, <3>1
  <2>3. QED
    BY <1>3, <2>1, <2>2
<1>8. a = c
  <2> HIDE DEF n
  <2>1. QED
    BY <1>3, <1>4, <1>6, <1>7
<1>9. QED
  BY <1>2, <1>5, <1>8 DEF a, b, c

LEMMA ViewSplit ==
    ASSUME NEW L \in Seq(Records), NEW s \in 0..Len(L)
    PROVE  /\ SubSeq(L, 1, s) \o SubSeq(L, s + 1, Len(L)) = L
           /\ SubSeq(L, 1, Len(L)) = L
           /\ SubSeq(L, Len(L) + 1, Len(L)) = <<>>
<1>1. Len(L) \in Nat /\ s \in Nat /\ s <= Len(L)
  OBVIOUS
<1> DEFINE a == SubSeq(L, 1, s)
           b == SubSeq(L, s + 1, Len(L))
<1>2. /\ a \in Seq(Records) /\ Len(a) = s /\ \A i \in 1..s : a[i] = L[i]
      /\ b \in Seq(Records) /\ Len(b) = Len(L) - s
      /\ \A i \in 1..(Len(L) - s) : b[i] = L[s + i]
  BY <1>1
<1> HIDE DEF a, b
<1>3. /\ a \o b \in Seq(Records) /\ Len(a \o b) = Len(L)
      /\ \A i \in 1..Len(L) : (a \o b)[i] = IF i <= s THEN a[i] ELSE b[i - s]
  BY <1>1, <1>2
<1>4. ASSUME NEW i \in 1..Len(L) PROVE (a \o b)[i] = L[i]
  <2>1. CASE i <= s
    <3>1. i \in 1..s
      BY <1>1, <2>1
    <3>2. QED
      BY <1>2, <1>3, <2>1, <3>1
  <2>2. CASE i > s
    <3>1. i - s \in 1..(Len(L) - s) /\ s + (i - s) = i /\ ~ (i <= s)
      BY <1>1, <2>2
    <3>2. QED
      BY <1>2, <1>3, <3>1
  <2>3. i <= s \/ i > s
    BY <1>1
  <2>4. QED
    BY <2>1, <2>2, <2>3
<1> DEFINE c == a \o b
<1>5. c \in Seq(Records) /\ Len(c) = Len(L) /\ \A i \in 1..Len(L) : c[i] = L[i]
  BY <1>3, <1>4
<1> HIDE DEF c
<1>6. c = L
  BY <1>5
<1>7. SubSeq(L, 1, Len(L)) = L
  OBVIOUS
<1>8. SubSeq(L, Len(L) + 1, Len(L)) = <<>>
  BY <1>1
<1>9. QED
  BY <1>6, <1>7, <1>8 DEF a, b, c

LEMMA ViewCut ==
    ASSUME NEW L \in Seq(Records), NEW s \in 0..Len(L), NEW more \in Seq(Records),
           NEW m \in s..(Len(L) + Len(more))
    PROVE  LET cut == SubSeq(L \o more, 1, m)
           IN  /\ SubSeq(cut, 1, s) = SubSeq(L, 1, s)
               /\ Log!IsPrefix(SubSeq(cut, s + 1, Len(cut)),
                               SubSeq(L, s + 1, Len(L)) \o more)
<1> DEFINE all == L \o more
           cut == SubSeq(all, 1, m)
           a == SubSeq(cut, s + 1, m)
           b == SubSeq(L, s + 1, Len(L))
           c == b \o more
           n == m - s
<1>1. /\ Len(L) \in Nat /\ s \in Nat /\ s <= Len(L) /\ Len(more) \in Nat
      /\ m \in Nat /\ s <= m /\ m <= Len(L) + Len(more) /\ n \in Nat
  OBVIOUS
<1>2. /\ all \in Seq(Records) /\ Len(all) = Len(L) + Len(more)
      /\ \A i \in 1..Len(L) : all[i] = L[i]
      /\ \A i \in 1..Len(more) : all[Len(L) + i] = more[i]
  BY <1>1
<1> HIDE DEF all
<1>3. cut \in Seq(Records) /\ Len(cut) = m /\ \A i \in 1..m : cut[i] = all[i]
  BY <1>1, <1>2
<1> HIDE DEF cut
<1>4. a \in Seq(Records) /\ Len(a) = n /\ \A i \in 1..n : a[i] = cut[s + i]
  BY <1>1, <1>3
<1>5. b \in Seq(Records) /\ Len(b) = Len(L) - s /\ \A i \in 1..(Len(L) - s) : b[i] = L[s + i]
  BY <1>1, SMTT(30)
<1>6. SubSeq(cut, 1, s) = SubSeq(L, 1, s)
  <2>1. ASSUME NEW i \in 1..s PROVE cut[i] = L[i]
    <3>1. i \in 1..m /\ i \in 1..Len(L)
      BY <1>1
    <3>2. QED
      BY <1>2, <1>3, <3>1
  <2>2. s <= Len(cut)
    BY <1>1, <1>3
  <2>3. QED
    BY <1>1, <1>3, <2>1, <2>2
<1> HIDE DEF a, b
<1>7. /\ c \in Seq(Records) /\ Len(c) = Len(L) - s + Len(more)
      /\ \A i \in 1..Len(c) : c[i] = IF i <= Len(L) - s THEN b[i] ELSE more[i - (Len(L) - s)]
  <2>1. /\ c \in Seq(Records) /\ Len(c) = Len(b) + Len(more)
        /\ \A i \in 1..Len(c) : c[i] = IF i <= Len(b) THEN b[i] ELSE more[i - Len(b)]
    <3>1. b \in Seq(Records)
      BY <1>5
    <3>2. QED
      BY <3>1
  <2> HIDE DEF c
  <2>2. QED
    BY <1>5, <2>1
<1> HIDE DEF c
<1>8. n <= Len(c)
  BY <1>1, <1>7
<1>9. ASSUME NEW i \in 1..n PROVE a[i] = c[i]
  <2>1. a[i] = all[s + i]
    <3>1. s + i \in 1..m
      BY <1>1
    <3>2. QED
      BY <1>3, <1>4, <3>1
  <2>2. i \in 1..Len(c)
    BY <1>1, <1>7, <1>8
  <2>3. CASE i <= Len(L) - s
    <3>1. s + i \in 1..Len(L) /\ i \in 1..(Len(L) - s)
      BY <1>1, <2>3
    <3>2. QED
      BY <1>2, <1>5, <1>7, <2>1, <2>2, <2>3, <3>1
  <2>4. CASE ~ (i <= Len(L) - s)
    <3> DEFINE j == i - (Len(L) - s)
    <3>1. j \in 1..Len(more) /\ Len(L) + j = s + i
      BY <1>1, <2>4
    <3>2. c[i] = more[j]
      BY <1>7, <2>2, <2>4
    <3> HIDE DEF j
    <3>3. QED
      BY <1>2, <2>1, <3>1, <3>2
  <2>5. QED
    BY <2>3, <2>4
<1>10. SubSeq(a, 1, Len(a)) = SubSeq(c, 1, Len(a))
  <2> HIDE DEF n
  <2>1. QED
    BY <1>1, <1>4, <1>7, <1>8, <1>9
<1>11. Log!IsPrefix(a, c)
  BY <1>4, <1>8, <1>10 DEF Log!IsPrefix
<1>12. QED
  BY <1>3, <1>6, <1>11 DEF all, cut, a, b, c

\* The records of a prefix are a prefix of the records.
LEMMA RecordsOfPrefix ==
    ASSUME NEW log \in Seq(Frames), NEW m \in 0..Len(log)
    PROVE  RecordsOf(SubSeq(log, 1, m)) = SubSeq(RecordsOf(log), 1, m)
<1> DEFINE cut == SubSeq(log, 1, m)
           recs == RecordsOf(log)
           a == RecordsOf(cut)
           b == SubSeq(recs, 1, m)
<1>1. Len(log) \in Nat /\ m \in Nat /\ m <= Len(log)
  OBVIOUS
<1>2. cut \in Seq(Frames) /\ Len(cut) = m /\ \A i \in 1..m : cut[i] = log[i]
  BY <1>1
<1> HIDE DEF cut
<1>3. recs \in Seq(Records) /\ Len(recs) = Len(log) /\ \A i \in 1..Len(log) : recs[i] = log[i].rec
  BY RecordsOfType
<1>4. a \in Seq(Records) /\ Len(a) = m /\ \A i \in 1..m : a[i] = cut[i].rec
  BY <1>2, RecordsOfType
<1> HIDE DEF recs, a
<1>5. b \in Seq(Records) /\ Len(b) = m /\ \A i \in 1..m : b[i] = recs[i]
  BY <1>1, <1>3
<1> HIDE DEF b
<1>6. \A i \in 1..m : a[i] = b[i]
  BY <1>1, <1>2, <1>3, <1>4, <1>5
<1>7. a = b
  BY <1>1, <1>4, <1>5, <1>6
<1>8. QED
  BY <1>7 DEF a, b, cut, recs

\* The frames the user of a file and a buffer counts on: those of the file, and
\* while the process is up those of the buffer.
Frontier(file, pend, st) ==
    WithoutTear(file.items) \o (IF st = "open" THEN pend ELSE <<>>)

\* They are verified, what was synced is among the first of them, and what
\* open_with would replay comes before the others.
LEMMA FrontierIs ==
    ASSUME NEW file \in FileType, NEW last, NEW need, Recoverable(file, last, need),
           NEW pend \in Seq(Frames), NEW st,
           st = "open" => Verified(file.items \o pend)
    PROVE  LET all == Frontier(file, pend, st)
               log == Replayed(file)
           IN  /\ all \in Seq(Frames) /\ file.synced \in 0..Len(log) /\ Len(log) <= Len(all)
               /\ st = "open" => all = file.items \o pend
               /\ st # "open" => all = log
               /\ \A i \in 1..Len(log) : all[i] = log[i]
<1> DEFINE log == Replayed(file)
<1>1. log \in Seq(Frames) /\ log \in Contents /\ Len(log) \in Nat /\ file.synced \in Nat
  BY ReplayedVerified DEF FileType
<1>2. file.synced \in 0..Len(log)
  <2>1. file.synced <= Len(log)
    BY DEF Recoverable
  <2>2. QED
    BY <1>1, <2>1
<1>3. WithoutTear(file.items) = log
  BY LoggedFrames
<1> HIDE DEF log
<1>4. CASE st = "open"
  <2>1. Frontier(file, pend, st) = log \o pend
    BY <1>3, <1>4 DEF Frontier
  <2>2. log \o pend = file.items \o pend
    BY <1>3, <1>4, LoggedFrames
  <2>3. /\ log \o pend \in Seq(Frames) /\ Len(log) <= Len(log \o pend)
        /\ \A i \in 1..Len(log) : (log \o pend)[i] = log[i]
    BY <1>1
  <2>4. QED
    BY <1>2, <1>4, <2>1, <2>2, <2>3 DEF log
<1>5. CASE st # "open"
  <2>1. Frontier(file, pend, st) = log
    BY <1>1, <1>3, <1>5 DEF Frontier
  <2>2. QED
    BY <1>1, <1>2, <1>5, <2>1 DEF log
<1>6. QED
  BY <1>4, <1>5

\* Their records: while the store is open they are the ones under the chain and
\* the index, otherwise the ones open_with will replay.
View(L, file, pend, st, root, ix) ==
    /\ L \in Seq(Records) /\ file.synced \in 0..Len(L)
    /\ st = "open" => /\ L = root /\ Log!Latest(L) = ix
                      /\ Len(L) = Len(file.items \o pend)
    /\ st # "open" => L = RecordsOf(Replayed(file))
    /\ \A m \in file.synced..Len(Replayed(file)) :
            /\ m \in file.synced..Len(L)
            /\ RecordsOf(SubSeq(Replayed(file), 1, m)) = SubSeq(L, 1, m)

LEMMA FrontierRecords ==
    ASSUME NEW file \in FileType, NEW last, NEW need, Recoverable(file, last, need),
           NEW pend \in Seq(Frames), NEW st, NEW root, NEW ix,
           st = "open" => OpenLog(file.items \o pend, root, ix, last)
    PROVE  View(RecordsOf(Frontier(file, pend, st)), file, pend, st, root, ix)
<1> DEFINE all == Frontier(file, pend, st)
           log == Replayed(file)
<1>1. st = "open" => /\ Verified(file.items \o pend) /\ root = RecordsOf(file.items \o pend)
                     /\ ix = ReplayIndex(file.items \o pend)
  BY DEF OpenLog
<1>2. /\ all \in Seq(Frames) /\ file.synced \in 0..Len(log) /\ Len(log) <= Len(all)
      /\ st = "open" => all = file.items \o pend
      /\ st # "open" => all = log
      /\ \A i \in 1..Len(log) : all[i] = log[i]
  BY <1>1, FrontierIs
<1>3. log \in Seq(Frames) /\ Len(log) \in Nat /\ file.synced \in Nat
  BY ReplayedVerified DEF FileType
<1> HIDE DEF all, log
<1>4. RecordsOf(all) \in Seq(Records) /\ Len(RecordsOf(all)) = Len(all) /\ Len(all) \in Nat
  BY <1>2, RecordsOfType
<1>5. Log!Latest(RecordsOf(all)) = ReplayIndex(all)
  BY <1>2, LatestIsReplay
<1>6. ASSUME NEW m \in file.synced..Len(log)
      PROVE  /\ m \in file.synced..Len(RecordsOf(all))
             /\ RecordsOf(SubSeq(log, 1, m)) = SubSeq(RecordsOf(all), 1, m)
  <2>1. m \in Nat /\ m <= Len(log) /\ m <= Len(all) /\ m \in 0..Len(all)
    BY <1>2, <1>3, <1>4
  <2>2. SubSeq(log, 1, m) = SubSeq(all, 1, m)
    BY <1>2, <1>3, <2>1
  <2>3. RecordsOf(SubSeq(all, 1, m)) = SubSeq(RecordsOf(all), 1, m)
    BY <1>2, <2>1, RecordsOfPrefix
  <2>4. m \in file.synced..Len(RecordsOf(all))
    BY <1>3, <1>4, <2>1
  <2>5. QED
    BY <2>2, <2>3, <2>4
<1>7. file.synced \in 0..Len(RecordsOf(all))
  BY <1>2, <1>3, <1>4
<1>8. st = "open" => /\ RecordsOf(all) = root /\ Log!Latest(RecordsOf(all)) = ix
                     /\ Len(RecordsOf(all)) = Len(file.items \o pend)
  BY <1>1, <1>2, <1>4, <1>5
<1>9. st # "open" => RecordsOf(all) = RecordsOf(log)
  BY <1>2
<1>10. QED
  BY <1>4, <1>6, <1>7, <1>8, <1>9 DEF View, all, log

\* The same of the store, before a step and after one.
Viewed == View(Logged, files[name], pending, status, chain, index)

LEMMA ViewedHolds == TypeOK /\ WalInv => Viewed
<1> SUFFICES ASSUME TypeOK, WalInv PROVE Viewed
  OBVIOUS
<1> DEFINE file == files[name]
<1>1. file \in FileType /\ pending \in Seq(Frames)
  <2>1. files \in Seq(FileType) /\ name \in DOMAIN files /\ pending \in Seq(Frames)
    BY DEF TypeOK, FileType, Contents
  <2>2. QED
    BY <2>1, FileParts
<1>2. /\ Recoverable(file, puts, acked)
      /\ status = "open" => OpenLog(file.items \o pending, chain, index, puts)
  BY DEF WalInv
<1>3. Logged = RecordsOf(Frontier(file, pending, status))
  BY DEF Logged, Frontier
<1> HIDE DEF file
<1>4. View(RecordsOf(Frontier(file, pending, status)), file, pending, status, chain, index)
  BY <1>1, <1>2, FrontierRecords
<1>5. QED
  BY <1>3, <1>4 DEF Viewed, file

LEMMA ViewedNext == TypeOK' /\ WalInv' => Viewed'
BY ViewedHolds, PTL

\* The step of RecordLog a step of the store takes, by what it does to the view.
LEMMA WriteStep ==
    ASSUME Logged \in Seq(Records), files[name].synced \in 0..Len(Logged),
           NEW rec \in Records, Logged' = Append(Logged, rec),
           files'[name'].synced = files[name].synced, acked' = acked
    PROVE  Log!Next
<1> DEFINE s == files[name].synced
<1>1. /\ SubSeq(Logged', 1, s) = SubSeq(Logged, 1, s)
      /\ SubSeq(Logged', s + 1, Len(Logged')) = Append(SubSeq(Logged, s + 1, Len(Logged)), rec)
  BY ViewAppend
<1>2. Log!Write(rec)
  BY <1>1 DEF Log!Write
<1>3. QED
  BY <1>2 DEF Log!Next

LEMMA AcknowledgeStep ==
    ASSUME Logged \in Seq(Records), files[name].synced \in 0..Len(Logged),
           NEW records \in {<<>>} \union {<<rec>> : rec \in Records},
           Logged' = Logged \o records, Logged' \in Seq(Records),
           files'[name'].synced = Len(Logged'), acked' = Log!Latest(Logged')
    PROVE  Log!Next
<1> DEFINE s == files[name].synced
           M == Logged'
<1>1. SubSeq(Logged, 1, s) \o SubSeq(Logged, s + 1, Len(Logged)) = Logged
  BY ViewSplit
<1>2. SubSeq(M, 1, Len(M)) = M /\ SubSeq(M, Len(M) + 1, Len(M)) = <<>>
  <2>1. Len(M) \in 0..Len(M) /\ M \in Seq(Records)
    OBVIOUS
  <2> HIDE DEF M
  <2>2. QED
    BY <2>1, ViewSplit
<1>3. Log!Acknowledge(records)
  BY <1>1, <1>2 DEF Log!Acknowledge
<1>4. QED
  BY <1>3 DEF Log!Next

LEMMA FailStep ==
    ASSUME Logged \in Seq(Records), files[name].synced \in 0..Len(Logged),
           NEW records \in {<<>>} \union {<<rec>> : rec \in Records},
           NEW m \in files[name].synced..(Len(Logged) + Len(records)),
           Logged' = SubSeq(Logged \o records, 1, m),
           files'[name'].synced = files[name].synced
    PROVE  /\ acked' = acked => Log!Next
           /\ \A drop \in SUBSET Keys :
                /\ records = <<>>
                /\ acked' = [k \in Keys |-> IF k \in drop THEN 0 ELSE acked[k]]
                => Log!Next
<1> DEFINE s == files[name].synced
           M == Logged'
<1>1. records \in Seq(Records)
  <2>1. CASE records = <<>>
    BY <2>1
  <2>2. CASE \E rec \in Records : records = <<rec>>
    BY <2>2
  <2>3. QED
    BY <2>1, <2>2
<1>2. /\ SubSeq(M, 1, s) = SubSeq(Logged, 1, s)
      /\ Log!IsPrefix(SubSeq(M, s + 1, Len(M)), SubSeq(Logged, s + 1, Len(Logged)) \o records)
  BY <1>1, ViewCut
<1>3. Log!Lose(records)
  BY <1>2 DEF Log!Lose
<1>4. ASSUME acked' = acked PROVE Log!Next
  <2>1. Log!Fail(records)
    BY <1>2, <1>3, <1>4 DEF Log!Fail
  <2>2. QED
    BY <2>1 DEF Log!Next
<1>5. ASSUME NEW drop \in SUBSET Keys, records = <<>>,
             acked' = [k \in Keys |-> IF k \in drop THEN 0 ELSE acked[k]]
      PROVE  Log!Next
  <2>1. Log!FailToCompact(drop)
    BY <1>2, <1>3, <1>5 DEF Log!FailToCompact
  <2>2. QED
    BY <2>1 DEF Log!Next
<1>6. QED
  BY <1>4, <1>5

LEMMA CompactStep ==
    ASSUME Logged \in Seq(Records), files[name].synced \in 0..Len(Logged),
           Logged' \in Seq(Records), files'[name'].synced = Len(Logged'),
           NEW drop \in SUBSET Keys,
           acked' = [k \in Keys |-> IF k \in drop THEN 0 ELSE acked[k]],
           Log!Latest(Logged') =
                [k \in Keys |-> IF k \in drop THEN 0 ELSE Log!Latest(Logged)[k]]
    PROVE  Log!Next
<1> DEFINE s == files[name].synced
           M == Logged'
<1>1. SubSeq(Logged, 1, s) \o SubSeq(Logged, s + 1, Len(Logged)) = Logged
  BY ViewSplit
<1>2. SubSeq(M, 1, Len(M)) = M /\ SubSeq(M, Len(M) + 1, Len(M)) = <<>>
  <2>1. Len(M) \in 0..Len(M) /\ M \in Seq(Records)
    OBVIOUS
  <2> HIDE DEF M
  <2>2. QED
    BY <2>1, ViewSplit
<1>3. Log!Compact(drop)
  BY <1>1, <1>2 DEF Log!Compact
<1>4. QED
  BY <1>3 DEF Log!Next

LEMMA AppendIsConcat ==
    ASSUME NEW L \in Seq(Records), NEW rec \in Records
    PROVE  Append(L, rec) = L \o <<rec>>
OBVIOUS

\* put writes, acknowledges or loses its record.
LEMMA PutRefines ==
    ASSUME TypeOK, WalAssumption, Durable, WalInv, Viewed, Viewed',
           NEW k \in Keys, Put(k)
    PROVE  Log!Next
<1> DEFINE rec == [key |-> k, put |-> puts + 1]
           frame == Frame(rec, chain)
           buffered == Append(pending, frame)
           new == files[name].items \o buffered
<1>1. /\ status = "open" /\ puts < MaxPuts /\ chain' = frame.chain
      /\ index' = [index EXCEPT ![k] = puts + 1] /\ UNCHANGED <<handle, name>>
  BY DEF Put
<1>2. /\ Logged \in Seq(Records) /\ files[name].synced \in 0..Len(Logged) /\ Logged = chain
      /\ Logged' \in Seq(Records)
  BY <1>1 DEF Viewed, View
<1>3. /\ rec \in Records /\ chain' = Append(Logged, rec) /\ buffered \in Seq(Frames)
      /\ Verified(new) /\ RecordsOf(new) = Append(Logged, rec)
      /\ Ordered(new, puts + 1)
  BY <1>1, <1>2, PutLog
<1> HIDE DEF rec, frame, buffered
<1>4. /\ Append(Logged, rec) = Logged \o <<rec>>
      /\ <<rec>> \in {<<>>} \union {<<r>> : r \in Records} /\ Len(<<rec>>) = 1
  <2>1. <<rec>> \in {<<>>} \union {<<r>> : r \in Records}
    BY <1>3, Zenon
  <2>2. Append(Logged, rec) = Logged \o <<rec>>
    BY <1>2, <1>3, AppendIsConcat
  <2>3. Len(<<rec>>) = 1
    OBVIOUS
  <2>4. QED
    BY <2>1, <2>2, <2>3
<1>5. handle = name /\ Recoverable(files[name], puts, acked) /\ puts \in Nat /\ PanicAborts
  BY <1>1 DEF WalInv, TypeOK, Durable
<1>6. /\ FlushSucceeds(buffered) => files'[name].items \o pending' = new
                                 /\ files'[name].synced = Len(new)
      /\ FlushFails(buffered) =>
            /\ status' = "halted" /\ files'[name].synced = files[name].synced
            /\ \E m \in files[name].synced..Len(new) :
                    Replayed(files'[name]) = SubSeq(new, 1, m)
  <2>1. puts + 1 \in Nat /\ puts <= puts + 1
    BY <1>5
  <2>2. QED
    BY <1>3, <1>5, <2>1, FlushKeeps
<1> HIDE DEF new
<1>7. CASE FlushSucceeds(buffered) /\ acked' = index'
  <2>1. status' = "open"
    BY <1>1, <1>7 DEF FlushSucceeds
  <2>2. /\ Logged' = chain' /\ Log!Latest(Logged') = index'
        /\ Len(Logged') = Len(files'[name'].items \o pending')
    BY <2>1 DEF Viewed, View
  <2>3. files'[name'].synced = Len(Logged')
    BY <1>1, <1>6, <1>7, <2>2
  <2>4. Logged' = Logged \o <<rec>> /\ acked' = Log!Latest(Logged')
    BY <1>3, <1>4, <1>7, <2>2
  <2>5. QED
    BY <1>2, <1>4, <2>3, <2>4, AcknowledgeStep
<1>8. CASE FlushFails(buffered) /\ acked' = acked
  <2>1. PICK m \in files[name].synced..Len(new) :
                Replayed(files'[name]) = SubSeq(new, 1, m)
    BY <1>6, <1>8
  <2>2. Logged' = RecordsOf(Replayed(files'[name]))
    BY <1>1, <1>6, <1>8 DEF Viewed, View
  <2>3. new \in Seq(Frames) /\ m \in 0..Len(new) /\ Len(new) = Len(Logged) + 1
    <3>1. new \in Seq(Frames)
      BY <1>3 DEF Verified
    <3>2. Len(new) = Len(Logged) + 1
      BY <1>2, <1>3, <3>1, RecordsOfType
    <3>3. QED
      BY <1>2, <3>1, <3>2
  <2>4. RecordsOf(SubSeq(new, 1, m)) = SubSeq(RecordsOf(new), 1, m)
    BY <2>3, RecordsOfPrefix
  <2>5. Logged' = SubSeq(Logged \o <<rec>>, 1, m)
    BY <1>3, <1>4, <2>1, <2>2, <2>4
  <2>6. m \in files[name].synced..(Len(Logged) + Len(<<rec>>))
    BY <1>4, <2>3
  <2>7. files'[name'].synced = files[name].synced
    BY <1>1, <1>6, <1>8
  <2>8. QED
    BY <1>2, <1>4, <1>8, <2>5, <2>6, <2>7, FailStep
<1>9. CASE pending' = buffered /\ UNCHANGED <<files, status, acked>>
  <2>1. Logged' = Append(Logged, rec)
    BY <1>1, <1>3, <1>9 DEF Viewed, View
  <2>2. QED
    BY <1>1, <1>2, <1>3, <1>9, <2>1, WriteStep
<1>10. QED
  BY <1>7, <1>8, <1>9 DEF Put, buffered, frame, rec

\* flush acknowledges what was put, or loses the last of it.
LEMMA FlushRefines ==
    ASSUME TypeOK, WalAssumption, Durable, WalInv, Viewed, Viewed', Flush
    PROVE  Log!Next
<1> DEFINE log == files[name].items \o pending
<1>1. status = "open" /\ UNCHANGED <<index, chain, handle, name, puts>>
  BY DEF Flush
<1>2. /\ Logged \in Seq(Records) /\ files[name].synced \in 0..Len(Logged) /\ Logged = chain
      /\ Logged' \in Seq(Records) /\ Len(Logged) = Len(log)
  BY <1>1 DEF Viewed, View
<1>3. /\ handle = name /\ Recoverable(files[name], puts, acked)
      /\ Verified(log) /\ Ordered(log, puts) /\ chain = RecordsOf(log)
  BY <1>1 DEF WalInv, OpenLog
<1>4. pending \in Seq(Frames) /\ puts \in Nat /\ puts <= puts /\ PanicAborts
  BY DEF TypeOK, Durable
<1>5. /\ FlushSucceeds(pending) => files'[name].items \o pending' = log
                                /\ files'[name].synced = Len(log)
      /\ FlushFails(pending) =>
            /\ status' = "halted" /\ files'[name].synced = files[name].synced
            /\ \E m \in files[name].synced..Len(log) :
                    Replayed(files'[name]) = SubSeq(log, 1, m)
  BY <1>3, <1>4, FlushKeeps
<1>6. /\ Logged \o <<>> = Logged /\ Len(<<>>) = 0
      /\ <<>> \in {<<>>} \union {<<r>> : r \in Records}
  BY <1>2
<1> HIDE DEF log
<1>7. CASE FlushSucceeds(pending) /\ acked' = index
  <2>1. status' = "open"
    BY <1>1, <1>7 DEF FlushSucceeds
  <2>2. /\ Logged' = chain' /\ Log!Latest(Logged') = index'
    BY <2>1 DEF Viewed, View
  <2>3. files'[name'].synced = Len(Logged')
    BY <1>1, <1>2, <1>5, <1>7, <2>2
  <2>4. Logged' = Logged \o <<>> /\ acked' = Log!Latest(Logged')
    BY <1>1, <1>2, <1>6, <1>7, <2>2
  <2>5. QED
    BY <1>2, <1>6, <2>3, <2>4, AcknowledgeStep
<1>8. CASE FlushFails(pending) /\ acked' = acked
  <2>1. PICK m \in files[name].synced..Len(log) :
                Replayed(files'[name]) = SubSeq(log, 1, m)
    BY <1>5, <1>8
  <2>2. Logged' = RecordsOf(Replayed(files'[name]))
    BY <1>1, <1>5, <1>8 DEF Viewed, View
  <2>3. log \in Seq(Frames) /\ m \in 0..Len(log)
    <3>1. log \in Seq(Frames) /\ Len(log) \in Nat
      BY <1>3 DEF Verified
    <3>2. QED
      BY <1>2, <3>1
  <2>4. RecordsOf(SubSeq(log, 1, m)) = SubSeq(RecordsOf(log), 1, m)
    BY <2>3, RecordsOfPrefix
  <2>5. Logged' = SubSeq(Logged \o <<>>, 1, m)
    BY <1>2, <1>3, <1>6, <2>1, <2>2, <2>4
  <2>6. m \in files[name].synced..(Len(Logged) + Len(<<>>))
    BY <1>2, <1>6, <2>3
  <2>7. files'[name'].synced = files[name].synced
    BY <1>1, <1>5, <1>8
  <2>8. QED
    BY <1>2, <1>6, <1>8, <2>5, <2>6, <2>7, FailStep
<1>9. QED
  BY <1>7, <1>8 DEF Flush

\* A compaction writes the log anew, or fails before its rename and leaves the
\* old file.
LEMMA CompactionRefines ==
    ASSUME TypeOK, WalAssumption, Durable, WalInv, Viewed, Viewed',
           NEW drop \in SUBSET Keys,
           Compact(drop) \/ CompactFailsEarly(drop) \/ CompactFailsLate(drop)
    PROVE  Log!Next
<1> USE DEF WalAssumption
<1>1. status = "open" /\ Retain(drop)
  BY DEF Compact, CompactFailsEarly, CompactFailsLate
<1>2. /\ Logged \in Seq(Records) /\ files[name].synced \in 0..Len(Logged)
      /\ Log!Latest(Logged) = index /\ Logged' \in Seq(Records)
  BY <1>1 DEF Viewed, View
<1>3. /\ index' = [k \in Keys |-> IF k \in drop THEN 0 ELSE Log!Latest(Logged)[k]]
      /\ acked' = [k \in Keys |-> IF k \in drop THEN 0 ELSE acked[k]]
  BY <1>1, <1>2 DEF Retain
<1>4. DirSyncWorks /\ (Panic => status' = "halted")
  BY DEF Durable, Panic
<1>5. ASSUME Compact(drop) \/ CompactFailsLate(drop) PROVE Log!Next
  <2>1. PICK log \in CompactedLogs(index') :
                Rename(log) /\ (Compact(drop) => chain' = RecordsOf(log))
    BY <1>5 DEF Compact, CompactFailsLate
  <2>2. /\ index' \in [Keys -> 0..MaxPuts] /\ \A k \in Keys : index'[k] <= puts
        /\ [k \in Keys |-> 0] \in [Keys -> 0..MaxPuts]
    <3>1. index' \in [Keys -> 0..MaxPuts]
      BY <1>1, RetainType
    <3>2. ASSUME NEW k \in Keys PROVE index'[k] <= puts
      <4>1. index[k] <= puts /\ puts \in Nat
        <5>1. index[k] <= puts
          BY <1>1, AckedBelowIndex
        <5>2. QED
          BY <5>1 DEF TypeOK
      <4>2. index'[k] = IF k \in drop THEN 0 ELSE index[k]
        BY <1>1 DEF Retain
      <4>3. QED
        BY <4>1, <4>2
    <3>3. QED
      BY <3>1, <3>2
  <2>3. /\ Verified(log) /\ ReplayIndex(log) = index'
        /\ files'[name'].synced = Len(log) /\ Replayed(files'[name']) = log
    <3> DEFINE none == [k \in Keys |-> 0]
    <3>1. none \in [Keys -> 0..MaxPuts] /\ \A k \in Keys : none[k] <= index'[k]
      BY <2>2
    <3> HIDE DEF none
    <3>2. QED
      BY <1>4, <2>1, <2>2, <3>1, RenameKeeps
  <2>4. Logged' = RecordsOf(log)
    <3>1. CASE Compact(drop)
      <4>1. status' = "open"
        BY <1>1, <3>1 DEF Compact
      <4>2. QED
        BY <2>1, <3>1, <4>1 DEF Viewed, View
    <3>2. CASE CompactFailsLate(drop)
      <4>1. status' = "halted"
        BY <1>4, <3>2 DEF CompactFailsLate
      <4>2. QED
        BY <2>3, <4>1 DEF Viewed, View
    <3>3. QED
      BY <1>5, <3>1, <3>2
  <2>5. log \in Seq(Frames)
    BY <2>3 DEF Verified
  <2>6. files'[name'].synced = Len(Logged')
    BY <2>3, <2>4, <2>5, RecordsOfType
  <2>7. Log!Latest(Logged') = index'
    BY <2>3, <2>4, <2>5, LatestIsReplay
  <2>8. QED
    BY <1>2, <1>3, <2>6, <2>7, CompactStep
<1>6. ASSUME CompactFailsEarly(drop) PROVE Log!Next
  <2> DEFINE file == files[name]
             log == Replayed(file)
             m == Len(log)
  <2>1. status' = "halted" /\ files'[name'] = file
    BY <1>4, <1>6 DEF CompactFailsEarly, fileVars
  <2>2. Logged' = RecordsOf(log)
    BY <2>1 DEF Viewed, View
  <2>3. /\ log \in Seq(Frames) /\ m \in Nat /\ file.synced \in file.synced..m
        /\ m \in file.synced..m /\ SubSeq(log, 1, m) = log
    <3>1. files \in Seq(FileType) /\ name \in DOMAIN files
      BY DEF TypeOK, FileType, Contents
    <3>2. file \in FileType /\ file.synced \in Nat
      BY <3>1, FileParts
    <3>3. file.synced <= m
      BY DEF WalInv, Recoverable
    <3>4. log \in Seq(Frames) /\ m \in Nat
      BY <3>2, ReplayedVerified
    <3> HIDE DEF file, log
    <3>5. QED
      BY <3>2, <3>3, <3>4
  <2>4. m \in file.synced..Len(Logged) /\ RecordsOf(SubSeq(log, 1, m)) = SubSeq(Logged, 1, m)
    BY <2>3 DEF Viewed, View
  <2> HIDE DEF file, log, m
  <2>5. /\ Logged \o <<>> = Logged /\ Len(<<>>) = 0 /\ Len(Logged) \in Nat
        /\ <<>> \in {<<>>} \union {<<r>> : r \in Records}
    BY <1>2
  <2>6. Logged' = SubSeq(Logged \o <<>>, 1, m)
    BY <2>2, <2>3, <2>4, <2>5
  <2>7. m \in files[name].synced..(Len(Logged) + Len(<<>>))
    BY <2>4, <2>5 DEF file
  <2>8. files'[name'].synced = files[name].synced
    BY <2>1 DEF file
  <2>9. QED
    BY <1>2, <1>3, <2>5, <2>6, <2>7, <2>8, FailStep
<1>7. QED
  BY <1>5, <1>6

\* A restart finds the records of the file, or after loss of power those that
\* are left of it.
LEMMA RestartRefines ==
    ASSUME TypeOK, WalAssumption, Durable, WalInv, Viewed, Viewed', Kill \/ PowerLoss
    PROVE  Log!Next
<1> USE DEF WalAssumption
<1> DEFINE file == files[name]
           log == Replayed(file)
<1>1. /\ files \in Seq(FileType) /\ name \in DOMAIN files /\ name # 0
      /\ acked \in [Keys -> 0..MaxPuts] /\ MaxPuts \in Nat
  BY SMTT(30) DEF TypeOK, FileType, Contents
<1>2. file \in FileType /\ file.items \in Contents /\ file.synced \in Nat
  BY <1>1, FileParts
<1>3. diskName = name /\ Recoverable(file, puts, acked) /\ file.synced <= Len(log)
  BY DEF WalInv, Recoverable
<1>4. log \in Seq(Frames) /\ Len(log) \in Nat
  BY <1>2, ReplayedVerified
<1>5. UNCHANGED <<puts, acked>>
  BY DEF Kill, PowerLoss
<1>6. /\ Logged \in Seq(Records) /\ file.synced \in 0..Len(Logged) /\ Len(Logged) \in Nat
      /\ Logged \o <<>> = Logged /\ Len(<<>>) = 0
      /\ <<>> \in {<<>>} \union {<<r>> : r \in Records}
  <2>1. Logged \in Seq(Records) /\ file.synced \in 0..Len(Logged)
    BY DEF Viewed, View
  <2> HIDE DEF file
  <2>2. QED
    BY <2>1
<1>7. \A m \in file.synced..Len(log) :
            /\ m \in file.synced..Len(Logged)
            /\ RecordsOf(SubSeq(log, 1, m)) = SubSeq(Logged, 1, m)
  BY DEF Viewed, View
<1>8. \E m \in file.synced..Len(log) :
            /\ Logged' = RecordsOf(SubSeq(log, 1, m))
            /\ files'[name'].synced = file.synced
  <2>1. ASSUME Kill PROVE \E m \in file.synced..Len(log) :
                            /\ Logged' = RecordsOf(SubSeq(log, 1, m))
                            /\ files'[name'].synced = file.synced
    <3>1. Open(name, file.items, file.synced) /\ UNCHANGED <<name, diskName>>
      BY <2>1 DEF Kill
    <3>2. [items |-> file.items, synced |-> file.synced] = file
      BY <1>2 DEF FileType
    <3> HIDE DEF file
    <3>3. /\ status' = "open" /\ pending' = <<>> /\ files'[name].items = log
          /\ files'[name].synced = file.synced
          /\ OpenLog(files'[name].items \o pending', chain', index', puts')
      BY <1>1, <1>2, <1>3, <1>5, <3>1, <3>2, OpenAccepts
    <3> HIDE DEF log
    <3>4. Logged' = RecordsOf(log)
      <4>1. log \o <<>> = log
        BY <1>4
      <4>2. chain' = RecordsOf(log)
        BY <3>3, <4>1 DEF OpenLog
      <4>3. QED
        BY <3>3, <4>2 DEF Viewed, View
    <3>5. SubSeq(log, 1, Len(log)) = log /\ Len(log) \in file.synced..Len(log)
      BY <1>2, <1>3, <1>4
    <3>6. QED
      BY <3>1, <3>3, <3>4, <3>5
  <2>2. ASSUME PowerLoss PROVE \E m \in file.synced..Len(log) :
                            /\ Logged' = RecordsOf(SubSeq(log, 1, m))
                            /\ files'[name'].synced = file.synced
    <3>1. PICK items \in PowerLossContents(file) :
                Open(name, items, Min({file.synced, Len(items)}))
      BY <1>1, <1>3, <2>2 DEF PowerLoss
    <3>2. name' = name
      BY <1>1, <1>3, <2>2 DEF PowerLoss
    <3> DEFINE after == [items |-> items, synced |-> file.synced]
    <3>3. /\ items \in Contents /\ Min({file.synced, Len(items)}) = file.synced
          /\ Recoverable(after, puts, acked)
      BY <1>1, <1>2, <1>3, PowerLossCuts
    <3>4. PICK m \in file.synced..Len(log) : Replayed(after) = SubSeq(log, 1, m)
      BY <1>1, <1>2, <1>3, PowerLossCuts
    <3>5. Open(name, items, file.synced)
      BY <3>1, <3>3
    <3> HIDE DEF file
    <3>6. /\ status' = "open" /\ pending' = <<>> /\ files'[name].items = Replayed(after)
          /\ files'[name].synced = file.synced
          /\ OpenLog(files'[name].items \o pending', chain', index', puts')
      BY <1>1, <1>2, <1>5, <3>3, <3>5, OpenAccepts
    <3> DEFINE cut == SubSeq(log, 1, m)
    <3> HIDE DEF log, after
    <3>7. cut \in Seq(Frames)
      BY <1>2, <1>4
    <3> HIDE DEF cut
    <3>8. chain' = RecordsOf(cut)
      <4>1. cut \o <<>> = cut
        BY <3>7
      <4>2. files'[name].items \o pending' = cut
        BY <3>4, <3>6, <4>1 DEF cut
      <4>3. QED
        BY <3>6, <4>2 DEF OpenLog
    <3>9. Logged' = RecordsOf(cut)
      BY <3>6, <3>8 DEF Viewed, View
    <3>10. QED
      BY <3>2, <3>6, <3>9 DEF cut
  <2>3. QED
    BY <2>1, <2>2
<1>9. PICK m \in file.synced..Len(log) :
            /\ Logged' = RecordsOf(SubSeq(log, 1, m))
            /\ files'[name'].synced = file.synced
  BY <1>8
<1>10. m \in file.synced..Len(Logged) /\ Logged' = SubSeq(Logged, 1, m)
  BY <1>7, <1>9
<1> HIDE DEF log
<1>11. m \in files[name].synced..(Len(Logged) + Len(<<>>)) /\ Logged' = SubSeq(Logged \o <<>>, 1, m)
  BY <1>6, <1>10
<1>12. QED
  BY <1>5, <1>6, <1>9, <1>11, FailStep

\* The store of a process that stops when its store fails is a RecordLog, for
\* any number of keys, puts and files: nothing acknowledged is lost by a failed
\* or torn write, a kill, loss of power or a compaction cut short, what is lost
\* is a suffix of what was not acknowledged, and compaction changes no key that
\* it keeps.
THEOREM LogRefinement == ASSUME Durable PROVE Spec => ImplementsRecordLog
<1>1. Init => Log!Init
  <2> SUFFICES ASSUME Init PROVE Log!Init
    OBVIOUS
  <2>1. /\ files[name].items = <<>> /\ files[name].synced = 0 /\ pending = <<>>
        /\ status = "open" /\ acked = [k \in Keys |-> 0]
    BY DEF Init, NewFile
  <2>2. Logged = RecordsOf(<<>>)
    <3>1. WithoutTear(<<>>) = <<>> /\ <<>> \o <<>> = <<>>
      BY DEF WithoutTear
    <3>2. QED
      BY <2>1, <3>1 DEF Logged
  <2>3. RecordsOf(<<>>) = <<>>
    <3>1. <<>> \in Seq(Frames) /\ Len(<<>>) = 0
      OBVIOUS
    <3>2. RecordsOf(<<>>) \in Seq(Records) /\ Len(RecordsOf(<<>>)) = 0
      BY <3>1, RecordsOfType
    <3>3. QED
      BY <3>2
  <2>4. SubSeq(<<>>, 1, 0) = <<>> /\ SubSeq(<<>>, 0 + 1, Len(<<>>)) = <<>>
    OBVIOUS
  <2>5. QED
    BY <2>1, <2>2, <2>3, <2>4 DEF Log!Init
<1>2. /\ TypeOK /\ TypeOK' /\ WalInv /\ WalInv' /\ Viewed /\ Viewed' /\ [Next]_vars
      => [Log!Next]_Log!vars
  <2> SUFFICES ASSUME TypeOK, WalInv, Viewed, Viewed', [Next]_vars
               PROVE  [Log!Next]_Log!vars
    OBVIOUS
  <2>1. CASE UNCHANGED vars
    <3>1. UNCHANGED <<files, name, pending, status, acked>>
      BY <2>1 DEF vars, storeVars, fileVars
    <3>2. Logged' = Logged
      BY <3>1 DEF Logged
    <3>3. UNCHANGED Log!vars
      BY <3>1, <3>2 DEF Log!vars
    <3>4. QED
      BY <3>3
  <2>2. CASE Next
    <3>1. Log!Next
      BY <2>2, WalAssumption, PutRefines, FlushRefines, CompactionRefines, RestartRefines
      DEF Next
    <3>2. QED
      BY <3>1
  <2>3. QED
    BY <2>1, <2>2
<1>3. Spec => Log!Spec
  BY <1>1, <1>2, WalInvariant, ViewedHolds, PTL DEF Spec, Log!Spec
<1>4. QED
  BY <1>3 DEF ImplementsRecordLog

-----------------------------------------------------------------------------
\* Why no acknowledged put is missing anywhere: the list names every node once
\* and a call in progress has nodes to go; no node is ahead of the last put, so
\* that a put never takes a node back; and the nodes that a put has reached have
\* it.
ReplInv ==
    /\ ReplTypeOK
    /\ \A i, j \in DOMAIN replicas : replicas[i] = replicas[j] => i = j
    /\ op # Idle => op.done < Len(replicas)
    /\ \A n \in Nodes, k \in ReplKeys : stored[n][k] <= replPuts
    /\ op.call = "put" =>
        /\ op.put = replPuts
        /\ \A i \in 1..op.done : stored[replicas[i]][op.key] = op.put
    /\ AckedOnEveryNode

-----------------------------------------------------------------------------
\* The lists a store is built on: every node of a set, once.
LEMMA ListsOfNodes ==
    ASSUME NEW S \in SUBSET Nodes, S # {}, NEW f \in SetToSeqs(S)
    PROVE  /\ f \in Seq(Nodes) /\ f # <<>>
           /\ \A i, j \in DOMAIN f : f[i] = f[j] => i = j
           /\ Range(f) \subseteq S
<1>1. IsFiniteSet(S)
  BY ReplicationAssumption, FS_Subset
<1>2. Cardinality(S) \in Nat /\ Cardinality(S) # 0
  BY <1>1, FS_CardinalityType, FS_EmptySet
<1>3. f \in [1..Cardinality(S) -> S]
  BY DEF SetToSeqs
<1>4. \A i, j \in DOMAIN f : f[i] = f[j] => i = j
  BY <1>3 DEF SetToSeqs
<1>5. f \in Seq(Nodes) /\ Len(f) = Cardinality(S)
  BY <1>2, <1>3
<1>6. Range(f) \subseteq S
  BY <1>3 DEF Range
<1>7. QED
  BY <1>2, <1>4, <1>5, <1>6

\* The store starts on all the nodes, which hold nothing.
LEMMA ReplInvInit == ReplInit => ReplInv
<1> SUFFICES ASSUME ReplInit PROVE ReplInv
  OBVIOUS
<1>1. /\ replicas \in Seq(Nodes) /\ replicas # <<>>
      /\ \A i, j \in DOMAIN replicas : replicas[i] = replicas[j] => i = j
      /\ Range(replicas) \subseteq Nodes
  BY ReplicationAssumption, ListsOfNodes DEF ReplInit
<1>2. ReplTypeOK
  BY <1>1, ReplicationAssumption DEF ReplInit, ReplTypeOK, Calls, Idle
<1>3. AckedOnEveryNode
  BY <1>1 DEF ReplInit, AckedOnEveryNode
<1>4. QED
  BY <1>1, <1>2, <1>3, ReplicationAssumption DEF ReplInit, ReplInv, Idle

\* What the type of a call in progress says of its fields.
LEMMA CallFields ==
    ASSUME op \in Calls
    PROVE  /\ op.call \in {"none", "put", "compact"}
           /\ op = Idle <=> op.call = "none"
           /\ op.call = "put" =>
                op.key \in ReplKeys /\ op.put \in 1..MaxReplPuts /\ op.done \in Nat
           /\ op.call = "compact" => op.drop \in SUBSET (1..MaxReplPuts) /\ op.done \in Nat
BY DEF Calls, Idle

\* A call that reaches the next node keeps the invariant, whether it returns
\* there or not.
LEMMA StepKeepsInv == ReplInv /\ Step => ReplInv'
<1> SUFFICES ASSUME ReplInv, Step PROVE ReplInv'
  OBVIOUS
<1> USE ReplicationAssumption
<1> DEFINE n == op.done + 1
           returns == n = Len(replicas)
<1>1. /\ op # Idle /\ op.done \in Nat /\ n \in 1..Len(replicas)
      /\ replicas \in Seq(Nodes) /\ Len(replicas) \in Nat
      /\ replicas[n] \in Nodes
  <2>1. op \in Calls /\ op # Idle /\ replicas \in Seq(Nodes)
    BY DEF ReplInv, ReplTypeOK, Step, Reach
  <2>2. op.done \in Nat
    BY <2>1, CallFields
  <2>3. op.done < Len(replicas)
    BY <2>1 DEF ReplInv
  <2>4. Len(replicas) \in Nat /\ n \in 1..Len(replicas)
    BY <2>1, <2>2, <2>3
  <2>5. replicas[n] \in Nodes
    BY <2>1, <2>4
  <2>6. QED
    BY <2>1, <2>2, <2>4, <2>5
<1>2. stored' = [stored EXCEPT ![replicas[n]] = Apply(replicas[n])]
  BY <1>1 DEF Step, Reach
<1>3. UNCHANGED <<replicas, replPuts>>
  BY DEF Step, Reach
<1>7. served' \in [ReplKeys -> 0..MaxReplPuts]
  <2>1. served \in [ReplKeys -> 0..MaxReplPuts]
    BY DEF ReplInv, ReplTypeOK
  <2>2. Without(served, Rejected(replicas[n])) \in [ReplKeys -> 0..MaxReplPuts]
    BY <2>1 DEF Without
  <2>3. served' \in {served, Without(served, Rejected(replicas[n]))}
    BY DEF Step, Reach
  <2>4. QED
    BY <2>1, <2>2, <2>3
<1>8. op' = IF returns THEN Idle ELSE [op EXCEPT !.done = n]
  BY DEF Step, Reach
<1>4. CASE op.call = "put"
  <2>1. op.key \in ReplKeys /\ op.put \in 1..MaxReplPuts /\ op.put = replPuts
    BY <1>4, CallFields DEF ReplInv, ReplTypeOK
  <2>2. Apply(replicas[n]) = [stored[replicas[n]] EXCEPT ![op.key] = op.put]
    BY <1>4 DEF Apply
  <2>3. /\ stored' \in [Nodes -> [ReplKeys -> 0..MaxReplPuts]]
        /\ \A m \in Nodes, k \in ReplKeys :
                stored'[m][k] = IF m = replicas[n] /\ k = op.key THEN op.put
                                ELSE stored[m][k]
    <3>1. stored \in [Nodes -> [ReplKeys -> 0..MaxReplPuts]] /\ op.put \in 0..MaxReplPuts
      BY <2>1 DEF ReplInv, ReplTypeOK
    <3>2. Apply(replicas[n]) \in [ReplKeys -> 0..MaxReplPuts]
      BY <1>1, <2>1, <2>2, <3>1
    <3>3. stored' \in [Nodes -> [ReplKeys -> 0..MaxReplPuts]]
      BY <1>1, <1>2, <3>1, <3>2
    <3>4. QED
      BY <1>1, <1>2, <2>1, <2>2, <3>1, <3>3
  <2>4. /\ owed' \in [Nodes -> [ReplKeys -> 0..MaxReplPuts]]
        /\ \A m \in Nodes, k \in ReplKeys :
                owed'[m][k] = IF returns /\ k = op.key THEN op.put ELSE owed[m][k]
    <3>1. owed \in [Nodes -> [ReplKeys -> 0..MaxReplPuts]] /\ op.put \in 0..MaxReplPuts
      BY <2>1 DEF ReplInv, ReplTypeOK
    <3>2. owed' = IF returns
                  THEN [m \in Nodes |-> [owed[m] EXCEPT ![op.key] = op.put]]
                  ELSE owed
      BY <1>4 DEF Step, Reach
    <3>3. QED
      BY <2>1, <3>1, <3>2
  <2>6. /\ op' \in Calls
        /\ op'.call = "put" => ~returns /\ op'.put = op.put /\ op'.key = op.key /\ op'.done = n
        /\ op' # Idle => op'.done < Len(replicas)
        /\ op'.call # "compact"
    <3>1. CASE returns
      BY <1>8, <3>1 DEF Calls, Idle
    <3>2. CASE ~returns
      <4>1. op \in [call: {"put"}, key: ReplKeys, put: 1..MaxReplPuts, done: Nat]
        BY <1>4 DEF ReplInv, ReplTypeOK, Calls, Idle
      <4>2. QED
        BY <1>1, <1>8, <3>2, <4>1 DEF Calls, Idle
    <3>3. QED
      BY <3>1, <3>2
  <2>7. ReplTypeOK'
    BY <1>3, <1>7, <2>1, <2>3, <2>4, <2>6 DEF ReplInv, ReplTypeOK
  <2>8. \A m \in Nodes, k \in ReplKeys : stored'[m][k] <= replPuts'
    <3> SUFFICES ASSUME NEW m \in Nodes, NEW k \in ReplKeys
                 PROVE  stored'[m][k] <= replPuts
      BY <1>3
    <3>1. stored[m][k] <= replPuts /\ replPuts \in Nat
      BY DEF ReplInv, ReplTypeOK
    <3>2. QED
      BY <2>1, <2>3, <3>1
  <2>9. \A i \in 1..n : stored'[replicas[i]][op.key] = op.put
    <3> SUFFICES ASSUME NEW i \in 1..n PROVE stored'[replicas[i]][op.key] = op.put
      OBVIOUS
    <3>1. replicas[i] \in Nodes
      BY <1>1
    <3>2. i # n => i \in 1..op.done
      BY <1>1
    <3>3. QED
      BY <1>4, <2>1, <2>3, <3>1, <3>2 DEF ReplInv
  <2>10. AckedOnEveryNode'
    <3> SUFFICES ASSUME NEW m \in Range(replicas), NEW k \in ReplKeys
                 PROVE  stored'[m][k] >= owed'[m][k]
      BY <1>3 DEF AckedOnEveryNode
    <3>1. PICK i \in 1..Len(replicas) : m = replicas[i]
      BY <1>1 DEF Range
    <3>2. m \in Nodes /\ stored[m][k] >= owed[m][k]
      BY <1>1, <3>1 DEF ReplInv, AckedOnEveryNode
    <3>3. /\ stored[m][k] \in Nat /\ owed[m][k] \in Nat /\ replPuts \in Nat
          /\ stored[m][k] <= replPuts
      BY <3>2 DEF ReplInv, ReplTypeOK
    <3>4. CASE returns /\ k = op.key
      <4>1. owed'[m][k] = op.put
        BY <2>4, <3>2, <3>4
      <4>2. i \in 1..n
        BY <3>4
      <4>3. stored'[m][k] = op.put
        BY <2>9, <3>1, <3>4, <4>2
      <4>4. QED
        BY <2>1, <4>1, <4>3
    <3>5. CASE ~(returns /\ k = op.key)
      <4>1. owed'[m][k] = owed[m][k]
        BY <2>4, <3>2, <3>5
      <4>2. stored'[m][k] \in {stored[m][k], replPuts}
        BY <2>1, <2>3, <3>2
      <4>3. QED
        BY <3>2, <3>3, <4>1, <4>2
    <3>6. QED
      BY <3>4, <3>5
  <2>11. QED
    BY <1>3, <2>1, <2>6, <2>7, <2>8, <2>9, <2>10 DEF ReplInv
<1>5. CASE op.call = "compact"
  <2> DEFINE gone == Rejected(replicas[n])
  <2>1. Apply(replicas[n])
            = [k \in ReplKeys |-> IF k \in gone THEN 0 ELSE stored[replicas[n]][k]]
    BY <1>5 DEF Apply, Without
  <2>2. owed' = [owed EXCEPT ![replicas[n]]
                    = [k \in ReplKeys |-> IF k \in gone THEN 0 ELSE owed[replicas[n]][k]]]
    <3>1. replicas[n] \in DOMAIN owed
      BY <1>1 DEF ReplInv, ReplTypeOK
    <3>2. QED
      BY <1>5, <3>1 DEF Step, Reach, Without
  <2> HIDE DEF gone
  <2>3. /\ stored' \in [Nodes -> [ReplKeys -> 0..MaxReplPuts]]
        /\ \A m \in Nodes, k \in ReplKeys :
                stored'[m][k] = IF m = replicas[n] /\ k \in gone THEN 0
                                ELSE stored[m][k]
    <3>1. stored \in [Nodes -> [ReplKeys -> 0..MaxReplPuts]]
      BY DEF ReplInv, ReplTypeOK
    <3>2. QED
      BY <1>1, <1>2, <2>1, <3>1
  <2>4. /\ owed' \in [Nodes -> [ReplKeys -> 0..MaxReplPuts]]
        /\ \A m \in Nodes, k \in ReplKeys :
                owed'[m][k] = IF m = replicas[n] /\ k \in gone THEN 0
                              ELSE owed[m][k]
    <3>1. owed \in [Nodes -> [ReplKeys -> 0..MaxReplPuts]]
      BY DEF ReplInv, ReplTypeOK
    <3>2. QED
      BY <1>1, <2>2, <3>1
  <2>6. /\ op' \in Calls
        /\ op' # Idle => op'.done < Len(replicas)
        /\ op'.call # "put"
    <3>1. CASE returns
      BY <1>8, <3>1 DEF Calls, Idle
    <3>2. CASE ~returns
      <4>1. op \in [call: {"compact"}, drop: SUBSET (1..MaxReplPuts), done: Nat]
        BY <1>5 DEF ReplInv, ReplTypeOK, Calls, Idle
      <4>2. QED
        BY <1>1, <1>8, <3>2, <4>1 DEF Calls, Idle
    <3>3. QED
      BY <3>1, <3>2
  <2>7. ReplTypeOK'
    BY <1>3, <1>7, <2>3, <2>4, <2>6 DEF ReplInv, ReplTypeOK
  <2>8. \A m \in Nodes, k \in ReplKeys : stored'[m][k] <= replPuts'
    <3> SUFFICES ASSUME NEW m \in Nodes, NEW k \in ReplKeys
                 PROVE  stored'[m][k] <= replPuts
      BY <1>3
    <3>1. stored[m][k] <= replPuts /\ replPuts \in Nat
      BY DEF ReplInv, ReplTypeOK
    <3>2. QED
      BY <2>3, <3>1
  <2>9. AckedOnEveryNode'
    <3> SUFFICES ASSUME NEW m \in Range(replicas), NEW k \in ReplKeys
                 PROVE  stored'[m][k] >= owed'[m][k]
      BY <1>3 DEF AckedOnEveryNode
    <3>1. m \in Nodes
      BY <1>1 DEF Range
    <3>2. stored[m][k] >= owed[m][k]
      BY DEF ReplInv, AckedOnEveryNode
    <3>3. QED
      BY <2>3, <2>4, <3>1, <3>2
  <2>10. QED
    BY <1>3, <2>6, <2>7, <2>8, <2>9 DEF ReplInv
<1>6. QED
  BY <1>1, <1>4, <1>5, CallFields DEF ReplInv, ReplTypeOK

\* Every step keeps the invariant.
LEMMA ReplInvNext == ReplInv /\ [ReplNext]_replVars => ReplInv'
<1> SUFFICES ASSUME ReplInv, [ReplNext]_replVars PROVE ReplInv'
  OBVIOUS
<1> USE ReplicationAssumption
<1>1. CASE UNCHANGED replVars
  BY <1>1 DEF ReplInv, ReplTypeOK, AckedOnEveryNode, replVars
<1>2. ASSUME NEW k \in ReplKeys, CallPut(k) PROVE ReplInv'
  <2>1. /\ op' = [call |-> "put", key |-> k, put |-> replPuts + 1, done |-> 0]
        /\ replPuts' = replPuts + 1 /\ replPuts < MaxReplPuts
        /\ UNCHANGED <<replicas, stored, owed, served>>
    BY <1>2 DEF CallPut
  <2>2. op' \in Calls /\ op'.call = "put" /\ op'.done = 0
    BY <2>1 DEF ReplInv, ReplTypeOK, Calls
  <2>3. ReplTypeOK'
    BY <2>1, <2>2 DEF ReplInv, ReplTypeOK
  <2>4. \A n \in Nodes, j \in ReplKeys : stored'[n][j] <= replPuts'
    <3> SUFFICES ASSUME NEW n \in Nodes, NEW j \in ReplKeys
                 PROVE  stored[n][j] <= replPuts + 1
      BY <2>1
    <3>1. stored[n][j] <= replPuts /\ replPuts \in Nat /\ stored[n][j] \in Nat
      BY DEF ReplInv, ReplTypeOK
    <3>2. QED
      BY <3>1
  <2>5. AckedOnEveryNode'
    BY <2>1 DEF ReplInv, AckedOnEveryNode
  <2>6. op'.done < Len(replicas')
    BY <2>1, <2>2 DEF ReplInv, ReplTypeOK
  <2>7. QED
    BY <2>1, <2>2, <2>3, <2>4, <2>5, <2>6 DEF ReplInv
<1>3. ASSUME NEW k \in ReplKeys, Get(k) PROVE ReplInv'
  <2>1. Primary \in Nodes
    BY DEF ReplInv, ReplTypeOK, Primary
  <2>2. ReplTypeOK'
    BY <1>3, <2>1 DEF ReplInv, ReplTypeOK, Get
  <2>3. QED
    BY <1>3, <2>2 DEF ReplInv, AckedOnEveryNode, Get
<1>4. ASSUME NEW drop \in SUBSET (1..replPuts), CallCompact(drop) PROVE ReplInv'
  <2>1. /\ op' = [call |-> "compact", drop |-> drop, done |-> 0]
        /\ UNCHANGED <<replicas, stored, replPuts, owed, served>>
    BY <1>4 DEF CallCompact
  <2>2. op' \in Calls /\ op'.call = "compact" /\ op'.done = 0
    <3>1. drop \in SUBSET (1..MaxReplPuts)
      BY DEF ReplInv, ReplTypeOK
    <3>2. QED
      BY <2>1, <3>1 DEF Calls
  <2>3. ReplTypeOK'
    BY <2>1, <2>2 DEF ReplInv, ReplTypeOK
  <2>4. AckedOnEveryNode'
    BY <2>1 DEF ReplInv, AckedOnEveryNode
  <2>5. op'.done < Len(replicas')
    BY <2>1, <2>2 DEF ReplInv, ReplTypeOK
  <2>6. QED
    BY <2>1, <2>2, <2>3, <2>4, <2>5 DEF ReplInv
<1>5. ASSUME Restart PROVE ReplInv'
  <2>1. op' \in Calls /\ op' = Idle /\ op'.call = "none"
    BY <1>5 DEF Restart, Calls, Idle
  <2>2. QED
    BY <1>5, <2>1 DEF ReplInv, ReplTypeOK, AckedOnEveryNode, Restart
<1>6. ASSUME NEW n \in Nodes, LoseNode(n) PROVE ReplInv'
  <2> DEFINE S == Range(replicas) \ {n}
  <2>1. S \subseteq Nodes /\ S # {}
    <3>1. 1 \in DOMAIN replicas /\ 2 \in DOMAIN replicas /\ replicas \in Seq(Nodes)
      BY <1>6 DEF ReplInv, ReplTypeOK, LoseNode
    <3>2. replicas[1] # replicas[2]
      BY <3>1 DEF ReplInv
    <3>3. replicas[1] \in Range(replicas) /\ replicas[2] \in Range(replicas)
      BY <3>1 DEF Range
    <3>4. Range(replicas) \subseteq Nodes
      BY <3>1 DEF Range
    <3>5. QED
      BY <3>2, <3>3, <3>4
  <2>2. /\ replicas' \in Seq(Nodes) /\ replicas' # <<>>
        /\ \A i, j \in DOMAIN replicas' : replicas'[i] = replicas'[j] => i = j
        /\ Range(replicas') \subseteq S
    <3>1. replicas' \in SetToSeqs(S)
      BY <1>6 DEF LoseNode
    <3> HIDE DEF S
    <3>2. QED
      BY <2>1, <3>1, ListsOfNodes
  <2>3. op' \in Calls /\ op' = Idle /\ op'.call = "none"
    BY <1>6 DEF LoseNode, Calls, Idle
  <2>4. ReplTypeOK'
    BY <1>6, <2>2, <2>3 DEF ReplInv, ReplTypeOK, LoseNode
  <2>5. AckedOnEveryNode'
    BY <1>6, <2>2 DEF ReplInv, AckedOnEveryNode, LoseNode
  <2>6. QED
    BY <1>6, <2>2, <2>3, <2>4, <2>5 DEF ReplInv, LoseNode
<1>7. QED
  BY <1>1, <1>2, <1>3, <1>4, <1>5, <1>6, StepKeepsInv DEF ReplNext

\* The invariant holds always.
THEOREM ReplicationInvariant == ReplSpec => []ReplInv
BY ReplInvInit, ReplInvNext, PTL DEF ReplSpec

\* Types, and with them that a rebuilt store always has a primary.
THEOREM ReplTypeCorrect == ReplSpec => []ReplTypeOK
<1>1. ReplInv => ReplTypeOK
  BY DEF ReplInv
<1>2. QED
  BY <1>1, ReplicationInvariant, PTL

\* ReplicatedStore::put: what it acknowledged is on every node of the list, or
\* something newer is, whatever calls were cut short, however often nodes were
\* lost and others promoted; a node lacks it only where a compaction rejected the
\* state that this very node had.
THEOREM EveryNodeHasAcked == ReplSpec => []AckedOnEveryNode
<1>1. ReplInv => AckedOnEveryNode
  BY DEF ReplInv
<1>2. QED
  BY <1>1, ReplicationInvariant, PTL

=============================================================================
