--------------------------- MODULE TransportProofs --------------------------
(***************************************************************************)
(* Theorems about Http and Transport: what is read from the bytes of a     *)
(* message, wherever they were cut, what is read from what the gateway     *)
(* wrote, and that a request and its reply cross the gateway unchanged,    *)
(* for any requests, replies, headers and bodies.                          *)
(***************************************************************************)
EXTENDS Transport, SequenceTheorems, ExtremaLemmas

\* A set that contains the empty sequence and is closed under Append contains
\* every sequence: a shortest one outside of it would have a last element.
LEMMA SequencesByAppending ==
    ASSUME NEW T, NEW G, <<>> \in G,
           \A s \in Seq(T), x \in T : s \in G => Append(s, x) \in G
    PROVE  \A s \in Seq(T) : s \in G
<1> DEFINE Bad == {n \in Nat : \E s \in Seq(T) : Len(s) = n /\ s \notin G}
<1>1. ASSUME Bad # {} PROVE FALSE
  <2>1. Bad \in SUBSET Nat
    OBVIOUS
  <2>2. PICK n \in Bad : \A x \in Bad : n <= x
    <3> HIDE DEF Bad
    <3>1. QED
      BY <1>1, <2>1, MinProperty
  <2>3. PICK s \in Seq(T) : Len(s) = n /\ s \notin G
    OBVIOUS
  <2>4. s # <<>>
    BY <2>3
  <2>5. PICK t \in Seq(T), x \in T : s = Append(t, x)
    BY <2>4, SequenceEmptyOrAppend
  <2>6. Len(t) \in Nat /\ n = Len(t) + 1
    BY <2>3, <2>5
  <2>7. t \in G
    <3>1. Len(t) \notin Bad
      <4> HIDE DEF Bad
      <4>1. ~ (n <= Len(t))
        BY <2>6
      <4>2. QED
        BY <2>2, <4>1
    <3>2. QED
      BY <2>6, <3>1
  <2>8. QED
    BY <2>3, <2>5, <2>7
<1>2. ASSUME NEW s \in Seq(T) PROVE s \in G
  BY <1>1
<1>3. QED
  BY <1>2

\* What Kept computes on its way.
Keeps(f, s, S) ==
    /\ f[0] = <<>>
    /\ \A n \in 1..Len(s) :
        f[n] = IF s[n] \in S THEN Append(f[n - 1], s[n]) ELSE f[n - 1]

\* The recursive equation of Kept has a solution.
LEMMA KeptExists ==
    ASSUME NEW T, NEW S
    PROVE  \A s \in Seq(T) : \E f \in [0..Len(s) -> Seq(T)] : Keeps(f, s, S)
<1> DEFINE G == {s \in Seq(T) : \E f \in [0..Len(s) -> Seq(T)] : Keeps(f, s, S)}
<1>1. <<>> \in G
  <2> DEFINE f == [n \in 0..0 |-> <<>>]
  <2>1. f \in [0..0 -> Seq(T)] /\ f[0] = <<>>
    OBVIOUS
  <2>2. Keeps(f, <<>>, S)
    BY <2>1 DEF Keeps
  <2>3. QED
    BY <2>1, <2>2
<1>2. ASSUME NEW s \in Seq(T), NEW x \in T, s \in G PROVE Append(s, x) \in G
  <2>1. PICK g \in [0..Len(s) -> Seq(T)] : Keeps(g, s, S)
    BY <1>2
  <2>2. PICK t \in Seq(T) : t = Append(s, x)
    <3> HIDE DEF G
    <3>1. Append(s, x) \in Seq(T)
      OBVIOUS
    <3>2. QED
      BY <3>1
  <2>3. /\ Len(t) = Len(s) + 1 /\ Len(s) \in Nat /\ t[Len(t)] = x
        /\ \A n \in 1..Len(s) : t[n] = s[n]
    BY <2>2
  <2> DEFINE last == IF x \in S THEN Append(g[Len(s)], x) ELSE g[Len(s)]
             f == [n \in 0..Len(t) |-> IF n = Len(t) THEN last ELSE g[n]]
  <2>4. last \in Seq(T)
    BY <2>3
  <2>5. f \in [0..Len(t) -> Seq(T)]
    <3>1. \A n \in 0..Len(t) : n # Len(t) => n \in 0..Len(s)
      BY <2>3
    <3> HIDE DEF last
    <3>2. QED
      BY <2>4, <3>1
  <2>6. f[Len(t)] = last /\ \A n \in 0..Len(s) : f[n] = g[n]
    <3> HIDE DEF last
    <3>1. QED
      BY <2>3
  <2>7. f[0] = <<>>
    BY <2>1, <2>3, <2>6 DEF Keeps
  <2>8. ASSUME NEW n \in 1..Len(t)
        PROVE  f[n] = IF t[n] \in S THEN Append(f[n - 1], t[n]) ELSE f[n - 1]
    <3> HIDE DEF f
    <3>1. n - 1 \in 0..Len(s) /\ f[n - 1] = g[n - 1]
      BY <2>3, <2>6
    <3>2. CASE n = Len(t)
      BY <2>3, <2>6, <3>1, <3>2
    <3>3. CASE n # Len(t)
      <4>1. n \in 1..Len(s) /\ n \in 0..Len(s)
        BY <2>3, <3>3
      <4>2. QED
        BY <2>1, <2>3, <2>6, <3>1, <4>1 DEF Keeps
    <3>4. QED
      BY <3>2, <3>3
  <2>9. Keeps(f, t, S)
    <3> HIDE DEF f
    <3>1. QED
      BY <2>7, <2>8 DEF Keeps
  <2>10. QED
    BY <2>2, <2>5, <2>9
<1>3. \A s \in Seq(T), x \in T : s \in G => Append(s, x) \in G
  BY <1>2
<1>4. QED
  <2> HIDE DEF G
  <2>1. \A s \in Seq(T) : s \in G
    BY <1>1, <1>3, SequencesByAppending
  <2>2. QED
    BY <2>1 DEF G

\* Kept is what such a function ends with.
LEMMA KeptProperty ==
    ASSUME NEW T, NEW s \in Seq(T), NEW S
    PROVE  \E f : Keeps(f, s, S) /\ Kept(s, S) = f[Len(s)]
<1>1. PICK f \in [0..Len(s) -> Seq(T)] : Keeps(f, s, S)
  BY KeptExists
<1> DEFINE Body(g) == [n \in 0..Len(s) |->
                        IF n = 0 THEN <<>>
                        ELSE IF s[n] \in S THEN Append(g[n - 1], s[n]) ELSE g[n - 1]]
<1>2. f = Body(f)
  <2>1. Len(s) \in Nat
    OBVIOUS
  <2>2. \A n \in 0..Len(s) : n = 0 \/ n \in 1..Len(s)
    BY <2>1
  <2>3. \A n \in 0..Len(s) : f[n] = Body(f)[n]
    BY <1>1, <2>2 DEF Keeps
  <2>4. QED
    BY <2>3
<1>3. PICK h : h = CHOOSE g : g = Body(g)
  OBVIOUS
<1>4. h = Body(h)
  BY <1>2, <1>3
<1>5. Kept(s, S) = h[Len(s)]
  BY <1>3 DEF Kept
<1>6. Keeps(h, s, S)
  <2>1. Len(s) \in Nat
    OBVIOUS
  <2>2. 0 \in 0..Len(s) /\ \A n \in 1..Len(s) : n \in 0..Len(s) /\ n # 0
    BY <2>1
  <2>3. \A n \in 0..Len(s) : h[n] = IF n = 0 THEN <<>>
                        ELSE IF s[n] \in S THEN Append(h[n - 1], s[n]) ELSE h[n - 1]
    BY <1>4
  <2>4. QED
    BY <2>2, <2>3 DEF Keeps
<1>7. QED
  BY <1>5, <1>6

\* The elements of a sequence with one more.
LEMMA RangeOfAppend ==
    ASSUME NEW T, NEW s \in Seq(T), NEW x \in T
    PROVE  Range(Append(s, x)) = Range(s) \union {x}
<1>1. PICK t \in Seq(T) : t = Append(s, x)
  <2>1. Append(s, x) \in Seq(T)
    OBVIOUS
  <2>2. QED
    BY <2>1
<1>2. /\ Len(t) = Len(s) + 1 /\ Len(s) \in Nat /\ t[Len(t)] = x
      /\ \A n \in 1..Len(s) : t[n] = s[n]
      /\ DOMAIN t = 1..Len(t) /\ DOMAIN s = 1..Len(s)
  BY <1>1
<1>3. Range(t) = {t[n] : n \in 1..Len(t)} /\ Range(s) = {s[n] : n \in 1..Len(s)}
  BY <1>2 DEF Range
<1>4. \A n \in 1..Len(t) : n = Len(t) \/ n \in 1..Len(s)
  BY <1>2
<1>5. \A n \in 1..Len(s) : n \in 1..Len(t)
  BY <1>2
<1>6. Len(t) \in 1..Len(t)
  BY <1>2
<1>7. Range(t) = Range(s) \union {x}
  BY <1>2, <1>3, <1>4, <1>5, <1>6
<1>8. QED
  BY <1>1, <1>7

\* On a common beginning, such functions agree.
LEMMA KeepsAgree ==
    ASSUME NEW T, NEW s \in Seq(T), NEW t \in Seq(T), NEW S, NEW f, NEW g,
           Keeps(f, s, S), Keeps(g, t, S),
           Len(s) <= Len(t), \A n \in 1..Len(s) : t[n] = s[n]
    PROVE  \A n \in 0..Len(s) : g[n] = f[n]
<1> DEFINE Bad == {n \in 0..Len(s) : g[n] # f[n]}
<1>1. ASSUME Bad # {} PROVE FALSE
  <2>1. Bad \in SUBSET Nat
    OBVIOUS
  <2>2. PICK n \in Bad : \A x \in Bad : n <= x
    <3> HIDE DEF Bad
    <3>1. QED
      BY <1>1, <2>1, MinProperty
  <2>3. n \in 0..Len(s) /\ g[n] # f[n] /\ Len(s) \in Nat /\ Len(t) \in Nat
    OBVIOUS
  <2>4. n # 0
    BY <2>3 DEF Keeps
  <2>5. n \in 1..Len(s) /\ n \in 1..Len(t) /\ n - 1 \in 0..Len(s) /\ ~ (n <= n - 1)
    BY <2>3, <2>4
  <2>6. g[n - 1] = f[n - 1]
    BY <2>2, <2>5
  <2>7. t[n] = s[n]
    BY <2>5
  <2>8. QED
    BY <2>3, <2>5, <2>6, <2>7 DEF Keeps
<1>2. QED
  BY <1>1

\* Nothing is kept of nothing, ...
LEMMA KeptEmpty ==
    ASSUME NEW S
    PROVE  Kept(<<>>, S) = <<>>
<1>1. <<>> \in Seq({}) /\ Len(<<>>) = 0
  OBVIOUS
<1>2. PICK f : Keeps(f, <<>>, S) /\ Kept(<<>>, S) = f[Len(<<>>)]
  BY <1>1, KeptProperty
<1>3. QED
  BY <1>1, <1>2 DEF Keeps

\* An element is appended if it is to be kept.
LEMMA KeptAppend ==
    ASSUME NEW T, NEW s \in Seq(T), NEW x \in T, NEW S
    PROVE  Kept(Append(s, x), S) = IF x \in S THEN Append(Kept(s, S), x) ELSE Kept(s, S)
<1>1. PICK t \in Seq(T) : t = Append(s, x)
  <2>1. Append(s, x) \in Seq(T)
    OBVIOUS
  <2>2. QED
    BY <2>1
<1>2. PICK f : Keeps(f, s, S) /\ Kept(s, S) = f[Len(s)]
  BY KeptProperty
<1>3. PICK g : Keeps(g, t, S) /\ Kept(t, S) = g[Len(t)]
  BY KeptProperty
<1>4. /\ Len(t) = Len(s) + 1 /\ Len(s) \in Nat /\ t[Len(t)] = x
      /\ \A n \in 1..Len(s) : t[n] = s[n]
  BY <1>1
<1>5. g[Len(s)] = f[Len(s)]
  <2>1. \A n \in 0..Len(s) : g[n] = f[n]
    BY <1>2, <1>3, <1>4, KeepsAgree
  <2>2. QED
    BY <1>4, <2>1
<1>6. Len(t) \in 1..Len(t) /\ Len(t) - 1 = Len(s)
  BY <1>4
<1>7. QED
  BY <1>1, <1>2, <1>3, <1>4, <1>5, <1>6 DEF Keeps

\* What is kept is the elements that are to be kept, ...
LEMMA KeptRange ==
    ASSUME NEW T, NEW S
    PROVE  \A s \in Seq(T) : /\ Kept(s, S) \in Seq(T)
                             /\ Range(Kept(s, S)) = Range(s) \intersect S
<1> DEFINE G == {s \in Seq(T) : /\ Kept(s, S) \in Seq(T)
                                /\ Range(Kept(s, S)) = Range(s) \intersect S}
<1>1. <<>> \in G
  <2>1. Range(<<>>) = {} /\ <<>> \in Seq(T)
    BY DEF Range
  <2>2. QED
    BY <2>1, KeptEmpty
<1>2. ASSUME NEW s \in Seq(T), NEW x \in T, s \in G PROVE Append(s, x) \in G
  <2>1. Append(s, x) \in Seq(T) /\ Kept(s, S) \in Seq(T)
    BY <1>2
  <2>2. ASSUME NEW u \in Seq(T) PROVE Range(Append(u, x)) = Range(u) \union {x}
    BY RangeOfAppend
  <2>3. PICK t \in Seq(T) : t = Append(s, x)
    BY <2>1
  <2>4. PICK u \in Seq(T) : u = Kept(s, S) /\ Range(u) = Range(s) \intersect S
    BY <1>2
  <2>5. Kept(t, S) = IF x \in S THEN Append(u, x) ELSE u
    BY <2>3, <2>4, KeptAppend
  <2>6. Range(t) = Range(s) \union {x} /\ Range(Append(u, x)) = Range(u) \union {x}
    BY <2>2, <2>3
  <2>7. Kept(t, S) \in Seq(T) /\ Range(Kept(t, S)) = Range(t) \intersect S
    <3>1. CASE x \in S
      <4>1. Append(u, x) \in Seq(T)
        OBVIOUS
      <4>2. QED
        BY <2>4, <2>5, <2>6, <3>1, <4>1
    <3>2. CASE x \notin S
      BY <2>4, <2>5, <2>6, <3>2
    <3>3. QED
      BY <3>1, <3>2
  <2>8. QED
    BY <2>3, <2>7
<1>3. \A s \in Seq(T), x \in T : s \in G => Append(s, x) \in G
  BY <1>2
<1>4. QED
  <2> HIDE DEF G
  <2>1. \A s \in Seq(T) : s \in G
    BY <1>1, <1>3, SequencesByAppending
  <2>2. QED
    BY <2>1 DEF G

\* ... which depends on the elements of the sequence only, ...
LEMMA KeptOfElements ==
    ASSUME NEW T, NEW R, NEW S
    PROVE  \A s \in Seq(T) : Range(s) \intersect R = Range(s) \intersect S
                                => Kept(s, R) = Kept(s, S)
<1> DEFINE G == {s \in Seq(T) : Range(s) \intersect R = Range(s) \intersect S
                                    => Kept(s, R) = Kept(s, S)}
<1>1. <<>> \in G
  <2>1. <<>> \in Seq(T)
    OBVIOUS
  <2>2. QED
    BY <2>1, KeptEmpty
<1>2. ASSUME NEW s \in Seq(T), NEW x \in T, s \in G PROVE Append(s, x) \in G
  <2>1. PICK t \in Seq(T) : t = Append(s, x)
    <3> HIDE DEF G
    <3>1. Append(s, x) \in Seq(T)
      OBVIOUS
    <3>2. QED
      BY <3>1
  <2>2. Range(t) = Range(s) \union {x}
    BY <2>1, RangeOfAppend
  <2>3. ASSUME Range(t) \intersect R = Range(t) \intersect S
        PROVE  Kept(t, R) = Kept(t, S)
    <3>1. Range(s) \intersect R = Range(s) \intersect S /\ (x \in R <=> x \in S)
      BY <2>2, <2>3
    <3>2. Kept(s, R) = Kept(s, S)
      BY <1>2, <3>1
    <3>3. /\ Kept(t, R) = IF x \in R THEN Append(Kept(s, R), x) ELSE Kept(s, R)
          /\ Kept(t, S) = IF x \in S THEN Append(Kept(s, S), x) ELSE Kept(s, S)
      BY <2>1, KeptAppend
    <3>4. QED
      BY <3>1, <3>2, <3>3
  <2>4. QED
    BY <2>1, <2>3
<1>3. \A s \in Seq(T), x \in T : s \in G => Append(s, x) \in G
  BY <1>2
<1>4. QED
  <2> HIDE DEF G
  <2>1. \A s \in Seq(T) : s \in G
    BY <1>1, <1>3, SequencesByAppending
  <2>2. QED
    BY <2>1 DEF G

\* ... everything, if all is to be kept, ...
LEMMA KeptAll ==
    ASSUME NEW T, NEW S
    PROVE  \A s \in Seq(T) : Range(s) \subseteq S => Kept(s, S) = s
<1> DEFINE G == {s \in Seq(T) : Range(s) \subseteq S => Kept(s, S) = s}
<1>1. <<>> \in G
  <2>1. <<>> \in Seq(T)
    OBVIOUS
  <2>2. QED
    BY <2>1, KeptEmpty
<1>2. ASSUME NEW s \in Seq(T), NEW x \in T, s \in G PROVE Append(s, x) \in G
  <2>1. PICK t \in Seq(T) : t = Append(s, x)
    <3> HIDE DEF G
    <3>1. Append(s, x) \in Seq(T)
      OBVIOUS
    <3>2. QED
      BY <3>1
  <2>2. Range(t) = Range(s) \union {x}
    BY <2>1, RangeOfAppend
  <2>3. ASSUME Range(t) \subseteq S PROVE Kept(t, S) = t
    <3>1. Kept(s, S) = s /\ x \in S
      BY <1>2, <2>2, <2>3
    <3>2. Kept(t, S) = IF x \in S THEN Append(Kept(s, S), x) ELSE Kept(s, S)
      BY <2>1, KeptAppend
    <3>3. QED
      BY <2>1, <3>1, <3>2
  <2>4. QED
    BY <2>1, <2>3
<1>3. \A s \in Seq(T), x \in T : s \in G => Append(s, x) \in G
  BY <1>2
<1>4. QED
  <2> HIDE DEF G
  <2>1. \A s \in Seq(T) : s \in G
    BY <1>1, <1>3, SequencesByAppending
  <2>2. QED
    BY <2>1 DEF G

\* ... and of two sequences, one after the other.
LEMMA KeptConcat ==
    ASSUME NEW T, NEW s \in Seq(T), NEW S
    PROVE  \A t \in Seq(T) : Kept(s \o t, S) = Kept(s, S) \o Kept(t, S)
<1> DEFINE G == {t \in Seq(T) : Kept(s \o t, S) = Kept(s, S) \o Kept(t, S)}
<1>1. <<>> \in G
  <2>1. <<>> \in Seq(T) /\ s \o <<>> = s /\ Kept(s, S) \in Seq(T)
    BY KeptRange
  <2>2. Kept(s, S) \o <<>> = Kept(s, S)
    BY <2>1
  <2>3. QED
    BY <2>1, <2>2, KeptEmpty
<1>2. ASSUME NEW t \in Seq(T), NEW x \in T, t \in G PROVE Append(t, x) \in G
  <2>1. /\ Append(t, x) \in Seq(T) /\ s \o t \in Seq(T)
        /\ s \o Append(t, x) = Append(s \o t, x)
    <3> HIDE DEF G
    <3>1. QED
      OBVIOUS
  <2>2. PICK u \in Seq(T) : u = s \o t
    BY <2>1
  <2>3. PICK a \in Seq(T) : a = Kept(s, S)
    BY KeptRange
  <2>4. PICK b \in Seq(T) : b = Kept(t, S)
    BY KeptRange
  <2>5. Kept(u, S) = a \o b
    BY <1>2, <2>2, <2>3, <2>4
  <2>6. /\ Kept(Append(u, x), S) = IF x \in S THEN Append(a \o b, x) ELSE a \o b
        /\ Kept(Append(t, x), S) = IF x \in S THEN Append(b, x) ELSE b
    <3> HIDE DEF G
    <3>1. Kept(Append(u, x), S) = IF x \in S THEN Append(Kept(u, S), x) ELSE Kept(u, S)
      BY KeptAppend
    <3>2. Kept(Append(t, x), S) = IF x \in S THEN Append(Kept(t, S), x) ELSE Kept(t, S)
      BY KeptAppend
    <3>3. QED
      BY <2>4, <2>5, <3>1, <3>2
  <2>7. a \o Append(b, x) = Append(a \o b, x)
    <3> HIDE DEF G
    <3>1. QED
      OBVIOUS
  <2>8. Kept(Append(u, x), S) = a \o Kept(Append(t, x), S)
    BY <2>6, <2>7
  <2>9. PICK v \in Seq(T) : v = Append(t, x)
    BY <2>1
  <2>10. s \o v = Append(u, x)
    BY <2>1, <2>2, <2>9
  <2>11. Kept(s \o v, S) = Kept(s, S) \o Kept(v, S)
    <3> HIDE DEF G
    <3>1. QED
      BY <2>3, <2>8, <2>9, <2>10
  <2>12. v \in G
    BY <2>11
  <2>13. QED
    BY <2>9, <2>12
<1>3. \A t \in Seq(T), x \in T : t \in G => Append(t, x) \in G
  BY <1>2
<1>4. QED
  <2> HIDE DEF G
  <2>1. \A t \in Seq(T) : t \in G
    BY <1>1, <1>3, SequencesByAppending
  <2>2. QED
    BY <2>1 DEF G

\* Without drops the headers with the given names and leaves the others.
LEMMA WithoutProperty ==
    ASSUME NEW hs \in Seq(HeaderLines), NEW N
    PROVE  /\ Without(hs, N) \in Seq(HeaderLines)
           /\ Range(Without(hs, N)) = {h \in Range(hs) : h.name \notin N}
<1> DEFINE S == {h \in Range(hs) : h.name \notin N}
<1>1. Range(hs) \intersect S = S
  OBVIOUS
<1> HIDE DEF S
<1>2. Kept(hs, S) \in Seq(HeaderLines) /\ Range(Kept(hs, S)) = S
  BY <1>1, KeptRange
<1>3. QED
  BY <1>2 DEF Without, S

\* What remains of two sequences of headers is what remains of each.
LEMMA WithoutConcat ==
    ASSUME NEW a \in Seq(HeaderLines), NEW b \in Seq(HeaderLines), NEW N
    PROVE  Without(a \o b, N) = Without(a, N) \o Without(b, N)
<1>1. PICK both \in Seq(HeaderLines) : both = a \o b
  <2>1. a \o b \in Seq(HeaderLines)
    OBVIOUS
  <2>2. QED
    BY <2>1
<1>2. Range(both) = Range(a) \union Range(b)
  BY <1>1, RangeConcatenation
<1> DEFINE S(hs) == {h \in Range(hs) : h.name \notin N}
<1>3. /\ Range(a) \intersect S(both) = Range(a) \intersect S(a)
      /\ Range(b) \intersect S(both) = Range(b) \intersect S(b)
  BY <1>2
<1>4. Kept(a, S(both)) = Kept(a, S(a)) /\ Kept(b, S(both)) = Kept(b, S(b))
  <2> HIDE DEF S
  <2>1. QED
    BY <1>3, KeptOfElements
<1>5. Kept(both, S(both)) = Kept(a, S(both)) \o Kept(b, S(both))
  <2> HIDE DEF S
  <2>1. QED
    BY <1>1, KeptConcat
<1>6. QED
  BY <1>1, <1>4, <1>5 DEF Without

\* Nothing is dropped where there is nothing to drop, ...
LEMMA WithoutNone ==
    ASSUME NEW hs \in Seq(HeaderLines), NEW N, \A h \in Range(hs) : h.name \notin N
    PROVE  Without(hs, N) = hs
<1>1. Range(hs) \subseteq {h \in Range(hs) : h.name \notin N}
  OBVIOUS
<1>2. QED
  BY <1>1, KeptAll DEF Without

\* ... and everything where there is nothing else.
LEMMA WithoutAll ==
    ASSUME NEW hs \in Seq(HeaderLines), NEW N, \A h \in Range(hs) : h.name \in N
    PROVE  Without(hs, N) = <<>>
<1>1. PICK ws \in Seq(HeaderLines) : ws = Without(hs, N)
  BY WithoutProperty
<1>2. Range(ws) = {}
  BY <1>1, WithoutProperty
<1>3. Len(ws) = 0
  <2>1. SUFFICES ASSUME Len(ws) # 0 PROVE FALSE
    OBVIOUS
  <2>2. 1 \in DOMAIN ws
    BY <2>1
  <2>3. QED
    BY <1>2, <2>2 DEF Range
<1>4. QED
  BY <1>1, <1>3

\* header() finds the first header with a name.
LEMMA FirstValue ==
    ASSUME NEW hs \in Seq(HeaderLines), NEW i \in 1..Len(hs), NEW name,
           hs[i].name = name, \A j \in 1..Len(hs) : j < i => hs[j].name # name
    PROVE  HeaderValue(hs, name) = hs[i].value
<1> DEFINE P == Positions(hs, name)
<1>1. P \in SUBSET Nat /\ i \in P
  BY DEF Positions
<1>2. ASSUME NEW j \in P PROVE j \in 1..Len(hs) /\ ~ (j < i)
  BY <1>2 DEF Positions
<1>3. Min(P) = i
  <2> HIDE DEF P
  <2>1. PICK m \in P : m = Min(P) /\ m <= i
    BY <1>1, MinProperty
  <2>2. m \in Nat /\ i \in Nat /\ ~ (m < i)
    BY <1>1, <1>2
  <2>3. QED
    BY <2>1, <2>2
<1>4. P # {}
  BY <1>1
<1>5. QED
  BY <1>3, <1>4 DEF HeaderValue

\* A length that parses is a number.
LEMMA LengthType ==
    ASSUME NEW hs \in Seq(HeaderLines), HasLength(hs)
    PROVE  HeaderValue(hs, "content-length") \in Nat
<1> DEFINE P == Positions(hs, "content-length")
<1>1. P \in SUBSET Nat /\ P # {}
  BY DEF Positions, HasLength, HeaderValue
<1>2. PICK i \in P : i = Min(P)
  <2> HIDE DEF P
  <2>1. QED
    BY <1>1, MinProperty
<1>3. i \in DOMAIN hs /\ hs[i].name = "content-length" /\ hs[i] \in HeaderLines
  BY DEF Positions
<1>4. hs[i].value \in {Cut} \union Nat
  BY <1>3 DEF HeaderLines
<1>5. HeaderValue(hs, "content-length") = hs[i].value
  BY <1>1, <1>2 DEF HeaderValue
<1>6. QED
  BY <1>4, <1>5 DEF HasLength

-----------------------------------------------------------------------------
ByteUnits == [unit: {"byte"}, value: Text]

StartUnits == [unit: {"start", "status"}, value: Text \union Nat]

Units == StartUnits \union HeaderLines \union ByteUnits \union {Blank, Garbled}

\* The bytes of a message by its parts.
Wire(s, hs, bs) == <<s>> \o (hs \o <<Blank>> \o bs)

\* What is between the start line and the blank line of a wire are its headers,
\* and what is behind them is the body.
LEMMA WireRead ==
    ASSUME NEW s \in StartUnits, NEW hs \in Seq(HeaderLines), NEW bs \in Seq(ByteUnits),
           NEW w, w = Wire(s, hs, bs)
    PROVE  /\ w \in Seq(Units) /\ w # <<>> /\ w[1] = s
           /\ HeadEnd(w) = Len(hs) + 2 /\ HeadParses(w)
           /\ Headers(w) = hs /\ Rest(w) = bs
<1>1. HeaderLines \subseteq Units /\ ByteUnits \subseteq Units /\ Blank \in Units /\ s \in Units
  BY DEF Units
<1> HIDE DEF Units, StartUnits, HeaderLines, ByteUnits
<1>2. hs \in Seq(Units) /\ bs \in Seq(Units) /\ <<Blank>> \in Seq(Units) /\ <<s>> \in Seq(Units)
  BY <1>1
<1>0. w = <<s>> \o (hs \o <<Blank>> \o bs)
  BY DEF Wire
<1>3. w \in Seq(Units) /\ Len(w) = Len(hs) + Len(bs) + 2 /\ w[1] = s
  BY <1>0, <1>2
<1>4. Len(hs) \in Nat /\ Len(bs) \in Nat /\ DOMAIN w = 1..Len(w)
  BY <1>3
<1>5. /\ \A i \in 1..Len(hs) : w[i + 1] = hs[i]
      /\ w[Len(hs) + 2] = Blank
      /\ \A i \in 1..Len(bs) : w[Len(hs) + 2 + i] = bs[i]
  BY <1>0, <1>2, <1>4
<1>6. s # Blank /\ s # Garbled
  BY DEF StartUnits, Blank, Garbled
<1>7. \A h \in HeaderLines : h # Blank /\ h # Garbled
  BY DEF HeaderLines, Blank, Garbled
<1>8. ASSUME NEW i \in 1..(Len(hs) + 1) PROVE w[i] # Blank /\ w[i] # Garbled
  <2>1. CASE i = 1
    BY <1>3, <1>6, <2>1
  <2>2. CASE i # 1
    <3>1. PICK j \in 1..Len(hs) : i = j + 1
      BY <1>4, <2>2
    <3>2. w[i] = hs[j] /\ hs[j] \in HeaderLines
      BY <1>5, <3>1
    <3>3. QED
      BY <1>7, <3>2
  <2>3. QED
    BY <2>1, <2>2
<1>9. HeadEnd(w) = Len(hs) + 2
  <2> DEFINE B == {i \in DOMAIN w : w[i] = Blank}
  <2>1. B \in SUBSET Nat /\ Len(hs) + 2 \in B
    BY <1>3, <1>4, <1>5
  <2>2. ASSUME NEW i \in B PROVE ~ (i < Len(hs) + 2)
    BY <1>4, <1>8
  <2>3. Min(B) = Len(hs) + 2
    <3> HIDE DEF B
    <3>1. PICK m \in B : m = Min(B) /\ m <= Len(hs) + 2
      BY <2>1, MinProperty
    <3>2. m \in Nat /\ ~ (m < Len(hs) + 2)
      BY <2>1, <2>2
    <3>3. QED
      BY <1>4, <3>1, <3>2
  <2>4. B # {}
    BY <2>1
  <2>5. HeadEnd(w) = IF B = {} THEN Len(w) + 1 ELSE Min(B)
    BY DEF HeadEnd
  <2> HIDE DEF B
  <2>6. QED
    BY <2>3, <2>4, <2>5
<1>10. w # <<>>
  BY <1>3, <1>4
<1>11. HeadParses(w)
  BY <1>4, <1>8, <1>9, <1>10 DEF HeadParses
<1>12. Headers(w) = hs
  <2>1. Headers(w) = SubSeq(w, 2, Len(hs) + 1)
    <3>1. (Len(hs) + 2) - 1 = Len(hs) + 1
      BY <1>4
    <3>2. QED
      BY <1>9, <3>1, Zenon DEF Headers
  <2>2. PICK t : t = SubSeq(w, 2, Len(hs) + 1)
    OBVIOUS
  <2>3. t \in Seq(Units) /\ Len(t) = Len(hs)
    BY <1>3, <1>4, <2>2
  <2>4. \A i \in 1..Len(hs) : t[i] = w[i + 1]
    BY <1>3, <1>4, <2>2
  <2>5. t = hs
    BY <1>2, <1>5, <2>3, <2>4, SeqEqual
  <2>6. QED
    BY <2>1, <2>2, <2>5
<1>13. Rest(w) = bs
  <2>1. Rest(w) = SubSeq(w, Len(hs) + 3, Len(w))
    <3>1. (Len(hs) + 2) + 1 = Len(hs) + 3
      BY <1>4
    <3>2. QED
      BY <1>9, <3>1, Zenon DEF Rest
  <2>2. PICK t : t = SubSeq(w, Len(hs) + 3, Len(w))
    OBVIOUS
  <2>3. t \in Seq(Units) /\ Len(t) = Len(bs)
    BY <1>3, <1>4, <2>2
  <2>4. \A i \in 1..Len(bs) : t[i] = w[Len(hs) + 2 + i]
    BY <1>3, <1>4, <2>2
  <2>5. t = bs
    BY <1>2, <1>5, <2>3, <2>4, SeqEqual
  <2>6. QED
    BY <2>1, <2>2, <2>5
<1>14. QED
  BY <1>3, <1>9, <1>10, <1>11, <1>12, <1>13

\* A line cut short is garbled or a line of the same kind, and the others cannot
\* be cut.
LEMMA CutLinesProperty ==
    /\ \A u \in StartUnits : (u.unit = "status" => u.value \in Nat)
            => CutLines(u) \subseteq StartUnits \union {Garbled}
    /\ \A u \in HeaderLines : \A v \in CutLines(u) :
            v = Garbled \/ (v \in HeaderLines /\ v.name = u.name)
    /\ \A u \in ByteUnits \union {Blank} : CutLines(u) = {}
<1>1. ASSUME NEW u \in StartUnits, u.unit = "status" => u.value \in Nat, NEW v \in CutLines(u)
      PROVE  v \in StartUnits \union {Garbled}
  <2>1. u.unit \in {"start", "status"}
    BY DEF StartUnits
  <2>2. CASE u.unit = "start"
    <3>1. CutLines(u) = {Garbled, Start(Cut)}
      BY <2>2 DEF CutLines
    <3>2. Start(Cut) \in StartUnits
      BY HttpAssumption DEF Start, StartUnits
    <3>3. QED
      BY <3>1, <3>2
  <2>3. CASE u.unit = "status"
    <3>1. CutLines(u) = {Garbled, Status(u.value \div 10), Status(u.value \div 100)}
      BY <2>3 DEF CutLines
    <3>2. u.value \div 10 \in Nat /\ u.value \div 100 \in Nat
      BY <1>1, <2>3
    <3>3. Status(u.value \div 10) \in StartUnits /\ Status(u.value \div 100) \in StartUnits
      BY <3>2 DEF Status, StartUnits
    <3>4. QED
      BY <3>1, <3>3
  <2>4. QED
    BY <2>1, <2>2, <2>3
<1>2. ASSUME NEW u \in HeaderLines, NEW v \in CutLines(u)
      PROVE  v = Garbled \/ (v \in HeaderLines /\ v.name = u.name)
  <2>1. /\ u.unit = "header" /\ u.name \in Range(NameOrder)
        /\ u.name = "content-length" => u.value \in {Cut} \union Nat
    BY HttpAssumption DEF HeaderLines
  <2>2. CutLines(u) = {Garbled, Header(u.name, Cut)} \union
            (IF u.name = "content-length" /\ u.value # Cut
             THEN {Header(u.name, n) : n \in 1..(u.value - 1)} ELSE {})
    BY <2>1 DEF CutLines
  <2>3. Header(u.name, Cut) \in HeaderLines /\ Header(u.name, Cut).name = u.name
    <3>1. Cut \in Text
      BY HttpAssumption
    <3>2. QED
      BY <2>1, <3>1 DEF Header, HeaderLines
  <2>4. ASSUME NEW n \in Nat, u.name = "content-length"
        PROVE  Header(u.name, n) \in HeaderLines /\ Header(u.name, n).name = u.name
    BY <2>4 DEF Header, HeaderLines
  <2>5. \/ v = Garbled \/ v = Header(u.name, Cut)
        \/ /\ u.name = "content-length" /\ u.value # Cut
           /\ \E n \in 1..(u.value - 1) : v = Header(u.name, n)
    <3> HIDE DEF CutLines
    <3>1. QED
      BY <2>2, Zenon
  <2>6. ASSUME u.name = "content-length", u.value # Cut,
               NEW n \in 1..(u.value - 1), v = Header(u.name, n)
        PROVE  v \in HeaderLines /\ v.name = u.name
    <3>1. u.value \in Nat
      BY <2>1, <2>6
    <3>2. n \in Nat
      BY <3>1
    <3>3. QED
      BY <2>4, <2>6, <3>2
  <2>7. CASE v = Garbled \/ v = Header(u.name, Cut)
    BY <2>3, <2>7
  <2>8. CASE /\ u.name = "content-length" /\ u.value # Cut
             /\ \E n \in 1..(u.value - 1) : v = Header(u.name, n)
    BY <2>6, <2>8
  <2>9. QED
    BY <2>5, <2>7, <2>8
<1>3. ASSUME NEW u \in ByteUnits \union {Blank} PROVE CutLines(u) = {}
  BY DEF CutLines, ByteUnits, Blank
<1>4. QED
  BY <1>1, <1>2, <1>3

\* What has arrived is the beginning of what was sent, but for its last unit.
LEMMA PartShape ==
    ASSUME NEW w \in Seq(Units), NEW part \in Parts(w)
    PROVE  /\ part \in Seq(Range(part))
           /\ DOMAIN part = 1..Len(part) /\ Len(part) \in Nat /\ Len(part) <= Len(w)
           /\ \A i \in 1..Len(part) :
                part[i] = w[i] \/ (i = Len(part) /\ part[i] \in CutLines(w[i]))
<1>1. Len(w) \in Nat /\ DOMAIN w = 1..Len(w)
  OBVIOUS
<1>2. CASE part \in {SubSeq(w, 1, n) : n \in 0..Len(w)}
  <2>1. PICK n \in 0..Len(w) : part = SubSeq(w, 1, n)
    BY <1>2
  <2>2. part \in Seq(Units) /\ Len(part) = n /\ \A i \in 1..n : part[i] = w[i]
    BY <1>1, <2>1
  <2>3. DOMAIN part = 1..Len(part) /\ Len(part) \in Nat /\ Len(part) <= Len(w)
    BY <1>1, <2>2
  <2>4. \A i \in 1..Len(part) : part[i] = w[i]
    BY <2>2
  <2>5. part \in Seq(Range(part))
    BY <2>2, SeqOfRange, SMTT(30)
  <2>6. QED
    BY <2>3, <2>4, <2>5
<1>3. CASE part \notin {SubSeq(w, 1, n) : n \in 0..Len(w)}
  <2>1. PICK n \in 0..(Len(w) - 1) :
            part \in {Append(SubSeq(w, 1, n), u) : u \in CutLines(w[n + 1])}
    BY <1>3 DEF Parts
  <2>2. PICK u \in CutLines(w[n + 1]) : part = Append(SubSeq(w, 1, n), u)
    BY <2>1
  <2>3. PICK t : t = SubSeq(w, 1, n)
    OBVIOUS
  <2>4. t \in Seq(Units) /\ Len(t) = n /\ n + 1 <= Len(w) /\ \A i \in 1..n : t[i] = w[i]
    BY <1>1, <2>3
  <2>5. t \in Seq(Units \union {u})
    BY <2>4
  <2>6. part = Append(t, u)
    BY <2>2, <2>3
  <2>7. /\ part \in Seq(Units \union {u}) /\ Len(part) = n + 1 /\ part[n + 1] = u
        /\ \A i \in 1..n : part[i] = t[i]
    BY <2>4, <2>5, <2>6
  <2>8. \A i \in 1..Len(part) : i = n + 1 \/ i \in 1..n
    BY <2>7
  <2>9. DOMAIN part = 1..Len(part) /\ Len(part) \in Nat /\ Len(part) <= Len(w)
    BY <1>1, <2>4, <2>7
  <2>10. \A i \in 1..Len(part) :
            part[i] = w[i] \/ (i = Len(part) /\ part[i] \in CutLines(w[i]))
    BY <2>4, <2>7, <2>8
  <2>11. part \in Seq(Range(part))
    BY <2>7, SeqOfRange, SMTT(30)
  <2>12. QED
    BY <2>9, <2>10, <2>11
<1>4. QED
  BY <1>2, <1>3

\* The units of what has arrived of a message.
LEMMA PartUnits ==
    ASSUME NEW s \in StartUnits, s.unit = "status" => s.value \in Nat,
           NEW hs \in Seq(HeaderLines), NEW bs \in Seq(ByteUnits),
           NEW w, w = Wire(s, hs, bs), NEW part \in Parts(w)
    PROVE  /\ DOMAIN part = 1..Len(part) /\ Len(part) \in Nat /\ Len(part) <= Len(w)
           /\ Len(w) = Len(hs) + 2 + Len(bs)
           /\ \A i \in 1..Len(part) : i = 1 => part[i] \in StartUnits \union {Garbled}
           /\ \A i \in 1..Len(part) : i > 1 /\ i <= Len(hs) + 1 =>
                \/ part[i] = Garbled
                \/ part[i] \in HeaderLines /\ part[i].name = hs[i - 1].name
           /\ Len(part) >= Len(hs) + 2 => part = SubSeq(w, 1, Len(part))
<1>1. w \in Seq(Units) /\ w[1] = s
  BY WireRead
<1>2. HeaderLines \subseteq Units /\ ByteUnits \subseteq Units /\ Blank \in Units /\ s \in Units
  BY DEF Units
<1> HIDE DEF Units, StartUnits, HeaderLines, ByteUnits, Blank, Garbled
<1>3. hs \in Seq(Units) /\ bs \in Seq(Units) /\ <<Blank>> \in Seq(Units) /\ <<s>> \in Seq(Units)
  BY <1>2
<1>4. /\ Len(hs) \in Nat /\ Len(bs) \in Nat /\ Len(w) = Len(hs) + 2 + Len(bs)
      /\ \A i \in 1..Len(hs) : w[i + 1] = hs[i]
      /\ w[Len(hs) + 2] = Blank
      /\ \A i \in 1..Len(bs) : w[Len(hs) + 2 + i] = bs[i]
  BY <1>3, SMTT(30) DEF Wire
<1>5. /\ DOMAIN part = 1..Len(part) /\ Len(part) \in Nat /\ Len(part) <= Len(w)
      /\ \A i \in 1..Len(part) :
            part[i] = w[i] \/ (i = Len(part) /\ part[i] \in CutLines(w[i]))
  BY <1>1, PartShape
<1>6. ASSUME NEW i \in 1..Len(part), i = 1
      PROVE  part[i] \in StartUnits \union {Garbled}
  BY <1>1, <1>5, <1>6, CutLinesProperty, ZenonT(60)
<1>7. ASSUME NEW i \in 1..Len(part), i > 1, i <= Len(hs) + 1
      PROVE  \/ part[i] = Garbled
             \/ part[i] \in HeaderLines /\ part[i].name = hs[i - 1].name
  <2>1. i - 1 \in 1..Len(hs) /\ (i - 1) + 1 = i
    BY <1>4, <1>7
  <2>2. PICK j \in 1..Len(hs) : j = i - 1 /\ j + 1 = i
    BY <2>1
  <2>3. w[j + 1] = hs[j] /\ hs[j] \in HeaderLines
    BY <1>4
  <2>4. QED
    BY <1>5, <2>2, <2>3, CutLinesProperty
<1>8. ASSUME Len(part) >= Len(hs) + 2 PROVE part = SubSeq(w, 1, Len(part))
  <2>1. ASSUME NEW i \in 1..Len(part) PROVE part[i] = w[i]
    <3>1. CASE i = Len(part)
      <4>1. w[i] \in ByteUnits \union {Blank}
        <5>1. CASE i = Len(hs) + 2
          BY <1>4, <5>1
        <5>2. CASE i # Len(hs) + 2
          <6>1. PICK j \in 1..Len(bs) : i = Len(hs) + 2 + j
            <7>1. i - (Len(hs) + 2) \in 1..Len(bs) /\ i = Len(hs) + 2 + (i - (Len(hs) + 2))
              <8>1. PICK p, a, b, c : /\ p = Len(part) /\ a = Len(hs) /\ b = Len(bs)
                                      /\ c = Len(w)
                OBVIOUS
              <8>2. /\ a \in Nat /\ b \in Nat /\ c = a + 2 + b /\ p \in Nat /\ p <= c
                    /\ p >= a + 2 /\ i = p /\ i # a + 2
                BY <1>4, <1>5, <1>8, <3>1, <5>2, <8>1
              <8>3. i - (a + 2) \in 1..b /\ i = a + 2 + (i - (a + 2))
                BY <8>2
              <8>4. QED
                BY <8>1, <8>3
            <7>2. QED
              BY <7>1
          <6>2. w[i] = bs[j] /\ bs[j] \in ByteUnits
            BY <1>4, <6>1, SMTT(30)
          <6>3. QED
            BY <6>2
        <5>3. QED
          BY <5>1, <5>2
      <4>2. CutLines(w[i]) = {}
        BY <4>1, CutLinesProperty
      <4>3. QED
        BY <1>5, <4>2
    <3>2. CASE i # Len(part)
      BY <1>5, <3>2
    <3>3. QED
      BY <3>1, <3>2, SMTT(30)
  <2>2. PICK t : t = SubSeq(w, 1, Len(part))
    OBVIOUS
  <2>3. t \in Seq(Units) /\ Len(t) = Len(part) /\ \A i \in 1..Len(part) : t[i] = w[i]
    <3>1. PICK p \in Nat : p = Len(part) /\ p <= Len(w)
      BY <1>5
    <3>2. PICK x \in Seq(Units) : x = w
      BY <1>1
    <3>3. /\ SubSeq(x, 1, p) \in Seq(Units) /\ Len(SubSeq(x, 1, p)) = p
          /\ \A i \in 1..p : SubSeq(x, 1, p)[i] = x[i]
      BY <3>1, <3>2
    <3>4. QED
      BY <2>2, <3>1, <3>2, <3>3
  <2>4. part \in Seq(Units)
    <3>1. \A i \in 1..Len(part) : part[i] \in Units
      <4>1. PICK x \in Seq(Units) : x = w
        BY <1>1
      <4>2. \A i \in 1..Len(part) : i \in 1..Len(x)
        <5>1. Len(x) \in Nat
          OBVIOUS
        <5>2. Len(part) \in Nat /\ Len(part) <= Len(x)
          BY <1>5, <4>1
        <5>3. QED
          BY <5>1, <5>2
      <4>3. \A i \in 1..Len(x) : x[i] \in Units
        OBVIOUS
      <4>4. QED
        BY <2>1, <4>1, <4>2, <4>3
    <3>2. part \in Seq(Range(part))
      BY <1>1, PartShape, SMTT(30)
    <3>3. Range(part) \subseteq Units
      BY <1>5, <3>1 DEF Range
    <3>4. QED
      BY <3>2, <3>3, SeqMonotonic
  <2>5. QED
    BY <2>1, <2>2, <2>3, <2>4, SeqEqual
<1>9. QED
  BY <1>4, <1>5, <1>6, <1>7, <1>8

\* The body of a wire has as many bytes as are asked for, or there is an error.
LEMMA WireBody ==
    ASSUME NEW s \in StartUnits, NEW hs \in Seq(HeaderLines), NEW bs \in Seq(ByteUnits),
           NEW w, w = Wire(s, hs, bs), NEW n \in Nat
    PROVE  TakeBody(w, n) = IF Len(bs) < n THEN Error
                            ELSE Message(s.value, hs, [i \in 1..n |-> bs[i].value])
<1>1. w[1] = s /\ Headers(w) = hs /\ Rest(w) = bs
  BY WireRead
<1>2. QED
  BY <1>1, Zenon DEF TakeBody

\* The values of the first n bytes.
BytesOf(bs, n) == [i \in 1..n |-> bs[i].value]

\* A message is what its fields are, and its bytes are those of its body.
LEMMA WireOfMessage ==
    ASSUME NEW m \in Messages, NEW bs, bs = [i \in DOMAIN m.body |-> Byte(m.body[i])]
    PROVE  /\ bs \in Seq(ByteUnits) /\ Len(bs) = Len(m.body)
           /\ BytesOf(bs, Len(m.body)) = m.body
           /\ Start(m.start) \in StartUnits /\ Start(m.start).value = m.start
           /\ Start(m.start).unit = "start"
           /\ Status(m.start) \in StartUnits /\ Status(m.start).value = m.start
           /\ m = Message(m.start, m.headers, m.body)
           /\ m.headers \in Seq(HeaderLines)
           /\ RequestWire(m) = Wire(Start(m.start), m.headers, bs)
           /\ ResponseWire(m) = Wire(Status(m.start), m.headers, bs)
<1>1. /\ m.result = "message" /\ m.start \in Text \union Nat /\ m.body \in Seq(Text)
      /\ m.headers \in Seq(HeaderLines)
      /\ m = [result |-> m.result, start |-> m.start, headers |-> m.headers, body |-> m.body]
  BY DEF Messages
<1>2. m = Message(m.start, m.headers, m.body)
  BY <1>1 DEF Message
<1>3. /\ Start(m.start) \in StartUnits /\ Start(m.start).value = m.start
      /\ Start(m.start).unit = "start"
      /\ Status(m.start) \in StartUnits /\ Status(m.start).value = m.start
  BY <1>1 DEF Start, Status, StartUnits
<1>4. /\ RequestWire(m) = Wire(Start(m.start), m.headers, bs)
      /\ ResponseWire(m) = Wire(Status(m.start), m.headers, bs)
  BY Zenon DEF RequestWire, ResponseWire, Lines, Wire
<1>5. PICK b \in Seq(Text) : b = m.body
  BY <1>1
<1>6. Len(b) \in Nat /\ DOMAIN b = 1..Len(b) /\ \A i \in 1..Len(b) : b[i] \in Text
  OBVIOUS
<1>7. bs = [i \in 1..Len(b) |-> Byte(b[i])]
  BY <1>5, <1>6
<1>8. \A i \in 1..Len(b) : Byte(b[i]) \in ByteUnits /\ Byte(b[i]).value = b[i]
  BY <1>6 DEF Byte, ByteUnits
<1>9. bs \in Seq(ByteUnits) /\ Len(bs) = Len(b)
  BY <1>6, <1>7, <1>8
<1>10. BytesOf(bs, Len(b)) = b
  <2>1. \A i \in 1..Len(b) : bs[i].value = b[i]
    BY <1>7, <1>8
  <2>2. b = [i \in 1..Len(b) |-> b[i]]
    BY <1>6
  <2>3. QED
    BY <2>1, <2>2 DEF BytesOf
<1>11. QED
  BY <1>1, <1>2, <1>3, <1>4, <1>5, <1>9, <1>10

\* A beginning of two sequences that reaches into the second one.
LEMMA BeginningOfConcat ==
    ASSUME NEW T, NEW a \in Seq(T), NEW b \in Seq(T), NEW k \in 0..Len(b)
    PROVE  SubSeq(a \o b, 1, Len(a) + k) = a \o SubSeq(b, 1, k)
<1>1. PICK x \in Seq(T) : x = a \o b
  <2>1. a \o b \in Seq(T)
    OBVIOUS
  <2>2. QED
    BY <2>1
<1>2. PICK y \in Seq(T) : y = SubSeq(b, 1, k)
  <2>1. SubSeq(b, 1, k) \in Seq(T)
    OBVIOUS
  <2>2. QED
    BY <2>1
<1>3. Len(y) = k /\ \A i \in 1..k : y[i] = b[i]
  BY <1>2
<1>4. /\ Len(a) \in Nat /\ Len(b) \in Nat /\ Len(x) = Len(a) + Len(b)
      /\ \A i \in 1..Len(a) : x[i] = a[i]
      /\ \A i \in 1..Len(b) : x[Len(a) + i] = b[i]
  BY <1>1
<1>5. PICK u : u = SubSeq(x, 1, Len(a) + k)
  OBVIOUS
<1>6. u \in Seq(T) /\ Len(u) = Len(a) + k /\ \A i \in 1..(Len(a) + k) : u[i] = x[i]
  BY <1>4, <1>5
<1>7. PICK v : v = a \o y
  OBVIOUS
<1>8. /\ v \in Seq(T) /\ Len(v) = Len(a) + k
      /\ \A i \in 1..Len(a) : v[i] = a[i]
      /\ \A i \in 1..k : v[Len(a) + i] = y[i]
  <2>1. v \in Seq(T) /\ Len(v) = Len(a) + Len(y)
    BY <1>7
  <2>2. \A i \in 1..Len(a) : v[i] = a[i]
    BY <1>7
  <2>3. \A i \in 1..Len(y) : v[Len(a) + i] = y[i]
    BY <1>7
  <2>4. QED
    BY <1>3, <2>1, <2>2, <2>3
<1>9. ASSUME NEW i \in 1..(Len(a) + k) PROVE u[i] = v[i]
  <2>1. CASE i \in 1..Len(a)
    BY <1>4, <1>6, <1>8, <2>1
  <2>2. CASE i \notin 1..Len(a)
    <3>1. PICK j \in 1..k : i = Len(a) + j
      <4>1. i - Len(a) \in 1..k /\ i = Len(a) + (i - Len(a))
        BY <1>4, <2>2
      <4>2. QED
        BY <4>1
    <3>2. j \in 1..Len(b)
      BY <1>4
    <3>3. QED
      BY <1>3, <1>4, <1>6, <1>8, <3>1, <3>2, ZenonT(60)
  <2>3. QED
    BY <2>1, <2>2
<1>10. u = v
  BY <1>6, <1>8, <1>9, SeqEqual
<1>11. QED
  BY <1>1, <1>2, <1>5, <1>7, <1>10

\* Where the blank line has arrived, so have all the lines, as they were sent.
LEMMA PartWithBlank ==
    ASSUME NEW s \in StartUnits, s.unit = "status" => s.value \in Nat,
           NEW hs \in Seq(HeaderLines), NEW bs \in Seq(ByteUnits),
           NEW w, w = Wire(s, hs, bs), NEW part \in Parts(w),
           Blank \in Range(part)
    PROVE  \E k \in 0..Len(bs) : part = Wire(s, hs, SubSeq(bs, 1, k))
<1>1. /\ DOMAIN part = 1..Len(part) /\ Len(part) \in Nat /\ Len(part) <= Len(w)
      /\ Len(w) = Len(hs) + 2 + Len(bs)
      /\ \A i \in 1..Len(part) : i = 1 => part[i] \in StartUnits \union {Garbled}
      /\ \A i \in 1..Len(part) : i > 1 /\ i <= Len(hs) + 1 =>
            \/ part[i] = Garbled
            \/ part[i] \in HeaderLines /\ part[i].name = hs[i - 1].name
      /\ Len(part) >= Len(hs) + 2 => part = SubSeq(w, 1, Len(part))
  BY PartUnits
<1>2. Blank \notin StartUnits /\ Blank \notin HeaderLines /\ Blank # Garbled
  BY DEF StartUnits, HeaderLines, Blank, Garbled
<1>3. w \in Seq(Units) /\ Len(hs) \in Nat /\ Len(bs) \in Nat
  BY WireRead
<1>4. HeaderLines \subseteq Units /\ ByteUnits \subseteq Units /\ Blank \in Units /\ s \in Units
  BY DEF Units
<1> HIDE DEF Units, StartUnits, HeaderLines, ByteUnits, Blank, Garbled
<1>5. PICK i \in 1..Len(part) : part[i] = Blank
  BY <1>1 DEF Range
<1>6. i # 1 /\ ~ (i > 1 /\ i <= Len(hs) + 1)
  BY <1>1, <1>2, <1>5
<1>7. Len(part) >= Len(hs) + 2
  <2>1. PICK p \in Nat, a \in Nat : p = Len(part) /\ a = Len(hs)
    BY <1>1, <1>3
  <2>2. i \in 1..p /\ i # 1 /\ ~ (i > 1 /\ i <= a + 1)
    BY <1>5, <1>6, <2>1
  <2>3. p >= a + 2
    BY <2>2
  <2>4. QED
    BY <2>1, <2>3, SMTT(30)
<1>8. part = SubSeq(w, 1, Len(part))
  BY <1>1, <1>7
<1>9. PICK k \in 0..Len(bs) : Len(part) = Len(hs) + 2 + k
  <2>1. PICK p \in Nat, a \in Nat, b \in Nat : p = Len(part) /\ a = Len(hs) /\ b = Len(bs)
    BY <1>1, <1>3
  <2>2. p >= a + 2 /\ p <= a + 2 + b
    BY <1>1, <1>7, <2>1
  <2>3. p - (a + 2) \in 0..b /\ p = a + 2 + (p - (a + 2))
    BY <2>2
  <2>4. QED
    BY <2>1, <2>3
<1>10. hs \in Seq(Units) /\ bs \in Seq(Units) /\ <<Blank>> \in Seq(Units) /\ <<s>> \in Seq(Units)
  BY <1>4
<1>11. PICK a \in Seq(Units) : a = hs \o <<Blank>> /\ Len(a) = Len(hs) + 1
  <2>1. hs \o <<Blank>> \in Seq(Units) /\ Len(hs \o <<Blank>>) = Len(hs) + 1
    BY <1>10
  <2>2. QED
    BY <2>1
<1>12. PICK x \in Seq(Units) : x = a \o bs /\ Len(x) = Len(hs) + 1 + Len(bs)
  <2>1. a \o bs \in Seq(Units) /\ Len(a \o bs) = Len(a) + Len(bs)
    BY <1>10
  <2>2. QED
    BY <1>11, <2>1
<1>13. SubSeq(x, 1, Len(a) + k) = a \o SubSeq(bs, 1, k)
  BY <1>10, <1>12, BeginningOfConcat, SMTT(30)
<1>14. SubSeq(<<s>> \o x, 1, 1 + (Len(a) + k)) = <<s>> \o SubSeq(x, 1, Len(a) + k)
  <2>1. Len(a) + k \in 0..Len(x) /\ Len(<<s>>) = 1
    BY <1>3, <1>11, <1>12
  <2>2. QED
    BY <1>10, <2>1, BeginningOfConcat, SMTT(30)
<1>15. 1 + (Len(a) + k) = Len(part)
  BY <1>3, <1>9, <1>11
<1>16. w = <<s>> \o x /\ Wire(s, hs, SubSeq(bs, 1, k)) = <<s>> \o (a \o SubSeq(bs, 1, k))
  BY <1>11, <1>12, Zenon DEF Wire
<1>17. QED
  BY <1>8, <1>13, <1>14, <1>15, <1>16, Zenon

\* The blank line of a wire is behind its headers.
LEMMA BlankAt ==
    ASSUME NEW s \in StartUnits, NEW hs \in Seq(HeaderLines), NEW bs \in Seq(ByteUnits),
           NEW w, w = Wire(s, hs, bs)
    PROVE  w[Len(hs) + 2] = Blank
<1>1. HeaderLines \subseteq Units /\ ByteUnits \subseteq Units /\ Blank \in Units /\ s \in Units
  BY DEF Units
<1> HIDE DEF Units, StartUnits, HeaderLines, ByteUnits, Blank
<1>2. hs \in Seq(Units) /\ bs \in Seq(Units) /\ <<Blank>> \in Seq(Units) /\ <<s>> \in Seq(Units)
  BY <1>1
<1>3. QED
  BY <1>2 DEF Wire

\* The head of what has arrived: its headers are the first ones that were sent,
\* the last of them possibly cut short.
HeadOf(part, hs) ==
    /\ part[1] \in StartUnits
    /\ Headers(part) \in Seq(HeaderLines)
    /\ \A i \in 1..Len(Headers(part)) :
            i \in 1..Len(hs) /\ Headers(part)[i].name = hs[i].name
    /\ Rest(part) \in Seq(ByteUnits)

\* A head that parses has the headers that were sent, as far as they arrived.
LEMMA PartHead ==
    ASSUME NEW s \in StartUnits, s.unit = "status" => s.value \in Nat,
           NEW hs \in Seq(HeaderLines), NEW bs \in Seq(ByteUnits),
           NEW w, w = Wire(s, hs, bs), NEW part \in Parts(w), HeadParses(part)
    PROVE  HeadOf(part, hs)
<1>1. /\ DOMAIN part = 1..Len(part) /\ Len(part) \in Nat /\ Len(part) <= Len(w)
      /\ Len(w) = Len(hs) + 2 + Len(bs)
      /\ \A i \in 1..Len(part) : i = 1 => part[i] \in StartUnits \union {Garbled}
      /\ \A i \in 1..Len(part) : i > 1 /\ i <= Len(hs) + 1 =>
            \/ part[i] = Garbled
            \/ part[i] \in HeaderLines /\ part[i].name = hs[i - 1].name
      /\ Len(part) >= Len(hs) + 2 => part = SubSeq(w, 1, Len(part))
  BY PartUnits
<1>2. w \in Seq(Units) /\ HeadEnd(w) = Len(hs) + 2 /\ Len(hs) \in Nat
  BY WireRead
<1> HIDE DEF Units, StartUnits, HeaderLines, ByteUnits, Blank, Garbled
<1>3. CASE Blank \in Range(part)
  <2>1. PICK k \in 0..Len(bs) : part = Wire(s, hs, SubSeq(bs, 1, k))
    BY <1>3, PartWithBlank
  <2>2. PICK c \in Seq(ByteUnits) : c = SubSeq(bs, 1, k)
    <3>1. SubSeq(bs, 1, k) \in Seq(ByteUnits)
      OBVIOUS
    <3>2. QED
      BY <3>1
  <2>3. part = Wire(s, hs, c)
    BY <2>1, <2>2, Zenon
  <2>4. part[1] = s /\ Headers(part) = hs /\ Rest(part) = c
    <3> HIDE DEF Parts, HeadParses, Wire
    <3>1. QED
      BY <2>3, WireRead, ZenonT(60)
  <2>5. QED
    BY <2>4 DEF HeadOf
<1>4. CASE Blank \notin Range(part)
  <2>1. HeadEnd(part) = Len(part) + 1
    <3>1. {i \in DOMAIN part : part[i] = Blank} = {}
      BY <1>4 DEF Range
    <3>2. QED
      BY <3>1 DEF HeadEnd
  <2>2. part # <<>> /\ \A i \in 1..Len(part) : part[i] # Garbled
    <3>1. (Len(part) + 1) - 1 = Len(part)
      BY <1>1
    <3>2. QED
      BY <2>1, <3>1 DEF HeadParses
  <2>3. part \in Seq(Range(part))
    BY <1>2, PartShape
  <2>4. Len(part) # 0
    BY <2>2, <2>3
  <2>5. Len(part) <= Len(hs) + 1
    <3>1. SUFFICES ASSUME Len(part) >= Len(hs) + 2 PROVE FALSE
      BY <1>1, <1>2
    <3>2. PICK p \in Nat, h \in Nat : p = Len(part) /\ h = Len(hs) /\ p <= Len(w) /\ p >= h + 2
      BY <1>1, <1>2, <3>1
    <3>3. part[h + 2] = w[h + 2]
      <4>1. h + 2 \in 1..p
        BY <3>2
      <4>2. SubSeq(w, 1, p)[h + 2] = w[h + 2]
        BY <1>2, <3>2, <4>1
      <4>3. QED
        BY <1>1, <3>1, <3>2, <4>2
    <3>4. w[h + 2] = Blank
      BY <3>2, BlankAt
    <3>5. h + 2 \in DOMAIN part
      BY <1>1, <3>2
    <3>6. QED
      BY <1>4, <3>3, <3>4, <3>5 DEF Range
  <2>6. part[1] \in StartUnits
    <3>1. 1 \in 1..Len(part)
      BY <1>1, <2>4
    <3>2. QED
      BY <1>1, <2>2, <3>1
  <2>7. PICK x : x = SubSeq(part, 2, Len(part))
    OBVIOUS
  <2>8. Headers(part) = x
    <3>1. (Len(part) + 1) - 1 = Len(part)
      BY <1>1
    <3>2. QED
      BY <2>1, <2>7, <3>1, Zenon DEF Headers
  <2>9. x \in Seq(Range(part)) /\ Len(x) = Len(part) - 1
        /\ \A i \in 1..(Len(part) - 1) : x[i] = part[i + 1]
    BY <1>1, <2>3, <2>4, <2>7
  <2>10. ASSUME NEW i \in 1..Len(x)
         PROVE  x[i] \in HeaderLines /\ i \in 1..Len(hs) /\ x[i].name = hs[i].name
    <3>1. PICK j \in 1..Len(part) : j = i + 1 /\ j > 1 /\ j <= Len(hs) + 1 /\ j - 1 = i
      BY <1>1, <1>2, <2>5, <2>9
    <3>2. x[i] = part[j]
      BY <2>9, <3>1
    <3>3. part[j] # Garbled
      BY <2>2
    <3>4. part[j] \in HeaderLines /\ part[j].name = hs[j - 1].name
      BY <1>1, <3>1, <3>3
    <3>5. i \in 1..Len(hs)
      BY <1>2, <3>1
    <3>6. QED
      BY <3>1, <3>2, <3>4, <3>5
  <2>11. x \in Seq(HeaderLines)
    <3>1. Range(x) \subseteq HeaderLines
      <4>1. DOMAIN x = 1..Len(x)
        BY <2>9
      <4>2. QED
        BY <2>10, <4>1 DEF Range
    <3>2. x \in Seq(Range(x))
      BY <2>9, SeqOfRange
    <3>3. QED
      BY <3>1, <3>2, SeqMonotonic
  <2>12. Rest(part) = <<>>
    <3>1. Rest(part) = SubSeq(part, (Len(part) + 1) + 1, Len(part))
      BY <2>1, Zenon DEF Rest
    <3>2. QED
      BY <1>1, <2>3, <3>1
  <2>13. Rest(part) \in Seq(ByteUnits)
    BY <2>12
  <2>14. QED
    BY <2>6, <2>8, <2>10, <2>11, <2>13 DEF HeadOf
<1>5. QED
  BY <1>3, <1>4

\* Taking a body yields a message or an error.
LEMMA TakeBodyType ==
    ASSUME NEW part, NEW hs, HeadOf(part, hs), NEW n \in Nat,
           TakeBody(part, n) # Error
    PROVE  /\ TakeBody(part, n) \in Messages
           /\ TakeBody(part, n).headers = Headers(part)
<1>1. PICK rs \in Seq(ByteUnits) : rs = Rest(part)
  BY DEF HeadOf
<1>2. ~ (Len(rs) < n)
  BY <1>1 DEF TakeBody
<1>3. TakeBody(part, n) = Message(part[1].value, Headers(part), [i \in 1..n |-> rs[i].value])
  BY <1>1, <1>2 DEF TakeBody
<1>4. part[1].value \in Text \union Nat
  BY DEF HeadOf, StartUnits
<1>5. [i \in 1..n |-> rs[i].value] \in Seq(Text)
  <2>1. \A i \in 1..n : i \in 1..Len(rs)
    BY <1>2
  <2>2. \A i \in 1..Len(rs) : rs[i] \in ByteUnits
    OBVIOUS
  <2>3. \A u \in ByteUnits : u.value \in Text
    BY DEF ByteUnits
  <2>4. \A i \in 1..n : rs[i].value \in Text
    BY <2>1, <2>2, <2>3
  <2>5. QED
    BY <2>4
<1>6. Headers(part) \in Seq(HeaderLines)
  BY DEF HeadOf
<1> HIDE DEF HeaderLines
<1>7. QED
  BY <1>3, <1>4, <1>5, <1>6 DEF Message, Messages

\* A body of the length of the message's, read from a wire that may have been
\* cut in the body, is the message or an error, and no error on the whole wire.
LEMMA BodyRead ==
    ASSUME NEW m \in Messages, NEW bs, bs = [i \in DOMAIN m.body |-> Byte(m.body[i])],
           NEW s \in StartUnits, s.value = m.start, NEW k \in 0..Len(bs),
           NEW part, part = Wire(s, m.headers, SubSeq(bs, 1, k))
    PROVE  /\ Headers(part) = m.headers /\ part # <<>> /\ HeadParses(part)
           /\ TakeBody(part, Len(m.body)) # Error => TakeBody(part, Len(m.body)) = m
           /\ k = Len(bs) => TakeBody(part, Len(m.body)) = m /\ Len(Rest(part)) = Len(m.body)
<1>1. /\ bs \in Seq(ByteUnits) /\ Len(bs) = Len(m.body)
      /\ BytesOf(bs, Len(m.body)) = m.body
      /\ m = Message(m.start, m.headers, m.body)
      /\ m.headers \in Seq(HeaderLines)
  BY WireOfMessage, Zenon
<1> HIDE DEF Messages, StartUnits, HeaderLines, ByteUnits
<1>2. PICK n \in Nat : n = Len(m.body) /\ n = Len(bs)
  BY <1>1
<1>3. PICK c \in Seq(ByteUnits) : /\ c = SubSeq(bs, 1, k) /\ Len(c) = k
                                  /\ k = n => c = bs
  <2>1. SubSeq(bs, 1, k) \in Seq(ByteUnits) /\ Len(SubSeq(bs, 1, k)) = k
    BY <1>1
  <2>2. k = n => SubSeq(bs, 1, k) = bs
    BY <1>1, <1>2
  <2>3. QED
    BY <2>1, <2>2
<1>4. part = Wire(s, m.headers, c)
  BY <1>3, Zenon
<1>5. /\ Headers(part) = m.headers /\ part # <<>> /\ HeadParses(part) /\ Rest(part) = c
  <2> HIDE DEF Wire
  <2>1. QED
    BY <1>1, <1>4, WireRead
<1>6. TakeBody(part, n) = IF Len(c) < n THEN Error
                          ELSE Message(s.value, m.headers, [i \in 1..n |-> c[i].value])
  <2> HIDE DEF Wire
  <2>1. QED
    BY <1>1, <1>4, WireBody
<1>7. ASSUME k = n PROVE TakeBody(part, n) = m
  <2>1. c = bs /\ ~ (Len(c) < n)
    BY <1>2, <1>3, <1>7
  <2>2. TakeBody(part, n) = Message(m.start, m.headers, [i \in 1..n |-> bs[i].value])
    BY <1>6, <2>1
  <2>3. [i \in 1..n |-> bs[i].value] = m.body
    BY <1>1, <1>2, Zenon DEF BytesOf
  <2>4. QED
    BY <1>1, <2>2, <2>3, Zenon
<1>8. ASSUME TakeBody(part, n) # Error PROVE TakeBody(part, n) = m
  <2>1. ~ (Len(c) < n)
    BY <1>6, <1>8
  <2>2. k = n
    BY <1>2, <1>3, <2>1
  <2>3. QED
    BY <1>7, <2>2
<1>9. k = Len(bs) => Len(Rest(part)) = n
  BY <1>2, <1>3, <1>5
<1>10. QED
  BY <1>2, <1>5, <1>7, <1>8, <1>9

\* The length a request asks for, and the one a response does.
LEMMA BodyLength ==
    ASSUME NEW m \in Messages, Framed(m), NEW part, Headers(part) = m.headers,
           part # <<>>, HeadParses(part)
    PROVE  /\ HasLength(m.headers) \/ m.body = <<>>
                => ParseRequest(part) = TakeBody(part, Len(m.body))
           /\ HasLength(m.headers) \/ Len(Rest(part)) = Len(m.body)
                => ParseResponse(part) = TakeBody(part, Len(m.body))
<1>1. Len(<<>>) = 0
  OBVIOUS
<1>2. HasLength(m.headers) => HeaderValue(m.headers, "content-length") = Len(m.body)
  BY DEF Framed
<1>3. ASSUME HasLength(m.headers) \/ m.body = <<>>
      PROVE  ParseRequest(part) = TakeBody(part, Len(m.body))
  BY <1>1, <1>2, <1>3, Zenon DEF ParseRequest
<1>4. ASSUME HasLength(m.headers) \/ Len(Rest(part)) = Len(m.body)
      PROVE  ParseResponse(part) = TakeBody(part, Len(m.body))
  BY <1>2, <1>4, Zenon DEF ParseResponse
<1>5. QED
  BY <1>3, <1>4

\* A whole wire is read as the message it carries.
LEMMA WholeRead ==
    ASSUME NEW m \in Messages, Framed(m)
    PROVE  /\ HasLength(m.headers) \/ m.body = <<>> => ParseRequest(RequestWire(m)) = m
           /\ ParseResponse(ResponseWire(m)) = m
           /\ Headers(RequestWire(m)) = m.headers
<1>1. PICK bs : bs = [i \in DOMAIN m.body |-> Byte(m.body[i])]
  OBVIOUS
<1>2. /\ bs \in Seq(ByteUnits) /\ Start(m.start) \in StartUnits /\ Start(m.start).value = m.start
      /\ Status(m.start) \in StartUnits /\ Status(m.start).value = m.start
      /\ RequestWire(m) = Wire(Start(m.start), m.headers, bs)
      /\ ResponseWire(m) = Wire(Status(m.start), m.headers, bs)
  BY <1>1, WireOfMessage, Zenon
<1>3. PICK k \in 0..Len(bs) : k = Len(bs) /\ SubSeq(bs, 1, k) = bs
  <2>1. Len(bs) \in 0..Len(bs) /\ SubSeq(bs, 1, Len(bs)) = bs
    BY <1>2
  <2>2. QED
    BY <2>1
<1> HIDE DEF Messages, StartUnits, HeaderLines, ByteUnits, Wire, Start, Status
<1>4. PICK rq : rq = RequestWire(m) /\ rq = Wire(Start(m.start), m.headers, SubSeq(bs, 1, k))
  BY <1>2, <1>3, Zenon
<1>5. PICK rs : rs = ResponseWire(m) /\ rs = Wire(Status(m.start), m.headers, SubSeq(bs, 1, k))
  BY <1>2, <1>3, Zenon
<1>6. /\ Headers(rq) = m.headers /\ rq # <<>> /\ HeadParses(rq)
      /\ TakeBody(rq, Len(m.body)) = m
  BY <1>1, <1>2, <1>3, <1>4, BodyRead
<1>7. /\ Headers(rs) = m.headers /\ rs # <<>> /\ HeadParses(rs)
      /\ TakeBody(rs, Len(m.body)) = m /\ Len(Rest(rs)) = Len(m.body)
  BY <1>1, <1>2, <1>3, <1>5, BodyRead
<1>8. HasLength(m.headers) \/ m.body = <<>> => ParseRequest(rq) = m
  BY <1>6, BodyLength, Zenon
<1>9. ParseResponse(rs) = m
  BY <1>7, BodyLength, Zenon
<1>10. QED
  BY <1>4, <1>5, <1>6, <1>8, <1>9, Zenon

\* What has arrived of a request is read as some message, and once its blank
\* line has arrived as no other than itself.
LEMMA RequestRead ==
    ASSUME NEW m \in Messages, NEW part \in Parts(RequestWire(m)),
           ParseRequest(part).result = "message"
    PROVE  /\ ParseRequest(part) \in Messages
           /\ /\ Framed(m) /\ Blank \in Range(part)
              /\ HasLength(m.headers) \/ m.body = <<>>
              => ParseRequest(part) = m
<1>1. PICK bs : bs = [i \in DOMAIN m.body |-> Byte(m.body[i])]
  OBVIOUS
<1>2. PICK s : s = Start(m.start)
  OBVIOUS
<1>3. /\ bs \in Seq(ByteUnits) /\ s \in StartUnits /\ s.value = m.start /\ s.unit = "start"
      /\ m.headers \in Seq(HeaderLines) /\ RequestWire(m) = Wire(s, m.headers, bs)
  BY <1>1, <1>2, WireOfMessage, Zenon
<1>4. s.unit = "status" => s.value \in Nat
  BY <1>3
<1>5. ParseRequest(part) # Error /\ ParseRequest(part) # None
  BY DEF Error, None
<1>6. part # <<>> /\ HeadParses(part)
  BY <1>5, Zenon DEF ParseRequest
<1> HIDE DEF Messages, StartUnits, HeaderLines, ByteUnits, Wire, Parts, HeadParses
<1>7. PICK w : w = Wire(s, m.headers, bs) /\ part \in Parts(w)
  BY <1>3, Zenon
<1>8. HeadOf(part, m.headers)
  BY <1>3, <1>4, <1>6, <1>7, PartHead, Zenon
<1>9. PICK n \in Nat : ParseRequest(part) = TakeBody(part, n)
  <2>1. Headers(part) \in Seq(HeaderLines)
    BY <1>8 DEF HeadOf
  <2>2. CASE HasLength(Headers(part))
    <3>1. HeaderValue(Headers(part), "content-length") \in Nat
      BY <2>1, <2>2, LengthType
    <3>2. QED
      BY <1>6, <2>2, <3>1, Zenon DEF ParseRequest
  <2>3. CASE ~HasLength(Headers(part))
    <3>1. ParseRequest(part) = TakeBody(part, 0)
      BY <1>6, <2>3, Zenon DEF ParseRequest
    <3>2. QED
      BY <3>1
  <2>4. QED
    BY <2>2, <2>3
<1>10. ParseRequest(part) \in Messages
  BY <1>5, <1>8, <1>9, TakeBodyType, Zenon
<1>11. ASSUME Framed(m), Blank \in Range(part), HasLength(m.headers) \/ m.body = <<>>
       PROVE  ParseRequest(part) = m
  <2>1. PICK k \in 0..Len(bs) : part = Wire(s, m.headers, SubSeq(bs, 1, k))
    BY <1>3, <1>4, <1>7, <1>11, PartWithBlank, ZenonT(60)
  <2>2. /\ Headers(part) = m.headers
        /\ TakeBody(part, Len(m.body)) # Error => TakeBody(part, Len(m.body)) = m
    BY <1>1, <1>3, <2>1, BodyRead
  <2>3. ParseRequest(part) = TakeBody(part, Len(m.body))
    BY <1>6, <1>11, <2>2, BodyLength, Zenon
  <2>4. QED
    BY <1>5, <2>2, <2>3, Zenon
<1>12. QED
  BY <1>10, <1>11

\* What has arrived of a response is read as a message with the first of its
\* headers, and, once its blank line has arrived and if it has a length, as no
\* other than itself.
LEMMA ResponseRead ==
    ASSUME NEW m \in Messages, m.start \in Nat, NEW part \in Parts(ResponseWire(m)),
           ParseResponse(part) # Error
    PROVE  /\ ParseResponse(part) \in Messages
           /\ \A i \in 1..Len(ParseResponse(part).headers) :
                /\ i \in 1..Len(m.headers)
                /\ ParseResponse(part).headers[i].name = m.headers[i].name
           /\ Framed(m) /\ Blank \in Range(part) /\ HasLength(m.headers)
              => ParseResponse(part) = m
<1>1. PICK bs : bs = [i \in DOMAIN m.body |-> Byte(m.body[i])]
  OBVIOUS
<1>2. PICK s : s = Status(m.start)
  OBVIOUS
<1>3. /\ bs \in Seq(ByteUnits) /\ s \in StartUnits /\ s.value = m.start
      /\ m.headers \in Seq(HeaderLines) /\ ResponseWire(m) = Wire(s, m.headers, bs)
  BY <1>1, <1>2, WireOfMessage, Zenon
<1>4. s.unit = "status" => s.value \in Nat
  BY <1>3
<1>6. part # <<>> /\ HeadParses(part)
  <2>1. HeadParses(part)
    BY Zenon DEF ParseResponse
  <2>2. QED
    BY <2>1, Zenon DEF HeadParses
<1> HIDE DEF Messages, StartUnits, HeaderLines, ByteUnits, Wire, Parts, HeadParses
<1>7. PICK w : w = Wire(s, m.headers, bs) /\ part \in Parts(w)
  BY <1>3, Zenon
<1>8. HeadOf(part, m.headers)
  BY <1>3, <1>4, <1>6, <1>7, PartHead, Zenon
<1>9. PICK n \in Nat : ParseResponse(part) = TakeBody(part, n)
  <2>1. Headers(part) \in Seq(HeaderLines) /\ Rest(part) \in Seq(ByteUnits)
    BY <1>8 DEF HeadOf
  <2>2. CASE HasLength(Headers(part))
    <3>1. HeaderValue(Headers(part), "content-length") \in Nat
      BY <2>1, <2>2, LengthType
    <3>2. QED
      BY <1>6, <2>2, <3>1, Zenon DEF ParseResponse
  <2>3. CASE ~HasLength(Headers(part))
    <3>1. Len(Rest(part)) \in Nat
      BY <2>1
    <3>2. QED
      BY <1>6, <2>3, <3>1, Zenon DEF ParseResponse
  <2>4. QED
    BY <2>2, <2>3
<1>10. ParseResponse(part) \in Messages /\ ParseResponse(part).headers = Headers(part)
  BY <1>8, <1>9, TakeBodyType, Zenon
<1>11. \A i \in 1..Len(Headers(part)) :
            i \in 1..Len(m.headers) /\ Headers(part)[i].name = m.headers[i].name
  BY <1>8, Zenon DEF HeadOf
<1>12. ASSUME Framed(m), Blank \in Range(part), HasLength(m.headers)
       PROVE  ParseResponse(part) = m
  <2>1. PICK k \in 0..Len(bs) : part = Wire(s, m.headers, SubSeq(bs, 1, k))
    BY <1>3, <1>4, <1>7, <1>12, PartWithBlank
  <2>2. /\ Headers(part) = m.headers
        /\ TakeBody(part, Len(m.body)) # Error => TakeBody(part, Len(m.body)) = m
    BY <1>1, <1>3, <2>1, BodyRead
  <2>3. ParseResponse(part) = TakeBody(part, Len(m.body))
    BY <1>6, <1>12, <2>2, BodyLength, Zenon
  <2>4. QED
    BY <2>2, <2>3, Zenon
<1>13. QED
  BY <1>10, <1>11, <1>12, Zenon

-----------------------------------------------------------------------------
\* The headers the gateway and reqwest write themselves are headers.
LEMMA OwnHeaders ==
    /\ \A n \in Nat : Header("content-length", n) \in HeaderLines
    /\ \A v \in Text : /\ Header("connection", v) \in HeaderLines
                       /\ Header("onced-status", v) \in HeaderLines
                       /\ Header("host", v) \in HeaderLines
                       /\ Header("accept", v) \in HeaderLines
    /\ \A n, v : Header(n, v).name = n /\ Header(n, v).value = v
<1>1. ASSUME NEW n \in Nat PROVE Header("content-length", n) \in HeaderLines
  BY DEF Header, HeaderLines
<1>2. {"connection", "onced-status", "host", "accept"} \subseteq Range(NameOrder) \ {"content-length"}
  BY HttpAssumption
<1>3. ASSUME NEW v \in Text
      PROVE  /\ Header("connection", v) \in HeaderLines
             /\ Header("onced-status", v) \in HeaderLines
             /\ Header("host", v) \in HeaderLines
             /\ Header("accept", v) \in HeaderLines
  BY <1>2 DEF Header, HeaderLines
<1>4. ASSUME NEW n, NEW v PROVE Header(n, v).name = n /\ Header(n, v).value = v
  BY DEF Header
<1>5. QED
  BY <1>1, <1>3, <1>4

\* A message with other headers.
LEMMA WithHeaders ==
    ASSUME NEW m \in Messages, NEW hs \in Seq(HeaderLines), NEW x,
           x = [m EXCEPT !.headers = hs]
    PROVE  /\ x \in Messages /\ x.result = "message" /\ x.start = m.start
           /\ x.body = m.body /\ x.headers = hs
<1> HIDE DEF HeaderLines
<1>1. QED
  BY DEF Messages

\* A message with another target and other headers.
Rewritten(m, t, hs) == [m EXCEPT !.start = t, !.headers = hs]

\* It is a message too.
LEMMA WithStart ==
    ASSUME NEW m \in Messages, NEW hs \in Seq(HeaderLines), NEW t \in Text \union Nat,
           NEW x, x = Rewritten(m, t, hs)
    PROVE  /\ x \in Messages /\ x.result = "message" /\ x.start = t
           /\ x.body = m.body /\ x.headers = hs
<1> HIDE DEF HeaderLines
<1>1. QED
  BY DEF Messages, Rewritten

\* Headers that are chunked have the header that says so.
LEMMA ChunkedProperty ==
    ASSUME NEW hs \in Seq(HeaderLines)
    PROVE  Chunked(hs) <=> \E h \in Range(hs) : h.name = "transfer-encoding"
BY DEF Chunked, Positions, Range

\* Headers that begin with the length of the body, or have none where there is no
\* body, and have no other names than the given ones.
Announces(own, names, m) ==
    /\ \A h \in Range(own) : h.name \in names
    /\ \/ /\ own # <<>> /\ own[1].name = "content-length"
          /\ own[1].value = Len(m.body)
       \/ m.body = <<>> /\ \A h \in Range(own) : h.name # "content-length"

\* y is m with another target, and with own in place of the headers of some names.
Reframes(m, t, names, own, y) ==
    /\ m \in Messages /\ t \in Text \union Nat
    /\ "content-length" \in names /\ "transfer-encoding" \notin names
    /\ own \in Seq(HeaderLines) /\ Announces(own, names, m)
    /\ y = Rewritten(m, t, Without(m.headers, names) \o own)

\* A backend reads y from its bytes, and y has the body and the other headers of m.
ReadAsWritten(m, t, names, y) ==
    /\ ~Chunked(m.headers) => BackendReads(RequestWire(y)) = y
    /\ y.result = "message" /\ y.start = t /\ y.body = m.body
    /\ Without(y.headers, names) = Without(m.headers, names)

\* A request whose headers of some names were replaced, the length of the body
\* among them, is read as it was written.
LEMMA RequestReframed ==
    ASSUME NEW m, NEW t, NEW names, NEW own, NEW y, Reframes(m, t, names, own, y)
    PROVE  ReadAsWritten(m, t, names, y)
<1>0. /\ m \in Messages /\ t \in Text \union Nat
      /\ "content-length" \in names /\ "transfer-encoding" \notin names
      /\ own \in Seq(HeaderLines) /\ Announces(own, names, m)
      /\ y = Rewritten(m, t, Without(m.headers, names) \o own)
  BY Zenon DEF Reframes
<1>1. m.headers \in Seq(HeaderLines) /\ m.body \in Seq(Text)
  BY <1>0, Zenon DEF Messages
<1>2. PICK hs \in Seq(HeaderLines) : hs = Without(m.headers, names)
  BY <1>1, WithoutProperty
<1>3. (\A h \in Range(hs) : h.name \notin names) /\ Range(hs) \subseteq Range(m.headers)
  BY <1>1, <1>2, WithoutProperty
<1>4. PICK n \in Nat : n = Len(m.body) /\ (m.body = <<>> => n = 0)
  BY <1>0, <1>1
<1> HIDE DEF HeaderLines
<1>5. PICK all \in Seq(HeaderLines) :
        /\ all = hs \o own /\ Len(all) = Len(hs) + Len(own)
        /\ \A i \in 1..Len(own) : all[Len(hs) + i] = own[i]
        /\ \A i \in 1..Len(hs) : all[i] = hs[i]
        /\ \A h \in Range(all) : h \in Range(hs) \/ h \in Range(own)
  <2>1. hs \o own \in Seq(HeaderLines) /\ Len(hs \o own) = Len(hs) + Len(own)
    BY <1>0
  <2>2. /\ \A i \in 1..Len(own) : (hs \o own)[Len(hs) + i] = own[i]
        /\ \A i \in 1..Len(hs) : (hs \o own)[i] = hs[i]
    BY <1>0
  <2>3. Range(hs \o own) = Range(hs) \union Range(own)
    BY <1>0, RangeConcatenation
  <2>4. QED
    BY <2>1, <2>2, <2>3
<1>6. /\ y \in Messages /\ y.result = "message" /\ y.start = t /\ y.body = m.body
      /\ y.headers = all
  <2>1. y = Rewritten(m, t, all)
    BY <1>0, <1>2, <1>5, Zenon
  <2>2. QED
    BY <1>0, <2>1, WithStart
<1>7. Framed(y) /\ (HasLength(y.headers) \/ y.body = <<>>)
  <2>1. CASE own # <<>> /\ own[1].name = "content-length" /\ own[1].value = Len(m.body)
    <3>1. PICK i \in 1..Len(all) : i = Len(hs) + 1 /\ all[i] = own[1]
      BY <1>5, <2>1, SMTT(30)
    <3>2. ASSUME NEW j \in 1..Len(all), j < i PROVE all[j].name # "content-length"
      <4>1. j \in 1..Len(hs) /\ j \in DOMAIN hs
        BY <3>1, <3>2
      <4>2. all[j] \in Range(hs)
        BY <1>5, <4>1 DEF Range
      <4>3. QED
        BY <1>0, <1>3, <4>2
    <3>3. all[i].name = "content-length" /\ all[i].value = n
      BY <1>4, <2>1, <3>1
    <3>4. HeaderValue(all, "content-length") = n
      BY <3>2, <3>3, FirstValue
    <3>5. HasLength(y.headers)
      BY <1>6, <3>4, HttpAssumption DEF HasLength
    <3>6. Framed(y)
      BY <1>4, <1>6, <3>4, Zenon DEF Framed
    <3>7. QED
      BY <3>5, <3>6
  <2>2. CASE m.body = <<>> /\ \A h \in Range(own) : h.name # "content-length"
    <3>1. \A h \in Range(all) : h.name # "content-length"
      BY <1>0, <1>3, <1>5, <2>2
    <3>2. Positions(all, "content-length") = {}
      BY <3>1 DEF Positions, Range
    <3>3. HeaderValue(all, "content-length") = Missing
      BY <3>2, Zenon DEF HeaderValue
    <3>4. ~HasLength(y.headers)
      BY <1>6, <3>3 DEF HasLength
    <3>5. QED
      BY <1>6, <2>2, <3>4, Zenon DEF Framed
  <2>3. QED
    BY <1>0, <2>1, <2>2 DEF Announces
<1>8. ParseRequest(RequestWire(y)) = y /\ Headers(RequestWire(y)) = all
  BY <1>6, <1>7, WholeRead, Zenon
<1>9. ~Chunked(m.headers) => ~Chunked(all)
  <2>1. \A h \in Range(all) : h.name = "transfer-encoding" => h \in Range(m.headers)
    BY <1>0, <1>3, <1>5 DEF Announces
  <2>2. QED
    BY <1>1, <2>1, ChunkedProperty
<1>10. Without(all, names) = hs
  <2>1. Without(hs, names) = hs
    BY <1>3, WithoutNone
  <2>2. Without(own, names) = <<>>
    BY <1>0, WithoutAll DEF Announces
  <2>3. Without(all, names) = Without(hs, names) \o Without(own, names)
    BY <1>0, <1>5, WithoutConcat
  <2>4. hs \o <<>> = hs
    OBVIOUS
  <2>5. QED
    BY <2>1, <2>2, <2>3, <2>4, Zenon
<1>11. QED
  BY <1>2, <1>6, <1>8, <1>9, <1>10, Zenon DEF BackendReads, ReadAsWritten

\* The two headers that write_request sets.
LEMMA RequestWritten ==
    ASSUME NEW m \in Messages
    PROVE  \E y :
        /\ ~Chunked(m.headers) => BackendReads(WriteRequest(m)) = y
        /\ y.result = "message" /\ y.start = m.start /\ y.body = m.body
        /\ Without(y.headers, Framing) = Without(m.headers, Framing)
<1>1. m.body \in Seq(Text) /\ m.headers \in Seq(HeaderLines) /\ m.start \in Text \union Nat
  BY Zenon DEF Messages
<1>2. PICK n \in Nat : n = Len(m.body)
  BY <1>1
<1>3. Close \in Text
  BY HttpAssumption
<1>4. PICK own \in Seq(HeaderLines) :
        /\ own = <<Header("content-length", n), Header("connection", Close)>>
        /\ Announces(own, Framing, m)
  <2>1. PICK g \in HeaderLines : /\ g = Header("content-length", n)
                                 /\ g.name = "content-length" /\ g.value = n
    BY OwnHeaders
  <2>2. PICK h \in HeaderLines : h = Header("connection", Close) /\ h.name = "connection"
    BY <1>3, OwnHeaders
  <2> HIDE DEF HeaderLines
  <2>3. /\ <<g, h>> \in Seq(HeaderLines) /\ <<g, h>> # <<>> /\ <<g, h>>[1] = g
        /\ Range(<<g, h>>) = {g, h}
    BY DEF Range
  <2>4. QED
    BY <1>2, <2>1, <2>2, <2>3 DEF Framing, Announces
<1>5. PICK y : y = Rewritten(m, m.start, Without(m.headers, Framing) \o own)
  OBVIOUS
<1>6. y = [m EXCEPT !.headers = Without(m.headers, Framing) \o own]
  BY <1>5 DEF Messages, Rewritten
<1>7. WriteRequest(m) = RequestWire(y)
  BY <1>2, <1>4, <1>6, Zenon DEF WriteRequest
<1>8. "content-length" \in Framing /\ "transfer-encoding" \notin Framing
  BY DEF Framing
<1>9. /\ ~Chunked(m.headers) => BackendReads(RequestWire(y)) = y
      /\ y.result = "message" /\ y.start = m.start /\ y.body = m.body
      /\ Without(y.headers, Framing) = Without(m.headers, Framing)
  <2>1. Reframes(m, m.start, Framing, own, y)
    BY <1>1, <1>4, <1>5, <1>8, Zenon DEF Reframes
  <2>2. ReadAsWritten(m, m.start, Framing, y)
    BY <2>1, RequestReframed, Zenon
  <2>3. QED
    BY <2>2, Zenon DEF ReadAsWritten
<1>10. QED
  BY <1>7, <1>9

\* The headers that reqwest sets, which are those forward leaves to it.
LEMMA ReqwestWritten ==
    ASSUME NEW m \in Messages, m.start \in Text
    PROVE  \E y :
        /\ ~Chunked(m.headers) => BackendReads(WriteReqwest(m)) = y
        /\ y.result = "message" /\ y.start = Normalized[m.start] /\ y.body = m.body
        /\ Without(y.headers, ReqwestSets(m)) = Without(m.headers, ReqwestSets(m))
<1>1. m.body \in Seq(Text) /\ m.headers \in Seq(HeaderLines)
  BY Zenon DEF Messages
<1>2. PICK n \in Nat : n = Len(m.body)
  BY <1>1
<1>3. Normalized[m.start] \in Text \union Nat
  BY TransportAssumption
<1>4. PICK names : names = ReqwestSets(m)
  OBVIOUS
<1>5. /\ "content-length" \in names /\ "transfer-encoding" \notin names /\ "host" \in names
      /\ Positions(m.headers, "accept") = {} => "accept" \in names
  BY <1>4 DEF ReqwestSets, Framing
<1>6. PICK g \in HeaderLines : /\ g = Header("content-length", n)
                               /\ g.name = "content-length" /\ g.value = n
  BY OwnHeaders
<1>7. PICK h \in HeaderLines : h = Header("host", FromReqwest) /\ h.name = "host"
  BY TransportAssumption, OwnHeaders
<1>8. PICK a \in HeaderLines : a = Header("accept", FromReqwest) /\ a.name = "accept"
  BY TransportAssumption, OwnHeaders
<1> HIDE DEF HeaderLines
<1>9. PICK rest \in Seq(HeaderLines) :
        /\ rest = IF Positions(m.headers, "accept") = {} THEN <<h, a>> ELSE <<h>>
        /\ \A x \in Range(rest) : x.name \in names /\ x.name # "content-length"
  <2>1. /\ <<h, a>> \in Seq(HeaderLines) /\ Range(<<h, a>>) = {h, a}
        /\ <<h>> \in Seq(HeaderLines) /\ Range(<<h>>) = {h}
    BY DEF Range
  <2>2. QED
    BY <1>5, <1>7, <1>8, <2>1
<1>10. PICK own \in Seq(HeaderLines) :
        /\ own = (IF m.body = <<>> THEN <<>> ELSE <<g>>) \o rest
        /\ Announces(own, names, m)
  <2>1. CASE m.body = <<>>
    <3>1. <<>> \o rest = rest
      OBVIOUS
    <3>2. QED
      BY <1>9, <2>1, <3>1 DEF Announces
  <2>2. CASE m.body # <<>>
    <3>1. /\ <<g>> \o rest \in Seq(HeaderLines) /\ <<g>> \o rest # <<>>
          /\ (<<g>> \o rest)[1] = g
      OBVIOUS
    <3>2. <<g>> \in Seq(HeaderLines) /\ Range(<<g>>) = {g}
      BY DEF Range
    <3>3. Range(<<g>> \o rest) = {g} \union Range(rest)
      <4>1. Range(<<g>> \o rest) = Range(<<g>>) \union Range(rest)
        BY <3>2, RangeConcatenation, ZenonT(60)
      <4>2. QED
        BY <3>2, <4>1, Zenon
    <3>4. QED
      BY <1>2, <1>5, <1>6, <1>9, <2>2, <3>1, <3>3 DEF Announces
  <2>3. QED
    BY <2>1, <2>2
<1>11. ReqwestOwn(m) = own
  BY <1>2, <1>6, <1>7, <1>8, <1>9, <1>10, Zenon DEF ReqwestOwn
<1>12. PICK y : y = Rewritten(m, Normalized[m.start], Without(m.headers, names) \o own)
  OBVIOUS
<1>13. WriteReqwest(m) = RequestWire(y)
  BY <1>4, <1>11, <1>12, Zenon DEF WriteReqwest, Rewritten
<1>14. /\ ~Chunked(m.headers) => BackendReads(RequestWire(y)) = y
       /\ y.result = "message" /\ y.start = Normalized[m.start] /\ y.body = m.body
       /\ Without(y.headers, names) = Without(m.headers, names)
  <2>1. Reframes(m, Normalized[m.start], names, own, y)
    BY <1>3, <1>5, <1>10, <1>12, Zenon DEF Reframes
  <2>2. ReadAsWritten(m, Normalized[m.start], names, y)
    BY <2>1, RequestReframed, Zenon
  <2>3. QED
    BY <2>2, Zenon DEF ReadAsWritten
<1>15. QED
  BY <1>4, <1>13, <1>14

\* A response is read from what write_response wrote with the length of its
\* body among its headers.
LEMMA ResponseWritten ==
    ASSUME NEW m \in Messages, NEW x, x = ParseResponse(WriteResponse(m))
    PROVE  /\ x \in Messages /\ x.start = m.start /\ x.body = m.body
           /\ Range(x.headers) = {Header("content-length", Len(m.body))}
                                    \union {h \in Range(m.headers) : h.name # "content-length"}
<1>1. m.headers \in Seq(HeaderLines) /\ m.body \in Seq(Text)
  BY Zenon DEF Messages
<1>2. PICK hs \in Seq(HeaderLines) : hs = Without(m.headers, {"content-length"})
  BY <1>1, WithoutProperty
<1>3. Range(hs) = {h \in Range(m.headers) : h.name # "content-length"}
  BY <1>1, <1>2, WithoutProperty
<1>4. PICK n \in Nat : n = Len(m.body)
  BY <1>1
<1>5. PICK g \in HeaderLines : /\ g = Header("content-length", n)
                               /\ g.name = "content-length" /\ g.value = n
  BY OwnHeaders
<1> HIDE DEF HeaderLines
<1>6. PICK own \in Seq(HeaderLines) : own = <<g>> /\ Range(own) = {g}
  <2>1. <<g>> \in Seq(HeaderLines)
    OBVIOUS
  <2>2. Range(<<g>>) = {g}
    BY DEF Range
  <2>3. QED
    BY <2>1, <2>2
<1>7. PICK all \in Seq(HeaderLines) :
        all = own \o hs /\ Len(all) = Len(hs) + 1 /\ all[1] = g
  <2>1. own \o hs \in Seq(HeaderLines)
    OBVIOUS
  <2>2. Len(own \o hs) = Len(hs) + 1 /\ (own \o hs)[1] = g
    BY <1>6
  <2>3. QED
    BY <2>1, <2>2
<1>8. HeaderValue(all, "content-length") = n
  <2>1. PICK i \in 1..Len(all) : i = 1
    BY <1>7
  <2>2. \A j \in 1..Len(all) : ~ (j < i)
    BY <2>1
  <2>3. all[i].name = "content-length" /\ all[i].value = n
    BY <1>5, <1>7, <2>1
  <2>4. QED
    BY <2>2, <2>3, FirstValue
<1>9. PICK y : y = [m EXCEPT !.headers = all]
  OBVIOUS
<1>10. /\ y \in Messages /\ y.start = m.start /\ y.body = m.body /\ y.headers = all
  BY <1>9, WithHeaders
<1>11. WriteResponse(m) = ResponseWire(y)
  <2>1. all = <<Header("content-length", Len(m.body))>> \o Without(m.headers, {"content-length"})
    BY <1>2, <1>4, <1>5, <1>6, <1>7, Zenon
  <2>2. QED
    BY <1>9, <2>1, Zenon DEF WriteResponse
<1>12. Framed(y)
  BY <1>4, <1>8, <1>10, Zenon DEF Framed
<1>13. x = y
  BY <1>10, <1>11, <1>12, WholeRead, Zenon
<1>14. Range(all) = {g} \union Range(hs)
  <2>1. Range(own \o hs) = Range(own) \union Range(hs)
    BY RangeConcatenation
  <2>2. QED
    BY <1>6, <1>7, <2>1, Zenon
<1>15. QED
  BY <1>3, <1>4, <1>5, <1>10, <1>13, <1>14, Zenon

\* hyper's strings hold some of the headers.
LEMMA VisibleProperty ==
    ASSUME NEW hs \in Seq(HeaderLines)
    PROVE  Visible(hs) \in Seq(HeaderLines) /\ Range(Visible(hs)) \subseteq Range(hs)
<1> DEFINE S == {h \in Range(hs) : h.value # Opaque}
<1> HIDE DEF S
<1>1. Kept(hs, S) \in Seq(HeaderLines) /\ Range(Kept(hs, S)) = Range(hs) \intersect S
  BY KeptRange
<1>2. Range(Kept(hs, S)) \subseteq Range(hs)
  BY <1>1
<1>3. QED
  BY <1>1, <1>2 DEF Visible, S

\* No two headers have the same name.
OneOfAName(headers) ==
    \A g, h \in Range(headers) : g.name = h.name => g = h

\* The headers come out of the cache as they went into it, in another order.
LEMMA OutcomeReturned ==
    ASSUME NEW m \in Messages, OneOfAName(m.headers), NEW x,
           x = FromOutcome(ToOutcome(m))
    PROVE  /\ x \in Messages /\ x.start = m.start /\ x.body = m.body
           /\ Range(x.headers) = Range(m.headers)
<1>1. /\ m.headers \in Seq(HeaderLines) /\ m.body \in Seq(Text)
      /\ m.start \in Text \union Nat
  BY Zenon DEF Messages
<1>2. PICK hs \in Seq(HeaderLines) : hs = m.headers
  BY <1>1
<1>3. DOMAIN hs = 1..Len(hs) /\ Len(hs) \in Nat
  OBVIOUS
<1>4. \A h \in HeaderLines : h.name \in Range(NameOrder) /\ h = Header(h.name, h.value)
  <2>1. ASSUME NEW h \in HeaderLines
        PROVE  h.name \in Range(NameOrder) /\ h = Header(h.name, h.value)
    BY HttpAssumption DEF HeaderLines, Header
  <2>2. QED
    BY <2>1
<1> HIDE DEF HeaderLines
<1>5. \A i \in DOMAIN hs : hs[i] \in HeaderLines /\ hs[i] \in Range(hs)
  BY <1>3 DEF Range
<1> DEFINE Names == {h.name : h \in Range(hs)}
           f == [n \in Names |-> LastValue(hs, n)]
<1>6. /\ ToOutcome(m).status = m.start /\ ToOutcome(m).body = m.body
      /\ ToOutcome(m).headers = f
  <2>1. ToOutcome(m) = [status |-> m.start, body |-> m.body, headers |-> f]
    BY <1>2, Zenon DEF ToOutcome
  <2> HIDE DEF f
  <2>2. QED
    BY <2>1
<1>7. ASSUME NEW n \in Names PROVE Header(n, f[n]) \in Range(hs)
  <2>1. PICK i \in DOMAIN hs : hs[i].name = n
    BY DEF Range
  <2>2. Positions(hs, n) \in SUBSET Nat /\ i \in Positions(hs, n)
    BY <1>3, <2>1 DEF Positions
  <2>3. \A j \in Positions(hs, n) : j <= Len(hs)
    BY <1>3 DEF Positions
  <2>4. PICK j \in Positions(hs, n) : j = Max(Positions(hs, n))
    BY <1>3, <2>2, <2>3, MaxProperty
  <2>5. j \in DOMAIN hs /\ hs[j].name = n
    BY <2>4 DEF Positions
  <2>6. f[n] = hs[j].value
    BY <2>4 DEF LastValue
  <2> HIDE DEF f
  <2>7. Header(n, f[n]) = hs[j]
    BY <1>4, <1>5, <2>5, <2>6
  <2>8. QED
    BY <1>5, <2>5, <2>7
<1>8. ASSUME NEW h \in Range(hs) PROVE h.name \in Names /\ h = Header(h.name, f[h.name])
  <2>1. PICK n \in Names : n = h.name
    OBVIOUS
  <2> HIDE DEF f, Names
  <2>2. PICK g \in Range(hs) : g = Header(n, f[n]) /\ g.name = n
    BY <1>7, OwnHeaders
  <2>3. g = h
    BY <1>2, <2>1, <2>2 DEF OneOfAName
  <2>4. QED
    BY <2>1, <2>2, <2>3
<1>9. Names \subseteq Range(NameOrder)
  <2>1. ASSUME NEW h \in Range(hs) PROVE h.name \in Range(NameOrder)
    BY <1>4, <1>5 DEF Range
  <2>2. QED
    BY <2>1
<1>10. DOMAIN f = Names
  OBVIOUS
<1> HIDE DEF f, Names
<1>11. PICK names \in Seq(STRING) : names = Kept(NameOrder, Names) /\ Range(names) = Names
  <2>1. NameOrder \in Seq(STRING)
    BY HttpAssumption
  <2>2. /\ Kept(NameOrder, Names) \in Seq(STRING)
        /\ Range(Kept(NameOrder, Names)) = Range(NameOrder) \intersect Names
    BY <2>1, KeptRange
  <2>3. QED
    BY <1>9, <2>2
<1>12. PICK back : back = [i \in DOMAIN names |-> Header(names[i], f[names[i]])]
  OBVIOUS
<1>13. x = Message(m.start, back, m.body)
  BY <1>6, <1>10, <1>11, <1>12, Zenon DEF FromOutcome
<1>14. \A i \in DOMAIN names : names[i] \in Names
  BY <1>11 DEF Range
<1>15. Range(back) = Range(hs)
  <2>1. ASSUME NEW g \in Range(back) PROVE g \in Range(hs)
    <3>1. PICK i \in DOMAIN names : g = Header(names[i], f[names[i]])
      BY <1>12 DEF Range
    <3>2. QED
      BY <1>7, <1>14, <3>1
  <2>2. ASSUME NEW h \in Range(hs) PROVE h \in Range(back)
    <3>1. PICK n \in Names : n = h.name /\ h = Header(n, f[n])
      BY <1>8
    <3>2. PICK i \in DOMAIN names : names[i] = n
      BY <1>11 DEF Range
    <3>3. i \in DOMAIN back /\ back[i] = h
      BY <1>12, <3>1, <3>2
    <3>4. QED
      BY <3>3 DEF Range
  <2>3. QED
    BY <2>1, <2>2
<1>16. back \in Seq(HeaderLines)
  <2>1. \A i \in DOMAIN names : Header(names[i], f[names[i]]) \in HeaderLines
    <3>1. Range(hs) \subseteq HeaderLines
      BY <1>5 DEF Range
    <3>2. QED
      BY <1>7, <1>14, <3>1
  <2>2. DOMAIN names = 1..Len(names) /\ Len(names) \in Nat
    BY <1>11
  <2>3. QED
    BY <1>12, <2>1, <2>2
<1>17. /\ x \in Messages /\ x.start = m.start /\ x.body = m.body /\ x.headers = back
  BY <1>1, <1>13, <1>16 DEF Message, Messages
<1>18. QED
  BY <1>2, <1>15, <1>17, Zenon

\* What a client sees of the headers of a message, its tag apart.
Seen(hyper, headers, n) ==
    LET all == IF hyper THEN headers
               ELSE {Header("content-length", n)}
                        \union {h \in headers : h.name # "content-length"}
    IN  {h \in all : h.name # "onced-status"}

\* What a client receives of a message that was tagged.
LEMMA TaggedDelivered ==
    ASSUME NEW m \in Messages, NEW v \in Text
    PROVE  /\ Delivered(Tag(m, v)).start = m.start
           /\ Delivered(Tag(m, v)).body = m.body
           /\ Range(Without(Delivered(Tag(m, v)).headers, {"onced-status"}))
                = Seen(transport = "hyper", Range(m.headers), Len(m.body))
<1>1. m.headers \in Seq(HeaderLines)
  BY Zenon DEF Messages
<1>2. PICK g \in HeaderLines : g = Header("onced-status", v) /\ g.name = "onced-status"
  BY OwnHeaders
<1> HIDE DEF HeaderLines
<1>3. PICK hs \in Seq(HeaderLines) :
        hs = Append(m.headers, g) /\ Range(hs) = Range(m.headers) \union {g}
  <2>1. Append(m.headers, g) \in Seq(HeaderLines)
    BY <1>1
  <2>2. Range(Append(m.headers, g)) = Range(m.headers) \union {g}
    BY <1>1, RangeOfAppend
  <2>3. QED
    BY <2>1, <2>2
<1>4. PICK t : t = Tag(m, v)
  OBVIOUS
<1>5. t = [m EXCEPT !.headers = hs]
  BY <1>2, <1>3, <1>4, Zenon DEF Tag
<1>6. t \in Messages /\ t.start = m.start /\ t.body = m.body /\ t.headers = hs
  BY <1>5, WithHeaders
<1>7. PICK d : d = Delivered(t)
  OBVIOUS
<1>8. CASE transport = "hyper"
  <2>1. d = t
    BY <1>7, <1>8 DEF Delivered
  <2>2. Range(Without(hs, {"onced-status"})) = {h \in Range(hs) : h.name # "onced-status"}
    BY WithoutProperty
  <2>3. @ = Seen(TRUE, Range(m.headers), Len(m.body))
    BY <1>2, <1>3 DEF Seen
  <2>4. Range(Without(d.headers, {"onced-status"}))
            = Seen(transport = "hyper", Range(m.headers), Len(m.body))
    BY <1>6, <1>8, <2>1, <2>2, <2>3
  <2>5. QED
    BY <1>4, <1>6, <1>7, <2>1, <2>4, Zenon
<1>9. CASE transport # "hyper"
  <2>1. d = ParseResponse(WriteResponse(t))
    BY <1>7, <1>9 DEF Delivered
  <2>2. /\ d \in Messages /\ d.start = t.start /\ d.body = t.body
        /\ Range(d.headers) = {Header("content-length", Len(t.body))}
                \union {h \in Range(t.headers) : h.name # "content-length"}
    BY <1>6, <2>1, ResponseWritten, Zenon
  <2>3. d.headers \in Seq(HeaderLines)
    BY <2>2, Zenon DEF Messages
  <2>4. Range(Without(d.headers, {"onced-status"}))
            = {h \in Range(d.headers) : h.name # "onced-status"}
    BY <2>3, WithoutProperty
  <2>5. @ = Seen(FALSE, Range(m.headers), Len(m.body))
    BY <1>2, <1>3, <1>6, <2>2 DEF Seen
  <2>6. Range(Without(d.headers, {"onced-status"}))
            = Seen(transport = "hyper", Range(m.headers), Len(m.body))
    BY <1>9, <2>4, <2>5
  <2>7. QED
    BY <1>4, <1>6, <1>7, <2>2, <2>6, Zenon
<1>10. QED
  BY <1>8, <1>9

-----------------------------------------------------------------------------
\* The reply has been received, and can be read.
ReplyHolds ==
    /\ reply \in Replies
    /\ outbound \in Parts(ResponseWire(reply))

StagesHold ==
    /\ stage \in {"reading", "dispatched"} => executed = None
    /\ stage = "dispatched" => request \in Messages
    /\ stage = "replied" => ReplyHolds
    /\ stage # "answered" => outcome = None /\ replayed = None

\* What is cached is what was received, and served, and a retry is answered
\* with what is cached.
CacheHolds ==
    /\ outcome # None =>
        /\ ReplyHolds
        /\ Received # Error
        /\ outcome = ToOutcome(Received)
        /\ served = Delivered(Tag(Received, Created))
    /\ replayed # None =>
        /\ outcome # None
        /\ replayed = Delivered(Tag(FromOutcome(outcome), Replayed))

\* The request that was sent, and what the router has of it.
SentHolds ==
    /\ sent \in RequestsSent
    /\ transport = "hyper" =>
        /\ ~Chunked(sent.headers)
        /\ request # None => request.start = sent.start

TransportInvariant ==
    /\ SentHolds
    /\ inbound \in Parts(RequestWire(sent))
    /\ StagesHold
    /\ CacheHolds
    /\ DispatchedAsSent
    /\ ExecutedAsDispatched

\* What the transport reads of a reply is a message with headers of the reply,
\* and has its status and body if the reply has a length and its head arrived.
LEMMA ReceivedProperty ==
    ASSUME ReplyHolds, Received # Error
    PROVE  /\ Received \in Messages
           /\ Unrepeated(reply.headers) => OneOfAName(Received.headers)
           /\ HasLength(reply.headers) /\ Blank \in Range(outbound)
              => Received.start = reply.start /\ Received.body = reply.body
<1>1. /\ reply \in Messages /\ reply.start \in Nat /\ Framed(reply)
      /\ outbound \in Parts(ResponseWire(reply))
  BY TransportAssumption, Zenon DEF ReplyHolds
<1>2. reply.headers \in Seq(HeaderLines)
  BY <1>1, Zenon DEF Messages
<1>3. PICK hs \in Seq(HeaderLines) : hs = reply.headers /\ DOMAIN hs = 1..Len(hs)
  <2> HIDE DEF HeaderLines
  <2>1. QED
    BY <1>2
<1> HIDE DEF HeaderLines
<1>4. ASSUME Unrepeated(hs) PROVE OneOfAName(hs)
  BY <1>4 DEF Unrepeated, OneOfAName, Range
<1>5. ASSUME NEW x, x = ParseResponse(outbound), x # Error
      PROVE  /\ x \in Messages
             /\ Unrepeated(hs) => OneOfAName(x.headers)
             /\ HasLength(reply.headers) /\ Blank \in Range(outbound) => x = reply
  <2>3. /\ x \in Messages
        /\ \A i \in 1..Len(x.headers) :
                i \in 1..Len(hs) /\ x.headers[i].name = hs[i].name
        /\ HasLength(reply.headers) /\ Blank \in Range(outbound) => x = reply
    BY <1>1, <1>3, <1>5, ResponseRead, Zenon
  <2>4. x.headers \in Seq(HeaderLines)
    BY <2>3, Zenon DEF Messages
  <2>5. DOMAIN x.headers = 1..Len(x.headers)
    BY <2>4
  <2>6. ASSUME Unrepeated(hs) PROVE OneOfAName(x.headers)
    <3>1. ASSUME NEW i \in DOMAIN x.headers, NEW j \in DOMAIN x.headers,
                 x.headers[i].name = x.headers[j].name
          PROVE  i = j
      <4>1. /\ i \in DOMAIN hs /\ j \in DOMAIN hs /\ hs[i].name = hs[j].name
        BY <1>3, <2>3, <2>5, <3>1
      <4>2. QED
        BY <2>6, <4>1 DEF Unrepeated
    <3>2. ASSUME NEW g \in Range(x.headers), NEW h \in Range(x.headers), g.name = h.name
          PROVE  g = h
      <4>1. PICK i \in DOMAIN x.headers, j \in DOMAIN x.headers :
                g = x.headers[i] /\ h = x.headers[j]
        BY DEF Range
      <4>2. QED
        BY <3>1, <3>2, <4>1
    <3>3. QED
      BY <3>2 DEF OneOfAName
  <2>7. QED
    BY <2>3, <2>6, Zenon
<1>6. CASE transport # "hyper"
  <2>1. Received = ParseResponse(outbound)
    BY <1>6, Zenon DEF Received
  <2>2. QED
    BY <1>3, <1>5, <2>1, Zenon
<1>7. CASE transport = "hyper"
  <2>1. PICK x : x = ParseResponse(outbound)
    OBVIOUS
  <2>2. x # Error /\ Received = [x EXCEPT !.headers = Visible(x.headers)]
    BY <1>7, <2>1, Zenon DEF Received
  <2>3. /\ x \in Messages
        /\ Unrepeated(hs) => OneOfAName(x.headers)
        /\ HasLength(reply.headers) /\ Blank \in Range(outbound) => x = reply
    BY <1>5, <2>1, <2>2
  <2>4. x.headers \in Seq(HeaderLines)
    BY <2>3, Zenon DEF Messages
  <2>5. PICK vs \in Seq(HeaderLines) :
            vs = Visible(x.headers) /\ Range(vs) \subseteq Range(x.headers)
    BY <2>4, VisibleProperty, Zenon
  <2>6. /\ Received \in Messages /\ Received.start = x.start /\ Received.body = x.body
        /\ Received.headers = vs
    BY <2>2, <2>3, <2>5, WithHeaders
  <2>7. OneOfAName(x.headers) => OneOfAName(vs)
    BY <2>5 DEF OneOfAName
  <2>8. QED
    BY <1>3, <2>3, <2>6, <2>7, Zenon
<1>8. QED
  BY <1>6, <1>7

\* What holds of the cache holds as long as nothing it is about changes.
LEMMA CacheUnchanged ==
    ASSUME CacheHolds, UNCHANGED <<transport, reply, outbound, outcome, served, replayed>>
    PROVE  CacheHolds'
BY DEF CacheHolds, ReplyHolds, Received, Delivered

\* Where nothing is cached, nothing has to hold of the cache.
LEMMA CacheEmpty ==
    ASSUME outcome' = None, replayed' = None
    PROVE  CacheHolds'
BY DEF CacheHolds

\* Before anything has arrived, the invariant holds.
LEMMA TransportInitHolds == TransportInit => TransportInvariant
<1> SUFFICES ASSUME TransportInit PROVE TransportInvariant
  OBVIOUS
<1>1. sent \in RequestsSent /\ sent \in Messages /\ SentHolds
  <2>1. sent \in RequestsSent /\ (transport = "hyper" => ~Chunked(sent.headers))
    BY Zenon DEF TransportInit, HyperRequests
  <2>2. request = None
    BY DEF TransportInit
  <2>3. QED
    BY TransportAssumption, <2>1, <2>2, Zenon DEF SentHolds
<1>2. <<>> \in Parts(RequestWire(sent))
  <2>1. PICK bs : bs = [i \in DOMAIN sent.body |-> Byte(sent.body[i])]
    OBVIOUS
  <2>2. /\ bs \in Seq(ByteUnits) /\ Start(sent.start) \in StartUnits
        /\ sent.headers \in Seq(HeaderLines)
        /\ RequestWire(sent) = Wire(Start(sent.start), sent.headers, bs)
    BY <1>1, <2>1, WireOfMessage, Zenon
  <2>3. PICK w \in Seq(Units) : w = RequestWire(sent)
    BY <2>2, WireRead, Zenon
  <2> HIDE DEF Units
  <2>4. 0 \in 0..Len(w) /\ SubSeq(w, 1, 0) = <<>>
    OBVIOUS
  <2>5. QED
    BY <2>3, <2>4 DEF Parts
<1>3. inbound = <<>> /\ stage = "reading" /\ executed = None /\ outcome = None
      /\ replayed = None /\ request = None
  BY DEF TransportInit
<1>4. StagesHold
  BY <1>3 DEF StagesHold
<1>5. CacheHolds
  BY <1>3 DEF CacheHolds
<1>6. DispatchedAsSent /\ ExecutedAsDispatched
  BY <1>3 DEF DispatchedAsSent, ExecutedAsDispatched
<1>7. QED
  BY <1>1, <1>2, <1>3, <1>4, <1>5, <1>6, Zenon DEF TransportInvariant

\* The invariant when more of the request arrives, ...
LEMMA DeliverStep ==
    ASSUME TransportInvariant, Deliver
    PROVE  TransportInvariant'
<1>2. /\ UNCHANGED <<transport, sent, hungUp, stage, request, executed, reply, outbound>>
      /\ UNCHANGED <<outcome, served, replayed>>
  BY DEF Deliver, backendVars
<1>1. SentHolds' /\ inbound' \in Parts(RequestWire(sent'))
  BY <1>2, Zenon DEF TransportInvariant, Deliver, SentHolds
<1>3. StagesHold'
  BY <1>2 DEF TransportInvariant, StagesHold, ReplyHolds
<1>4. CacheHolds'
  BY <1>2, CacheUnchanged DEF TransportInvariant
<1>5. DispatchedAsSent' /\ ExecutedAsDispatched'
  BY <1>2 DEF TransportInvariant, DispatchedAsSent, ExecutedAsDispatched
<1>6. QED
  BY <1>1, <1>3, <1>4, <1>5, Zenon DEF TransportInvariant

\* ... when the client goes away, ...
LEMMA HangUpStep ==
    ASSUME TransportInvariant, HangUp
    PROVE  TransportInvariant'
<1>1. /\ UNCHANGED <<transport, sent, inbound, stage, request, executed, reply, outbound>>
      /\ UNCHANGED <<outcome, served, replayed>> /\ hungUp'
  BY DEF HangUp, backendVars
<1>2. SentHolds' /\ inbound' \in Parts(RequestWire(sent'))
  BY <1>1, Zenon DEF TransportInvariant, SentHolds
<1>3. StagesHold'
  BY <1>1 DEF TransportInvariant, StagesHold, ReplyHolds
<1>4. CacheHolds'
  BY <1>1, CacheUnchanged DEF TransportInvariant
<1>5. DispatchedAsSent' /\ ExecutedAsDispatched'
  BY <1>1 DEF TransportInvariant, DispatchedAsSent, ExecutedAsDispatched
<1>6. QED
  BY <1>2, <1>3, <1>4, <1>5, Zenon DEF TransportInvariant

\* ... and when a connection is closed without an answer.
LEMMA DropStep ==
    ASSUME TransportInvariant, stage = "reading", Drop
    PROVE  TransportInvariant'
<1>1. /\ UNCHANGED <<transport, sent, inbound, hungUp, request, executed, reply, outbound>>
      /\ UNCHANGED <<outcome, served, replayed>> /\ stage' = "dropped"
  BY DEF Drop, clientVars, backendVars
<1>2. SentHolds' /\ inbound' \in Parts(RequestWire(sent'))
  BY <1>1, Zenon DEF TransportInvariant, SentHolds
<1>3. StagesHold'
  BY <1>1 DEF TransportInvariant, StagesHold
<1>4. CacheHolds'
  BY <1>1, CacheUnchanged DEF TransportInvariant
<1>5. DispatchedAsSent' /\ ExecutedAsDispatched'
  BY <1>1 DEF TransportInvariant, DispatchedAsSent, ExecutedAsDispatched
<1>6. QED
  BY <1>2, <1>3, <1>4, <1>5, Zenon DEF TransportInvariant

\* A message is dispatched; unless the transport or the client is excused, it
\* has to be what the client sent.
LEMMA DispatchStep ==
    ASSUME TransportInvariant, stage = "reading", NEW m \in Messages, Dispatch(m),
           /\ transport # "uring" /\ ~hungUp /\ ~Chunked(sent.headers)
           /\ Visible(sent.headers) = sent.headers \/ transport # "hyper"
           => m = sent,
           transport = "hyper" => m.start = sent.start
    PROVE  TransportInvariant'
<1>1. /\ UNCHANGED <<transport, sent, inbound, hungUp, executed, reply, outbound>>
      /\ UNCHANGED <<outcome, served, replayed>> /\ stage' = "dispatched" /\ request' = m
  BY DEF Dispatch, backendVars
<1>2. SentHolds' /\ inbound' \in Parts(RequestWire(sent'))
  BY <1>1, Zenon DEF TransportInvariant, SentHolds
<1>3. StagesHold'
  BY <1>1 DEF TransportInvariant, StagesHold
<1>4. CacheHolds'
  BY <1>1, CacheUnchanged DEF TransportInvariant
<1>5. executed' = None
  BY <1>1 DEF TransportInvariant, StagesHold
<1>6. ExecutedAsDispatched'
  BY <1>5, Zenon DEF ExecutedAsDispatched
<1>7. DispatchedAsSent'
  BY <1>1, Zenon DEF DispatchedAsSent, SameRequest
<1>8. QED
  BY <1>2, <1>3, <1>4, <1>6, <1>7, Zenon DEF TransportInvariant

\* What the invariant says of the request on its way in.
LEMMA InboundProperty ==
    ASSUME TransportInvariant
    PROVE  /\ sent \in Messages /\ Framed(sent)
           /\ HasLength(sent.headers) \/ sent.body = <<>> \/ Chunked(sent.headers)
           /\ transport = "hyper" => ~Chunked(sent.headers)
           /\ inbound \in Parts(RequestWire(sent))
BY TransportAssumption, Zenon DEF TransportInvariant, SentHolds

\* handle_connection dispatches before the blank line only if the client is gone.
LEMMA ReadBlockingStep ==
    ASSUME TransportInvariant, ReadBlocking
    PROVE  TransportInvariant'
<1>1. stage = "reading" /\ transport # "hyper"
  BY DEF ReadBlocking
<1>2. \/ /\ hungUp \/ Blank \in Range(inbound)
         /\ ParseRequest(inbound).result = "message"
         /\ Dispatch(ParseRequest(inbound))
      \/ Drop
  BY Zenon DEF ReadBlocking
<1>3. CASE Drop
  BY <1>1, <1>3, DropStep
<1>4. ASSUME hungUp \/ Blank \in Range(inbound), ParseRequest(inbound).result = "message",
             Dispatch(ParseRequest(inbound))
      PROVE  TransportInvariant'
  <2>1. /\ ParseRequest(inbound) \in Messages
        /\ Blank \in Range(inbound) /\ ~Chunked(sent.headers)
           => ParseRequest(inbound) = sent
    BY <1>4, InboundProperty, RequestRead, Zenon
  <2>2. ~hungUp /\ ~Chunked(sent.headers) => ParseRequest(inbound) = sent
    BY <1>4, <2>1, Zenon
  <2>3. QED
    BY <1>1, <1>4, <2>1, <2>2, DispatchStep, Zenon
<1>5. QED
  BY <1>2, <1>3, <1>4, Zenon

\* read_request of onced-uring may dispatch any message, but a message.
LEMMA ReadUringStep ==
    ASSUME TransportInvariant, ReadUring
    PROVE  TransportInvariant'
<1>1. stage = "reading" /\ transport = "uring"
  BY DEF ReadUring
<1>2. \/ ParseRequest(inbound).result = "message" /\ Dispatch(ParseRequest(inbound))
      \/ UNCHANGED <<transport, sent, inbound, hungUp, stage, request, backendVars, outcome,
                     served, replayed>>
      \/ Drop
  BY Zenon DEF ReadUring
<1>3. CASE Drop
  BY <1>1, <1>3, DropStep
<1>4. ASSUME ParseRequest(inbound).result = "message", Dispatch(ParseRequest(inbound))
      PROVE  TransportInvariant'
  <2>1. ParseRequest(inbound) \in Messages
    BY <1>4, InboundProperty, RequestRead, Zenon
  <2>2. QED
    BY <1>1, <1>4, <2>1, DispatchStep, Zenon
<1>5. CASE UNCHANGED <<transport, sent, inbound, hungUp, stage, request, backendVars, outcome,
                       served, replayed>>
  <2>1. /\ UNCHANGED <<transport, sent, inbound, hungUp, stage, request, executed, reply>>
        /\ UNCHANGED <<outbound, outcome, served, replayed>>
    BY <1>5 DEF backendVars
  <2>2. SentHolds' /\ inbound' \in Parts(RequestWire(sent'))
    BY <2>1, Zenon DEF TransportInvariant, SentHolds
  <2>3. StagesHold'
    BY <2>1 DEF TransportInvariant, StagesHold, ReplyHolds
  <2>4. CacheHolds'
    BY <2>1, CacheUnchanged DEF TransportInvariant
  <2>5. DispatchedAsSent' /\ ExecutedAsDispatched'
    BY <2>1 DEF TransportInvariant, DispatchedAsSent, ExecutedAsDispatched
  <2>6. QED
    BY <2>2, <2>3, <2>4, <2>5, Zenon DEF TransportInvariant
<1>6. QED
  BY <1>2, <1>3, <1>4, <1>5, Zenon

\* hyper dispatches the whole request, with the headers its strings hold.
LEMMA ReadHyperStep ==
    ASSUME TransportInvariant, ReadHyper
    PROVE  TransportInvariant'
<1>1. stage = "reading" /\ transport = "hyper"
  BY DEF ReadHyper
<1>2. \/ /\ inbound = RequestWire(sent)
         /\ Dispatch([ParseRequest(inbound) EXCEPT !.headers = Visible(@)])
      \/ /\ stage' = "answered"
         /\ UNCHANGED <<clientVars, request, backendVars, outcome, replayed>>
      \/ Drop
  BY Zenon DEF ReadHyper
<1>3. CASE Drop
  BY <1>1, <1>3, DropStep
<1>4. ASSUME inbound = RequestWire(sent),
             Dispatch([ParseRequest(inbound) EXCEPT !.headers = Visible(@)])
      PROVE  TransportInvariant'
  <2>1. sent \in Messages /\ ParseRequest(inbound) = sent
    BY <1>1, <1>4, InboundProperty, WholeRead, Zenon
  <2>2. PICK m : m = [sent EXCEPT !.headers = Visible(sent.headers)]
    OBVIOUS
  <2>3. sent.headers \in Seq(HeaderLines)
    BY <2>1, Zenon DEF Messages
  <2>4. Visible(sent.headers) \in Seq(HeaderLines)
    BY <2>3, VisibleProperty, Zenon
  <2>5. m \in Messages /\ m.start = sent.start
    BY <2>1, <2>2, <2>4, WithHeaders
  <2>6. Visible(sent.headers) = sent.headers => m = sent
    <3>1. [sent EXCEPT !.headers = sent.headers] = sent
      BY <2>1 DEF Messages
    <3>2. QED
      BY <2>2, <3>1, Zenon
  <2>7. Dispatch(m)
    BY <1>4, <2>1, <2>2, Zenon
  <2>8. QED
    BY <1>1, <2>5, <2>6, <2>7, DispatchStep, Zenon
<1>5. ASSUME stage' = "answered",
             UNCHANGED <<clientVars, request, backendVars, outcome, replayed>>
      PROVE  TransportInvariant'
  <2>1. /\ UNCHANGED <<transport, sent, inbound, hungUp, request, executed, reply>>
        /\ UNCHANGED <<outbound, outcome, replayed>>
    BY <1>5 DEF clientVars, backendVars
  <2>2. SentHolds' /\ inbound' \in Parts(RequestWire(sent'))
    BY <2>1, Zenon DEF TransportInvariant, SentHolds
  <2>3. StagesHold'
    BY <1>5 DEF StagesHold
  <2>4. outcome' = None /\ replayed' = None
    BY <1>1, <2>1 DEF TransportInvariant, StagesHold
  <2>5. CacheHolds'
    BY <2>4, CacheEmpty
  <2>6. DispatchedAsSent' /\ ExecutedAsDispatched'
    BY <2>1 DEF TransportInvariant, DispatchedAsSent, ExecutedAsDispatched
  <2>7. QED
    BY <2>2, <2>3, <2>5, <2>6, Zenon DEF TransportInvariant
<1>6. QED
  BY <1>2, <1>3, <1>4, <1>5, Zenon

\* forward writes, for the backend to read, the request that was dispatched.
LEMMA ForwardStep ==
    ASSUME TransportInvariant, Forward
    PROVE  TransportInvariant'
<1>1. /\ UNCHANGED <<transport, sent, inbound, hungUp, request, reply, outbound>>
      /\ UNCHANGED <<outcome, served, replayed>>
      /\ stage = "dispatched" /\ stage' = "forwarded"
      /\ executed' = BackendReads(IF transport = "hyper" THEN WriteReqwest(request)
                                  ELSE WriteRequest(request))
  BY DEF Forward, clientVars
<1>2. SentHolds' /\ inbound' \in Parts(RequestWire(sent'))
  BY <1>1, Zenon DEF TransportInvariant, SentHolds
<1>3. StagesHold'
  BY <1>1 DEF TransportInvariant, StagesHold
<1>4. CacheHolds'
  BY <1>1, CacheUnchanged DEF TransportInvariant
<1>5. request \in Messages /\ request # None
  <2>1. request \in Messages
    BY <1>1, Zenon DEF TransportInvariant, StagesHold
  <2>2. QED
    BY <2>1 DEF Messages, None
<1>6. ExecutedAsDispatched'
  <2>1. CASE transport = "hyper"
    <3>1. request.start \in Text
      BY <1>5, <2>1, TransportAssumption, Zenon DEF TransportInvariant, SentHolds
    <3>2. PICK y :
            /\ ~Chunked(request.headers) => BackendReads(WriteReqwest(request)) = y
            /\ y.result = "message" /\ y.start = Normalized[request.start]
            /\ y.body = request.body
            /\ Without(y.headers, ReqwestSets(request))
                    = Without(request.headers, ReqwestSets(request))
      BY <1>5, <3>1, ReqwestWritten
    <3>3. ~Chunked(request.headers) => executed' = y
      BY <1>1, <2>1, <3>2, Zenon
    <3>4. QED
      BY <1>1, <2>1, <3>2, <3>3, Zenon DEF ExecutedAsDispatched
  <2>2. CASE transport # "hyper"
    <3>1. PICK y :
            /\ ~Chunked(request.headers) => BackendReads(WriteRequest(request)) = y
            /\ y.result = "message" /\ y.start = request.start
            /\ y.body = request.body
            /\ Without(y.headers, Framing) = Without(request.headers, Framing)
      BY <1>5, RequestWritten
    <3>2. ~Chunked(request.headers) => executed' = y
      BY <1>1, <2>2, <3>1, Zenon
    <3>3. QED
      BY <1>1, <2>2, <3>1, <3>2, Zenon DEF ExecutedAsDispatched
  <2>3. QED
    BY <2>1, <2>2
<1>8. DispatchedAsSent'
  BY <1>1 DEF TransportInvariant, DispatchedAsSent
<1>9. QED
  BY <1>2, <1>3, <1>4, <1>6, <1>8, Zenon DEF TransportInvariant

\* A forward that fails leaves nothing to cache.
LEMMA ForwardFailsStep ==
    ASSUME TransportInvariant, ForwardFails
    PROVE  TransportInvariant'
<1>1. /\ UNCHANGED <<transport, sent, inbound, hungUp, request, executed, reply>>
      /\ UNCHANGED <<outbound, outcome, replayed>>
      /\ stage = "dispatched" /\ stage' = "answered"
  BY DEF ForwardFails, clientVars, backendVars
<1>2. SentHolds' /\ inbound' \in Parts(RequestWire(sent'))
  BY <1>1, Zenon DEF TransportInvariant, SentHolds
<1>3. StagesHold'
  BY <1>1 DEF StagesHold
<1>4. outcome' = None /\ replayed' = None
  BY <1>1 DEF TransportInvariant, StagesHold
<1>5. CacheHolds'
  BY <1>4, CacheEmpty
<1>6. DispatchedAsSent' /\ ExecutedAsDispatched'
  BY <1>1 DEF TransportInvariant, DispatchedAsSent, ExecutedAsDispatched
<1>7. QED
  BY <1>2, <1>3, <1>5, <1>6, Zenon DEF TransportInvariant

\* The backend replies before anything is cached.
LEMMA ReplyStep ==
    ASSUME TransportInvariant, NEW r \in Replies, Reply(r)
    PROVE  TransportInvariant'
<1>1. /\ UNCHANGED <<transport, sent, inbound, hungUp, request, executed>>
      /\ UNCHANGED <<outcome, served, replayed>>
      /\ stage = "forwarded" /\ stage' = "replied" /\ reply' = r
      /\ outbound' \in Parts(ResponseWire(r))
  BY DEF Reply, clientVars
<1>2. SentHolds' /\ inbound' \in Parts(RequestWire(sent'))
  BY <1>1, Zenon DEF TransportInvariant, SentHolds
<1>3. outcome' = None /\ replayed' = None
  BY <1>1 DEF TransportInvariant, StagesHold
<1>4. StagesHold'
  BY <1>1, <1>3 DEF StagesHold, ReplyHolds
<1>5. CacheHolds'
  BY <1>3, CacheEmpty
<1>6. DispatchedAsSent' /\ ExecutedAsDispatched'
  BY <1>1 DEF TransportInvariant, DispatchedAsSent, ExecutedAsDispatched
<1>7. QED
  BY <1>2, <1>4, <1>5, <1>6, Zenon DEF TransportInvariant

\* complete_phase caches what it has received, and serves it with a tag.
LEMMA CompletePhaseStep ==
    ASSUME TransportInvariant, CompletePhase
    PROVE  TransportInvariant'
<1>1. /\ UNCHANGED <<transport, sent, inbound, hungUp, request, executed, reply, outbound>>
      /\ UNCHANGED replayed /\ stage = "replied" /\ stage' = "answered"
  BY DEF CompletePhase, clientVars, backendVars
<1>2. \/ outcome' = outcome
      \/ /\ Received # Error /\ outcome' = ToOutcome(Received)
         /\ served' = Delivered(Tag(Received, Created))
  BY Zenon DEF CompletePhase
<1>3. SentHolds' /\ inbound' \in Parts(RequestWire(sent'))
  BY <1>1, Zenon DEF TransportInvariant, SentHolds
<1>4. StagesHold'
  BY <1>1 DEF StagesHold
<1>5. outcome = None /\ replayed' = None /\ ReplyHolds
  BY <1>1 DEF TransportInvariant, StagesHold
<1>6. CacheHolds'
  <2>1. CASE outcome' = outcome
    BY <1>5, <2>1, CacheEmpty
  <2>2. CASE /\ Received # Error /\ outcome' = ToOutcome(Received)
             /\ served' = Delivered(Tag(Received, Created))
    <3>1. Received' = Received /\ ReplyHolds'
      BY <1>1, <1>5, Zenon DEF Received, ReplyHolds
    <3>2. Delivered(Tag(Received, Created))' = Delivered(Tag(Received, Created))
      BY <1>1, <3>1, Zenon DEF Delivered
    <3>3. QED
      BY <1>5, <2>2, <3>1, <3>2, Zenon DEF CacheHolds
  <2>3. QED
    BY <1>2, <2>1, <2>2, Zenon
<1>7. DispatchedAsSent' /\ ExecutedAsDispatched'
  BY <1>1 DEF TransportInvariant, DispatchedAsSent, ExecutedAsDispatched
<1>8. QED
  BY <1>3, <1>4, <1>6, <1>7, Zenon DEF TransportInvariant

\* A retry is answered from the cache.
LEMMA RetryStep ==
    ASSUME TransportInvariant, Retry
    PROVE  TransportInvariant'
<1>1. /\ UNCHANGED <<transport, sent, inbound, hungUp, stage, request, executed, reply>>
      /\ UNCHANGED <<outbound, outcome, served>> /\ stage = "answered" /\ outcome # None
      /\ replayed' = Delivered(Tag(FromOutcome(outcome), Replayed))
  BY DEF Retry, clientVars, backendVars
<1>2. SentHolds' /\ inbound' \in Parts(RequestWire(sent'))
  BY <1>1, Zenon DEF TransportInvariant, SentHolds
<1>3. StagesHold'
  BY <1>1 DEF StagesHold
<1>4. CacheHolds'
  <2>1. /\ ReplyHolds /\ Received # Error /\ outcome = ToOutcome(Received)
        /\ served = Delivered(Tag(Received, Created))
    BY <1>1, Zenon DEF TransportInvariant, CacheHolds
  <2>2. Received' = Received /\ ReplyHolds'
    BY <1>1, <2>1, Zenon DEF Received, ReplyHolds
  <2>3. Delivered(Tag(Received, Created))' = Delivered(Tag(Received, Created))
    BY <1>1, <2>2, Zenon DEF Delivered
  <2>4. Delivered(Tag(FromOutcome(outcome), Replayed))'
            = Delivered(Tag(FromOutcome(outcome), Replayed))
    BY <1>1, Zenon DEF Delivered
  <2>5. QED
    BY <1>1, <2>1, <2>2, <2>3, <2>4, Zenon DEF CacheHolds
<1>5. DispatchedAsSent' /\ ExecutedAsDispatched'
  BY <1>1 DEF TransportInvariant, DispatchedAsSent, ExecutedAsDispatched
<1>6. QED
  BY <1>2, <1>3, <1>4, <1>5, Zenon DEF TransportInvariant

\* Every step of a transport, of a client or of a backend keeps the invariant.
LEMMA TransportStep ==
    ASSUME TransportInvariant, [TransportNext]_transportVars
    PROVE  TransportInvariant'
<1>1. CASE Deliver
  BY <1>1, DeliverStep
<1>2. CASE HangUp
  BY <1>2, HangUpStep
<1>3. CASE ReadBlocking
  BY <1>3, ReadBlockingStep
<1>4. CASE ReadUring
  BY <1>4, ReadUringStep
<1>5. CASE ReadHyper
  BY <1>5, ReadHyperStep
<1>6. CASE Forward
  BY <1>6, ForwardStep
<1>12. CASE ForwardFails
  BY <1>12, ForwardFailsStep
<1>7. ASSUME NEW r \in Replies, Reply(r) PROVE TransportInvariant'
  BY <1>7, ReplyStep
<1>8. CASE CompletePhase
  BY <1>8, CompletePhaseStep
<1>9. CASE Retry
  BY <1>9, RetryStep
<1>10. CASE UNCHANGED transportVars
  <2>1. /\ UNCHANGED <<transport, sent, inbound, hungUp, stage, request, executed, reply>>
        /\ UNCHANGED <<outbound, outcome, served, replayed>>
    BY <1>10 DEF transportVars, clientVars, backendVars
  <2>2. SentHolds' /\ inbound' \in Parts(RequestWire(sent'))
    BY <2>1, Zenon DEF TransportInvariant, SentHolds
  <2>3. StagesHold'
    BY <2>1 DEF TransportInvariant, StagesHold, ReplyHolds
  <2>4. CacheHolds'
    BY <2>1, CacheUnchanged DEF TransportInvariant
  <2>5. DispatchedAsSent' /\ ExecutedAsDispatched'
    BY <2>1 DEF TransportInvariant, DispatchedAsSent, ExecutedAsDispatched
  <2>6. QED
    BY <2>2, <2>3, <2>4, <2>5, Zenon DEF TransportInvariant
<1>11. QED
  BY <1>1, <1>2, <1>3, <1>4, <1>5, <1>6, <1>7, <1>8, <1>9, <1>10, <1>12, Zenon
  DEF TransportNext

\* The two properties of the cache follow from the invariant.
LEMMA CacheProperties ==
    ASSUME TransportInvariant
    PROVE  OutcomeWhole /\ ReplayAsServed
<1>1. OutcomeWhole
  <2> SUFFICES ASSUME outcome # None, HasLength(reply.headers), Blank \in Range(outbound)
               PROVE  outcome.status = reply.start /\ outcome.body = reply.body
    BY DEF OutcomeWhole
  <2>1. ReplyHolds /\ Received # Error /\ outcome = ToOutcome(Received)
    BY Zenon DEF TransportInvariant, CacheHolds
  <2>2. Received.start = reply.start /\ Received.body = reply.body
    BY <2>1, ReceivedProperty, Zenon
  <2>3. outcome.status = Received.start /\ outcome.body = Received.body
    BY <2>1 DEF ToOutcome
  <2>4. QED
    BY <2>2, <2>3, Zenon
<1>2. ReplayAsServed
  <2> SUFFICES ASSUME replayed # None, Unrepeated(reply.headers)
               PROVE  /\ replayed.start = served.start
                      /\ replayed.body = served.body
                      /\ Range(Without(replayed.headers, {"onced-status"}))
                            = Range(Without(served.headers, {"onced-status"}))
    BY Zenon DEF ReplayAsServed
  <2>1. /\ ReplyHolds /\ Received # Error /\ outcome = ToOutcome(Received)
        /\ served = Delivered(Tag(Received, Created))
        /\ replayed = Delivered(Tag(FromOutcome(outcome), Replayed))
    BY Zenon DEF TransportInvariant, CacheHolds
  <2>2. PICK m \in Messages : m = Received /\ OneOfAName(m.headers)
    BY <2>1, ReceivedProperty, Zenon
  <2>3. PICK x : x = FromOutcome(ToOutcome(m))
    OBVIOUS
  <2>4. /\ x \in Messages /\ x.start = m.start /\ x.body = m.body
        /\ Range(x.headers) = Range(m.headers)
    BY <2>2, <2>3, OutcomeReturned
  <2>5. Created \in Text /\ Replayed \in Text
    BY HttpAssumption
  <2>6. /\ served.start = m.start /\ served.body = m.body
        /\ Range(Without(served.headers, {"onced-status"}))
                = Seen(transport = "hyper", Range(m.headers), Len(m.body))
    BY <2>1, <2>2, <2>5, TaggedDelivered, Zenon
  <2>7. /\ replayed.start = x.start /\ replayed.body = x.body
        /\ Range(Without(replayed.headers, {"onced-status"}))
                = Seen(transport = "hyper", Range(x.headers), Len(x.body))
    BY <2>1, <2>2, <2>3, <2>4, <2>5, TaggedDelivered, Zenon
  <2>8. QED
    BY <2>4, <2>6, <2>7, Zenon
<1>3. QED
  BY <1>1, <1>2

\* The invariant holds in every reachable state.
LEMMA TransportInvariance == TransportSpec => []TransportInvariant
<1>1. TransportInvariant /\ [TransportNext]_transportVars => TransportInvariant'
  BY TransportStep
<1>2. QED
  BY TransportInitHolds, <1>1, PTL DEF TransportSpec

\* However the bytes of a request are cut into pieces, parse_request on a
\* blocking socket and hyper hand the router the request the client sent.
THEOREM SentIsDispatched == TransportSpec => []DispatchedAsSent
<1>1. TransportInvariant => DispatchedAsSent
  BY Zenon DEF TransportInvariant
<1>2. QED
  BY TransportInvariance, <1>1, PTL

\* The backend reads from what write_request or reqwest wrote the request that
\* was dispatched, whatever Content-Length and Connection the client's request
\* had, if it had no Transfer-Encoding.
THEOREM DispatchedIsExecuted == TransportSpec => []ExecutedAsDispatched
<1>1. TransportInvariant => ExecutedAsDispatched
  BY Zenon DEF TransportInvariant
<1>2. QED
  BY TransportInvariance, <1>1, PTL

\* parse_response caches no reply that was cut short behind its headers, where
\* the backend announced its length.
THEOREM OutcomesAreWhole == TransportSpec => []OutcomeWhole
<1>1. TransportInvariant => OutcomeWhole
  BY CacheProperties
<1>2. QED
  BY TransportInvariance, <1>1, PTL

\* A retry is served what the first caller was: to_outcome, from_outcome, tag
\* and the two serializers lose nothing of a reply that repeats no header.
THEOREM ReplaysAsServed == TransportSpec => []ReplayAsServed
<1>1. TransportInvariant => ReplayAsServed
  BY CacheProperties
<1>2. QED
  BY TransportInvariance, <1>1, PTL

=============================================================================
