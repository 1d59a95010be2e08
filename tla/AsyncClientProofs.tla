------------------------- MODULE AsyncClientProofs --------------------------
(***************************************************************************)
(* Proofs about AsyncClient, for any number of connections, requests,       *)
(* breaks and limits of the queues: waiting messages have their write event *)
(* armed and received bytes find their client (EventsAreSound), and bytes   *)
(* are misread only on a connection that began with a part of a message     *)
(* (GarbledIsCut).                                                          *)
(***************************************************************************)
EXTENDS AsyncClient, TLAPS

(* Sequences of units: what framing and splitting a byte stream keeps.      *)

\* A sequence of units that starts with a header: each header is followed by its
\* own rest; the last header may be alone.
Aligned(s) ==
    \A k \in Nat :
        /\ 2 * k + 1 <= Len(s) => s[2 * k + 1] = <<s[2 * k + 1][1], 1>>
        /\ 2 * k + 2 <= Len(s) => s[2 * k + 2] = <<s[2 * k + 1][1], 2>>

\* A sequence of whole messages has an even number of units.
Even(s) == \E k \in Nat : Len(s) = 2 * k

\* A number is twice its half, or one more.
LEMMA Half ==
    ASSUME NEW n \in Nat
    PROVE  \E h \in Nat : n \div 2 = h /\ ((n = 2 * h /\ n % 2 = 0) \/ (n = 2 * h + 1 /\ n % 2 = 1))
  OBVIOUS

\* Nothing at all is a sequence of messages.
LEMMA AlignedEmpty == Aligned(<<>>) /\ Even(<<>>)
<1>1. Len(<<>>) = 0
  BY Zenon
<1> QED
  BY <1>1 DEF Aligned, Even

\* What SubSeq() cuts out of a sequence, when it drops an even number of units.
LEMMA PartUnits ==
    ASSUME NEW S, NEW s \in Seq(S), NEW h \in Nat, NEW f \in Nat, f = 2 * h + 1,
           NEW n \in Nat, 2 * h <= n, n <= Len(s)
    PROVE  /\ SubSeq(s, f, n) \in Seq(S) /\ Len(SubSeq(s, f, n)) = n - 2 * h
           /\ \A i \in 1..n - 2 * h : SubSeq(s, f, n)[i] = s[2 * h + i]
  OBVIOUS

\* A part of the stream that begins with a header.
LEMMA AlignedPart ==
    ASSUME NEW S, NEW s \in Seq(S), Aligned(s), NEW h \in Nat, NEW f \in Nat, f = 2 * h + 1,
           NEW n \in Nat, 2 * h <= n, n <= Len(s)
    PROVE  SubSeq(s, f, n) \in Seq(S) /\ Len(SubSeq(s, f, n)) = n - 2 * h /\ Aligned(SubSeq(s, f, n))
<1> DEFINE p == SubSeq(s, f, n)
<1>1. p \in Seq(S) /\ Len(p) = n - 2 * h /\ \A i \in 1..n - 2 * h : p[i] = s[2 * h + i]
  BY PartUnits
<1> HIDE DEF p
<1>2. ASSUME NEW k \in Nat, 2 * k + 1 <= Len(p) PROVE p[2 * k + 1] = <<p[2 * k + 1][1], 1>>
  <2>1. p[2 * k + 1] = s[2 * (h + k) + 1] /\ h + k \in Nat /\ 2 * (h + k) + 1 <= Len(s)
    BY <1>1, <1>2
  <2>2. s[2 * (h + k) + 1] = <<s[2 * (h + k) + 1][1], 1>>
    BY <2>1, Zenon DEF Aligned
  <2> QED
    BY <2>1, <2>2, Zenon
<1>3. ASSUME NEW k \in Nat, 2 * k + 2 <= Len(p) PROVE p[2 * k + 2] = <<p[2 * k + 1][1], 2>>
  <2>1. /\ p[2 * k + 1] = s[2 * (h + k) + 1] /\ p[2 * k + 2] = s[2 * (h + k) + 2]
        /\ h + k \in Nat /\ 2 * (h + k) + 2 <= Len(s)
    <3>1. /\ 2 * k + 1 \in 1..n - 2 * h /\ 2 * k + 2 \in 1..n - 2 * h
          /\ h + k \in Nat /\ 2 * (h + k) + 2 <= Len(s)
      BY <1>1, <1>3
    <3>2. 2 * h + (2 * k + 1) = 2 * (h + k) + 1 /\ 2 * h + (2 * k + 2) = 2 * (h + k) + 2
      OBVIOUS
    <3> QED
      BY <1>1, <3>1, <3>2
  <2>2. s[2 * (h + k) + 2] = <<s[2 * (h + k) + 1][1], 2>>
    BY <2>1, Zenon DEF Aligned
  <2> QED
    BY <2>1, <2>2, Zenon
<1> QED
  BY <1>1, <1>2, <1>3, Zenon DEF Aligned, p

\* A whole message, or the first half of one, after whole messages.
LEMMA AlignedHeader ==
    ASSUME NEW S, NEW s \in Seq(S), Aligned(s), Even(s), NEW t, <<t, 1>> \in S
    PROVE  LET z == s \o << <<t, 1>> >> IN
           z \in Seq(S) /\ Len(z) = Len(s) + 1 /\ z[Len(z)] = <<t, 1>> /\ Aligned(z) /\ ~Even(z)
<1>e. PICK e \in Nat : Len(s) = 2 * e
  BY Zenon DEF Even
<1> DEFINE z == s \o << <<t, 1>> >>
<1>1. z \in Seq(S) /\ Len(z) = 2 * e + 1 /\ z[2 * e + 1] = <<t, 1>> /\ \A i \in 1..2 * e : z[i] = s[i]
  BY <1>e
<1> HIDE DEF z
<1>2. ASSUME NEW k \in Nat, 2 * k + 1 <= Len(z) PROVE z[2 * k + 1] = <<z[2 * k + 1][1], 1>>
  <2>1. CASE k = e
    BY <1>1, <2>1
  <2>2. CASE k < e
    <3>1. z[2 * k + 1] = s[2 * k + 1] /\ 2 * k + 1 <= Len(s)
      BY <1>1, <1>e, <2>2
    <3> QED
      BY <3>1, Zenon DEF Aligned
  <2> QED
    BY <1>1, <1>2, <2>1, <2>2
<1>3. ASSUME NEW k \in Nat, 2 * k + 2 <= Len(z) PROVE z[2 * k + 2] = <<z[2 * k + 1][1], 2>>
  <2>1. z[2 * k + 1] = s[2 * k + 1] /\ z[2 * k + 2] = s[2 * k + 2] /\ 2 * k + 2 <= Len(s)
    BY <1>1, <1>3, <1>e
  <2> QED
    BY <2>1, Zenon DEF Aligned
<1>4. ~Even(z)
  BY <1>1 DEF Even
<1> QED
  BY <1>e, <1>1, <1>2, <1>3, <1>4, Zenon DEF Aligned, z

\* The rest of a message after its header.
LEMMA AlignedRest ==
    ASSUME NEW S, NEW s \in Seq(S), Aligned(s), ~Even(s), <<s[Len(s)][1], 2>> \in S
    PROVE  LET z == s \o << <<s[Len(s)][1], 2>> >> IN
           z \in Seq(S) /\ Len(z) = Len(s) + 1 /\ Aligned(z) /\ Even(z)
<1>e. PICK e \in Nat : Len(s) = 2 * e + 1
  <2>0. Len(s) \in Nat
    OBVIOUS
  <2>1. PICK e \in Nat : Len(s) = 2 * e \/ Len(s) = 2 * e + 1
    BY <2>0, Half, Zenon
  <2>2. Len(s) # 2 * e
    BY Zenon DEF Even
  <2> QED
    BY <2>1, <2>2, Zenon
<1> DEFINE z == s \o << <<s[Len(s)][1], 2>> >>
<1>1. z \in Seq(S) /\ Len(z) = 2 * e + 2 /\ z[2 * e + 2] = <<s[2 * e + 1][1], 2>> /\ \A i \in 1..2 * e + 1 : z[i] = s[i]
  <2>1. ASSUME NEW x \in S
        PROVE  LET y == s \o <<x>> IN
               y \in Seq(S) /\ Len(y) = 2 * e + 2 /\ y[2 * e + 2] = x /\ \A i \in 1..2 * e + 1 : y[i] = s[i]
    BY <1>e
  <2> QED
    BY <1>e, <2>1, Zenon
<1> HIDE DEF z
<1>2. ASSUME NEW k \in Nat, 2 * k + 1 <= Len(z) PROVE z[2 * k + 1] = <<z[2 * k + 1][1], 1>>
  <2>1. z[2 * k + 1] = s[2 * k + 1] /\ 2 * k + 1 <= Len(s)
    BY <1>1, <1>2, <1>e
  <2> QED
    BY <2>1, Zenon DEF Aligned
<1>3. ASSUME NEW k \in Nat, 2 * k + 2 <= Len(z) PROVE z[2 * k + 2] = <<z[2 * k + 1][1], 2>>
  <2>1. CASE k = e
    BY <1>1, <2>1
  <2>2. CASE k < e
    <3>1. z[2 * k + 1] = s[2 * k + 1] /\ z[2 * k + 2] = s[2 * k + 2] /\ 2 * k + 2 <= Len(s)
      BY <1>1, <1>e, <2>2
    <3> QED
      BY <3>1, Zenon DEF Aligned
  <2> QED
    BY <1>1, <1>3, <2>1, <2>2
<1>4. Even(z)
  <2>1. e + 1 \in Nat /\ Len(z) = 2 * (e + 1)
    BY <1>1
  <2> QED
    BY <2>1, Zenon DEF Even
<1> QED
  BY <1>e, <1>1, <1>2, <1>3, <1>4 DEF Aligned, z

\* A whole message after whole messages.
LEMMA AlignedMessage ==
    ASSUME NEW S, NEW s \in Seq(S), Aligned(s), Even(s), NEW t, <<t, 1>> \in S, <<t, 2>> \in S
    PROVE  LET z == s \o << <<t, 1>>, <<t, 2>> >> IN
           z \in Seq(S) /\ Aligned(z) /\ Even(z)
<1> DEFINE y == s \o << <<t, 1>> >>
<1>1. y \in Seq(S) /\ Len(y) = Len(s) + 1 /\ y[Len(y)] = <<t, 1>> /\ Aligned(y) /\ ~Even(y)
  BY AlignedHeader, Zenon
<1>2. y[Len(y)][1] = t
  BY <1>1
<1>3. s \o << <<t, 1>>, <<t, 2>> >> = y \o << <<t, 2>> >>
  OBVIOUS
<1> HIDE DEF y
<1>4. LET z == y \o << <<t, 2>> >> IN z \in Seq(S) /\ Aligned(z) /\ Even(z)
  BY <1>1, <1>2, AlignedRest, Zenon
<1> QED
  BY <1>3, <1>4, Zenon

\* The frames cut out of an aligned stream are whole messages.
LEMMA FramesWhole ==
    ASSUME NEW S, NEW s \in Seq(S), Aligned(s), NEW i \in DOMAIN Frames(s)
    PROVE  Whole(Frames(s)[i])
<1>0. Len(s) \in Nat
  OBVIOUS
<1>1. PICK h \in Nat : Len(s) \div 2 = h /\ 2 * h <= Len(s)
  BY <1>0, Half
<1>2. i \in 1..h /\ Frames(s)[i] = SubSeq(s, 2 * i - 1, 2 * i)
  BY <1>1, Zenon DEF Frames
<1>3. PICK k \in Nat : i = k + 1
  BY <1>2
<1>4. SubSeq(s, 2 * i - 1, 2 * i) = <<s[2 * k + 1], s[2 * k + 2]>>
  <2>1. 2 * i - 1 = 2 * k + 1 /\ 2 * i = 2 * k + 2 /\ 2 * k + 2 <= Len(s)
    BY <1>0, <1>1, <1>2, <1>3
  <2>2. ASSUME NEW q \in Seq(S), Len(q) = 2 PROVE q = <<q[1], q[2]>>
    BY <2>2
  <2>3. LET q == SubSeq(s, 2 * k + 1, 2 * k + 2) IN
        q \in Seq(S) /\ Len(q) = 2 /\ q[1] = s[2 * k + 1] /\ q[2] = s[2 * k + 2]
    <3>1. ASSUME NEW a \in Nat, NEW b \in Nat, a >= 1, b = a + 1, b <= Len(s)
          PROVE  LET q == SubSeq(s, a, b) IN q \in Seq(S) /\ Len(q) = 2 /\ q[1] = s[a] /\ q[2] = s[b]
      BY <3>1
    <3>2. /\ 2 * k + 1 \in Nat /\ 2 * k + 2 \in Nat /\ 2 * k + 1 >= 1
          /\ 2 * k + 2 = (2 * k + 1) + 1 /\ 2 * k + 2 <= Len(s)
      BY <2>1
    <3> QED
      BY <3>1, <3>2, Zenon
  <2> QED
    BY <2>1, <2>2, <2>3, Zenon
<1>5. s[2 * k + 1] = <<s[2 * k + 1][1], 1>> /\ s[2 * k + 2] = <<s[2 * k + 1][1], 2>>
  <2>1. 2 * k + 1 <= Len(s) /\ 2 * k + 2 <= Len(s)
    BY <1>0, <1>1, <1>2, <1>3
  <2> QED
    BY <2>1, Zenon DEF Aligned
<1>6. ASSUME NEW a, NEW b, a = <<a[1], 1>>, b = <<a[1], 2>> PROVE Whole(<<a, b>>)
  BY <1>6, Zenon DEF Whole
<1> QED
  BY <1>2, <1>4, <1>5, <1>6, Zenon

\* Two sequences of one length with the same elements are equal.
LEMMA SameSeq ==
    ASSUME NEW S, NEW p \in Seq(S), NEW q \in Seq(S), Len(p) = Len(q), \A i \in 1..Len(p) : p[i] = q[i]
    PROVE  p = q
  OBVIOUS

\* The first message of an aligned stream is whole, and what follows it is aligned.
LEMMA FirstMessage ==
    ASSUME NEW S, NEW s \in Seq(S), Aligned(s), Len(s) >= 2
    PROVE  LET p == SubSeq(s, 1, 2)
               z == SubSeq(s, 3, Len(s))
           IN /\ p \in Seq(S) /\ Whole(p) /\ p = << <<p[1][1], 1>>, <<p[1][1], 2>> >>
              /\ <<p[1][1], 1>> \in S /\ <<p[1][1], 2>> \in S
              /\ z \in Seq(S) /\ Aligned(z) /\ (Even(z) <=> Even(s)) /\ (~Even(s) => z[Len(z)] = s[Len(s)])
<1> DEFINE p == SubSeq(s, 1, 2)
           z == SubSeq(s, 3, Len(s))
<1>0. Len(s) \in Nat
  OBVIOUS
<1>1. p \in Seq(S) /\ Len(p) = 2 /\ p[1] = s[1] /\ p[2] = s[2] /\ s[1] \in S /\ s[2] \in S
  OBVIOUS
<1>2. s[1] = <<s[1][1], 1>> /\ s[2] = <<s[1][1], 2>>
  <2>1. s[2 * 0 + 1] = <<s[2 * 0 + 1][1], 1>> /\ s[2 * 0 + 2] = <<s[2 * 0 + 1][1], 2>>
    BY <1>0 DEF Aligned
  <2> QED
    BY <2>1
<1>3. z \in Seq(S) /\ Len(z) = Len(s) - 2 /\ Aligned(z)
  <2>1. /\ 1 \in Nat /\ 3 \in Nat /\ 3 = 2 * 1 + 1 /\ 2 * 1 <= Len(s) /\ Len(s) <= Len(s) /\ 2 * 1 = 2
    BY <1>0
  <2>2. z \in Seq(S) /\ Len(z) = Len(s) - 2 * 1 /\ Aligned(z)
    BY <1>0, <2>1, AlignedPart, Zenon
  <2> QED
    BY <1>0, <2>1, <2>2, Zenon
<1>4. Even(z) <=> Even(s)
  <2>1. ASSUME NEW k \in Nat, Len(s) = 2 * k PROVE k - 1 \in Nat /\ Len(z) = 2 * (k - 1)
    BY <1>3, <2>1
  <2>2. ASSUME NEW k \in Nat, Len(z) = 2 * k PROVE k + 1 \in Nat /\ Len(s) = 2 * (k + 1)
    BY <1>0, <1>3, <2>2
  <2> QED
    BY <2>1, <2>2, Zenon DEF Even
<1>5. ~Even(s) => z[Len(z)] = s[Len(s)]
  <2>1. Len(s) = 2 * 1 => Even(s)
    BY Zenon DEF Even
  <2>2. Len(s) > 2 => z[Len(s) - 2] = s[Len(s)]
    BY <1>0
  <2> QED
    BY <1>0, <1>3, <2>1, <2>2
<1> HIDE DEF p, z
<1>6. p = <<p[1], p[2]>>
  BY <1>1
<1>7. p = << <<p[1][1], 1>>, <<p[1][1], 2>> >>
  BY <1>1, <1>2, <1>6, Zenon
<1> QED
  BY <1>1, <1>2, <1>3, <1>4, <1>5, <1>7, Zenon DEF Whole, p, z

\* recv() moves a part of the stream into the cache, and _PopMsg() takes the whole
\* messages out of it: what is left in the cache and on the way is aligned.
LEMMA ReadSplit ==
    ASSUME NEW S, NEW a \in Seq(S), NEW b \in Seq(S), NEW n \in 1..Len(b), Aligned(a \o b), Even(a \o b)
    PROVE  LET cache == a \o SubSeq(b, 1, n)
               z == Remainder(cache) \o SubSeq(b, n + 1, Len(b))
           IN cache \in Seq(S) /\ Remainder(cache) \in Seq(S) /\ Aligned(cache) /\ Aligned(z) /\ Even(z)
<1> DEFINE cache == a \o SubSeq(b, 1, n)
           rest == SubSeq(b, n + 1, Len(b))
           all == a \o b
           z == Remainder(cache) \o rest
<1>0. PICK la \in Nat, lb \in Nat, m \in Nat : la = Len(a) /\ lb = Len(b) /\ m = la + n /\ n \in Nat /\ n >= 1 /\ n <= lb
  OBVIOUS
<1>c. ASSUME NEW p \in Seq(S), NEW q \in Seq(S)
      PROVE  /\ p \o q \in Seq(S) /\ Len(p \o q) = Len(p) + Len(q)
             /\ \A i \in 1..Len(p) : (p \o q)[i] = p[i]
             /\ \A i \in 1..Len(q) : (p \o q)[Len(p) + i] = q[i]
  OBVIOUS
<1>1. /\ all \in Seq(S) /\ Len(all) = la + lb
      /\ \A i \in 1..la : all[i] = a[i]
      /\ \A i \in 1..lb : all[la + i] = b[i]
  BY <1>0, <1>c, Zenon
<1>2. /\ cache \in Seq(S) /\ Len(cache) = m
      /\ \A i \in 1..la : cache[i] = a[i]
      /\ \A i \in 1..n : cache[la + i] = b[i]
  <2>1. SubSeq(b, 1, n) \in Seq(S) /\ Len(SubSeq(b, 1, n)) = n /\ \A i \in 1..n : SubSeq(b, 1, n)[i] = b[i]
    OBVIOUS
  <2> QED
    BY <1>0, <1>c, <2>1
<1>3. /\ rest \in Seq(S) /\ Len(rest) = lb - n
      /\ \A i \in 1..lb - n : rest[i] = b[n + i]
  BY <1>0
<1>s. Aligned(all) /\ Even(all)
  BY Zenon
<1> HIDE DEF cache, rest, all
<1>4. ASSUME NEW i \in 1..m PROVE cache[i] = all[i]
  <2>1. CASE i <= la
    BY <1>0, <1>1, <1>2, <2>1
  <2>2. CASE i > la
    <3>1. i - la \in 1..n /\ i - la \in 1..lb /\ i = la + (i - la)
      BY <1>0, <2>2
    <3> QED
      BY <1>1, <1>2, <3>1, Zenon
  <2> QED
    BY <1>0, <2>1, <2>2
<1>5. Aligned(cache)
  <2>1. /\ SubSeq(all, 1, m) \in Seq(S) /\ Len(SubSeq(all, 1, m)) = m
        /\ \A i \in 1..m : SubSeq(all, 1, m)[i] = all[i]
    BY <1>0, <1>1
  <2>2. cache = SubSeq(all, 1, m)
    BY <1>2, <1>4, <2>1, SameSeq, Zenon
  <2>3. 0 \in Nat /\ 1 \in Nat /\ 1 = 2 * 0 + 1 /\ 2 * 0 <= m /\ m <= Len(all)
    BY <1>0, <1>1
  <2>4. Aligned(SubSeq(all, 1, m))
    BY <1>1, <1>s, <2>3, AlignedPart, Zenon
  <2> QED
    BY <2>2, <2>4, Zenon
<1>6. PICK h \in Nat, g \in Nat : 2 * h <= m /\ g = 2 * h + 1 /\ Remainder(cache) = SubSeq(cache, g, m)
  <2>1. PICK h \in Nat : \/ m = 2 * h /\ m % 2 = 0
                         \/ m = 2 * h + 1 /\ m % 2 = 1
    BY Half, Zenon
  <2>2. PICK g \in Nat : g = 2 * h + 1
    OBVIOUS
  <2>3. m - (m % 2) + 1 = g /\ 2 * h <= m
    BY <2>1, <2>2
  <2>4. Remainder(cache) = SubSeq(cache, g, m)
    BY <1>2, <2>3, Zenon DEF Remainder
  <2> QED
    BY <2>2, <2>3, <2>4, Zenon
<1>7. /\ Remainder(cache) \in Seq(S) /\ Len(Remainder(cache)) = m - 2 * h
      /\ \A i \in 1..m - 2 * h : Remainder(cache)[i] = all[2 * h + i]
  <2>1. /\ SubSeq(cache, g, m) \in Seq(S) /\ Len(SubSeq(cache, g, m)) = m - 2 * h
        /\ \A i \in 1..m - 2 * h : SubSeq(cache, g, m)[i] = cache[2 * h + i]
    BY <1>2, <1>6
  <2>2. \A i \in 1..m - 2 * h : 2 * h + i \in 1..m
    BY <1>6
  <2> QED
    BY <1>4, <1>6, <2>1, <2>2, Zenon
<1>t. PICK lr \in Nat, lt \in Nat, lz \in Nat : m = 2 * h + lr /\ lb = n + lt /\ lz = lr + lt
  <2>1. m - 2 * h \in Nat /\ m = 2 * h + (m - 2 * h)
    BY <1>6
  <2>2. lb - n \in Nat /\ lb = n + (lb - n)
    BY <1>0
  <2>3. (m - 2 * h) + (lb - n) \in Nat
    BY <2>1, <2>2
  <2> QED
    BY <2>1, <2>2, <2>3, Zenon
<1>u. la + lb = 2 * h + lz /\ lr = m - 2 * h /\ lt = lb - n
  BY <1>0, <1>t
<1>8. /\ z \in Seq(S) /\ Len(z) = lz
      /\ \A i \in 1..lz : z[i] = all[2 * h + i]
  <2>r. PICK r \in Seq(S) : r = Remainder(cache)
    BY <1>7, Zenon
  <2>0. /\ z = r \o rest /\ rest \in Seq(S) /\ Len(r) = lr /\ Len(rest) = lt
        /\ \A i \in 1..lr : r[i] = all[2 * h + i]
        /\ \A i \in 1..lt : rest[i] = b[n + i]
    BY <1>3, <1>7, <1>u, <2>r, Zenon
  <2> HIDE DEF z
  <2>1. /\ z \in Seq(S) /\ Len(z) = lr + lt
        /\ \A i \in 1..lr : z[i] = r[i]
        /\ \A i \in 1..lt : z[lr + i] = rest[i]
    BY <1>c, <2>0, Zenon
  <2>2. ASSUME NEW i \in 1..lz PROVE z[i] = all[2 * h + i]
    <3>1. CASE i <= lr
      <4>1. i \in 1..lr
        BY <3>1
      <4> QED
        BY <2>0, <2>1, <4>1, Zenon
    <3>2. CASE i > lr
      <4>1. i - lr \in Nat /\ i = lr + (i - lr) /\ i - lr >= 1 /\ i - lr <= lt
        BY <1>t, <3>2
      <4>2. PICK j \in Nat : i = lr + j /\ j >= 1 /\ j <= lt
        BY <4>1, Zenon
      <4>3. j \in 1..lt /\ n + j \in 1..lb /\ 2 * h + i = la + (n + j)
        BY <1>0, <1>t, <4>2
      <4>4. z[i] = b[n + j]
        BY <2>0, <2>1, <4>2, <4>3, Zenon
      <4> QED
        BY <1>1, <4>3, <4>4, Zenon
    <3>3. i <= lr \/ i > lr
      OBVIOUS
    <3> QED
      BY <3>1, <3>2, <3>3, Zenon
  <2> QED
    BY <1>t, <2>1, <2>2, Zenon
<1> HIDE DEF z
<1>9. Aligned(z)
  <2>1. PICK l \in Nat : l = 2 * h + lz /\ l = Len(all) /\ 2 * h <= l
    BY <1>1, <1>u
  <2>2. /\ SubSeq(all, g, l) \in Seq(S) /\ Len(SubSeq(all, g, l)) = lz
        /\ \A i \in 1..lz : SubSeq(all, g, l)[i] = all[2 * h + i]
    <3>1. all \in Seq(S) /\ g = 2 * h + 1
      BY <1>1, <1>6, Zenon
    <3>2. /\ SubSeq(all, g, l) \in Seq(S) /\ Len(SubSeq(all, g, l)) = l - 2 * h
          /\ \A i \in 1..l - 2 * h : SubSeq(all, g, l)[i] = all[2 * h + i]
      <4>1. l <= Len(all)
        BY <2>1
      <4> QED
        BY <2>1, <3>1, <4>1, PartUnits
    <3>3. l - 2 * h = lz
      BY <2>1
    <3> QED
      BY <3>2, <3>3, Zenon
  <2>3. z = SubSeq(all, g, l)
    <3>1. PICK y \in Seq(S) : y = SubSeq(all, g, l) /\ Len(y) = lz /\ \A i \in 1..lz : y[i] = all[2 * h + i]
      BY <2>2, Zenon
    <3>2. Len(z) = Len(y) /\ Len(z) = lz
      BY <1>8, <3>1, Zenon
    <3>3. \A i \in 1..lz : z[i] = y[i]
      BY <1>8, <3>1, Zenon
    <3> QED
      BY <1>8, <3>1, <3>2, <3>3, SameSeq, Zenon
  <2>4. Aligned(SubSeq(all, g, l))
    <3>1. l <= Len(all) /\ 2 * h <= l
      BY <2>1
    <3> QED
      BY <1>1, <1>s, <1>6, <3>1, AlignedPart, Zenon
  <2> QED
    BY <2>3, <2>4, Zenon
<1>10. Even(z)
  <2>1. PICK k \in Nat : Len(all) = 2 * k
    BY <1>s, Zenon DEF Even
  <2>2. 2 * k = 2 * h + lz
    BY <1>1, <1>u, <2>1, Zenon
  <2>3. k - h \in Nat /\ lz = 2 * (k - h)
    BY <2>2
  <2> QED
    BY <1>8, <2>3, Zenon DEF Even
<1> QED
  BY <1>2, <1>5, <1>7, <1>9, <1>10, Zenon DEF cache, z, rest
-----------------------------------------------------------------------------
(* The events: the poll, the maps, the locks and the queues.               *)

\* The units on the wire and the messages made of them.
Units == (Threads \cup {"push"}) \X {1, 2}
Msgs == Seq(Units)

\* Where the threads that post, the monitor and the IO thread are.
Pcs == {"idle", "get", "erase", "refused", "push", "cas", "mod", "posted", "add", "connect", "join", "exit"}
IoPcs == {"wait", "pop", "send", "recheck", "leave", "flag", "remove", "exit"}

\* The types of the cells that the events are about.
EventTypes ==
    /\ wrQueue \in [Clients -> Seq(Msgs)] /\ inflight \in [Clients -> Msgs]
    /\ enableWrite \in [Clients -> BOOLEAN] /\ efd \in [Clients -> BOOLEAN]
    /\ fd \in [Clients -> BOOLEAN] /\ monitored \in [Clients -> BOOLEAN]
    /\ interest \in [Clients -> {"none", "in", "inout"}]
    /\ lockWRQ \in [Clients -> Threads \cup {"free"}] /\ lockMon \in {"free", "monitor", "io"}
    /\ at \in [Threads -> [pc : Pcs, clt : Clients]] /\ io \in [pc : IoPcs, clt : Clients]
    /\ scan \in Clients /\ cursor \in Nat

\* _lockWRQ of a client is held across steps by a post() inside enableWrite(true),
\* whose message is in the queue.
LockInv ==
    /\ \A t \in Threads : at[t].pc \in {"cas", "mod"} => lockWRQ[at[t].clt] = t
    /\ \A c \in Clients : lockWRQ[c] # "free" =>
          /\ at[lockWRQ[c]].pc \in {"cas", "mod"} /\ at[lockWRQ[c]].clt = c
          /\ wrQueue[c] # <<>>

\* The steps of removeMonitored(), and those of _SendData().
Leaving == {"leave", "flag", "remove"}
Sending == {"pop", "send", "recheck"}

\* Who holds _lockMonitorColl, and what the monitor and the IO thread know of the
\* client they are at: a registered socket has its client in the maps, except
\* inside addMonitored().
MonInv ==
    /\ lockMon = "monitor" <=> at["monitor"].pc = "join"
    /\ lockMon = "io" <=> io.pc \in Leaving
    /\ at["monitor"].pc \in {"add", "connect", "join"} => ~monitored[scan]
    /\ at["monitor"].pc \in {"add", "join"} => fd[scan]
    /\ io.pc \in Sending \cup Leaving => monitored[io.clt]
    /\ io.pc \in Sending => interest[io.clt] = "inout"
    /\ \A c \in Clients : interest[c] # "none" <=> monitored[c] \/ (at["monitor"].pc = "join" /\ scan = c)

\* A client in the maps that the IO thread is not removing.
Live(c) == monitored[c] /\ ~(io.pc \in Leaving /\ io.clt = c)

\* _enableWrite of a live client agrees with the poll and with the queue, except
\* between the steps of a post() that holds the lock; a socket registered again
\* that a late post() has armed has messages waiting.
ArmInv(c) ==
    /\ Live(c) =>
          /\ fd[c] /\ efd[c]
          /\ interest[c] = "inout" => enableWrite[c]
          /\ enableWrite[c] /\ interest[c] # "inout" => lockWRQ[c] # "free" /\ at[lockWRQ[c]].pc = "mod"
          /\ wrQueue[c] # <<>> /\ ~enableWrite[c] => lockWRQ[c] # "free" /\ at[lockWRQ[c]].pc = "cas"
          /\ lockWRQ[c] # "free" /\ at[lockWRQ[c]].pc = "mod" => enableWrite[c]
    /\ ~monitored[c] /\ interest[c] = "inout" => wrQueue[c] # <<>>

\* The inductive invariant of EventsSound.
EventInv == EventTypes /\ LockInv /\ MonInv /\ (\A c \in Clients : ArmInv(c)) /\ unowned = FALSE
-----------------------------------------------------------------------------
\* A thread goes to a step: the others stay where they are.
LEMMA GotoStep ==
    ASSUME EventTypes, NEW t \in Threads, NEW l \in Pcs, Goto(t, l)
    PROVE  /\ at' \in [Threads -> [pc : Pcs, clt : Clients]]
           /\ at'[t].pc = l /\ at'[t].clt = at[t].clt
           /\ \A s \in Threads : s # t => at'[s] = at[s]
  BY Zenon DEF EventTypes, Goto

\* A step that leaves the cells of a client and the holder of its lock alone keeps
\* the client's invariant.
LEMMA ArmFrame ==
    ASSUME NEW c \in Clients, ArmInv(c),
           wrQueue'[c] = wrQueue[c], enableWrite'[c] = enableWrite[c], efd'[c] = efd[c], fd'[c] = fd[c],
           monitored'[c] = monitored[c], interest'[c] = interest[c], lockWRQ'[c] = lockWRQ[c],
           lockWRQ[c] # "free" => at'[lockWRQ[c]].pc = at[lockWRQ[c]].pc,
           Live(c)' => Live(c)
    PROVE  ArmInv(c)'
  BY Zenon DEF ArmInv

\* A thread that is in no step of enableWrite(true) before or after moves on:
\* only its place changes.
LEMMA MoveStep ==
    ASSUME EventInv, NEW t \in Threads, at[t].pc \notin {"cas", "mod"},
           at' \in [Threads -> [pc : Pcs, clt : Clients]], at'[t].pc \notin {"cas", "mod"},
           \A s \in Threads : s # t => at'[s] = at[s],
           t = "monitor" => at[t].pc # "join" /\ at'[t].pc \notin {"add", "connect", "join"},
           cursor' \in Nat,
           UNCHANGED <<wrQueue, inflight, enableWrite, efd, fd, monitored, interest, lockWRQ, lockMon, io, scan,
                       unowned>>
    PROVE  EventInv'
<1> USE RequestsAssumption DEF Threads
<1>1. EventTypes'
  BY Zenon DEF EventInv, EventTypes
<1>2. LockInv'
  <2>1. ASSUME NEW s \in Threads, at'[s].pc \in {"cas", "mod"} PROVE lockWRQ'[at'[s].clt] = s
    <3>1. s # t /\ at'[s] = at[s]
      BY <2>1, Zenon
    <3> QED
      BY <2>1, <3>1, Zenon DEF EventInv, LockInv
  <2>2. ASSUME NEW c \in Clients, lockWRQ'[c] # "free"
        PROVE  /\ at'[lockWRQ'[c]].pc \in {"cas", "mod"} /\ at'[lockWRQ'[c]].clt = c
               /\ wrQueue'[c] # <<>>
    <3>1. /\ lockWRQ[c] \in Threads /\ at[lockWRQ[c]].pc \in {"cas", "mod"}
          /\ at[lockWRQ[c]].clt = c /\ wrQueue[c] # <<>>
      BY <2>2 DEF EventInv, EventTypes, LockInv
    <3> QED
      BY <3>1, Zenon
  <2> QED
    BY <2>1, <2>2, Zenon DEF LockInv
<1>3. MonInv'
  <2>1. at'["monitor"].pc \in {"add", "connect", "join"} \/ at["monitor"].pc = "join" =>
          at'["monitor"] = at["monitor"]
    BY Zenon
  <2> QED
    BY <2>1, Zenon DEF EventInv, EventTypes, MonInv
<1>4. ASSUME NEW c \in Clients PROVE ArmInv(c)'
  <2>1. lockWRQ[c] # "free" => at'[lockWRQ[c]].pc = at[lockWRQ[c]].pc
    BY DEF EventInv, EventTypes, LockInv
  <2> QED
    BY <2>1, ArmFrame, Zenon DEF EventInv, Live
<1> QED
  BY <1>1, <1>2, <1>3, <1>4, Zenon DEF EventInv

\* Request(), getClient() and the erase after a failed post().
LEMMA RequestSteps ==
    ASSUME EventInv, NEW r \in Requests, Request(r) \/ RequestStep(r)
    PROVE  EventInv'
<1> USE RequestsAssumption DEF Threads
<1>t. EventTypes /\ r \in Threads /\ r # "monitor"
  BY Zenon DEF EventInv
<1>1. CASE Request(r)
  <2>1. at[r].pc = "idle" /\ Goto(r, "get")
    BY <1>1, Zenon DEF Request
  <2>2. UNCHANGED <<wrQueue, inflight, enableWrite, efd, fd, monitored, interest, lockWRQ, lockMon, io, scan,
                    unowned, cursor>>
    BY <1>1, Zenon DEF Request, queueVars, armVars, linkVars, monVars, ghosts
  <2> QED
    BY <1>t, <2>1, <2>2, GotoStep, MoveStep, Zenon DEF Pcs, EventTypes
<1>2. CASE EraseHandler(r)
  <2>1. at[r].pc = "erase" /\ Goto(r, "refused")
    BY <1>2, Zenon DEF EraseHandler
  <2>2. UNCHANGED <<wrQueue, inflight, enableWrite, efd, fd, monitored, interest, lockWRQ, lockMon, io, scan,
                    unowned, cursor>>
    BY <1>2, Zenon DEF EraseHandler, queueVars, armVars, linkVars, monVars, ghosts
  <2> QED
    BY <1>t, <2>1, <2>2, GotoStep, MoveStep, Zenon DEF Pcs, EventTypes
<1>3. CASE GetClient(r)
  <2> DEFINE nth(k) == ((cursor + k) % NumClients) + 1
  <2>1. at[r].pc = "get"
    BY <1>3, Zenon DEF GetClient
  <2>2. UNCHANGED <<wrQueue, inflight, enableWrite, efd, fd, monitored, interest, lockWRQ, lockMon, io, scan,
                    unowned>>
    BY <1>3, Zenon DEF GetClient, queueVars, armVars, linkVars, ghosts
  <2>3. ASSUME NEW k \in Nat PROVE nth(k) \in Clients /\ nth(k) \in Nat
    BY <1>t, CountAssumption DEF EventTypes, Clients
  <2>4. \/ Goto(r, "erase") /\ cursor' = nth(NumClients - 1)
        \/ \E k \in 0..NumClients - 1 :
              at' = [at EXCEPT ![r] = [pc |-> "push", clt |-> nth(k)]] /\ cursor' = nth(k)
    BY <1>3, Zenon DEF GetClient
  <2>5. CASE Goto(r, "erase") /\ cursor' = nth(NumClients - 1)
    <3>1. cursor' \in Nat
      BY <2>3, <2>5, CountAssumption
    <3> QED
      BY <1>t, <2>1, <2>2, <2>5, <3>1, GotoStep, MoveStep, Zenon DEF Pcs
  <2>6. ASSUME NEW k \in 0..NumClients - 1,
               at' = [at EXCEPT ![r] = [pc |-> "push", clt |-> nth(k)]], cursor' = nth(k)
        PROVE  EventInv'
    <3>1. PICK c \in Clients : c = nth(k) /\ c \in Nat
      BY <2>3, CountAssumption
    <3>2. cursor' = c /\ at' = [at EXCEPT ![r] = [pc |-> "push", clt |-> c]]
      BY <2>6, <3>1, Zenon
    <3>3. at' \in [Threads -> [pc : Pcs, clt : Clients]] /\ at'[r].pc = "push"
          /\ \A s \in Threads : s # r => at'[s] = at[s]
      BY <1>t, <3>2, Zenon DEF EventTypes, Pcs
    <3> QED
      BY <1>t, <2>1, <2>2, <3>1, <3>2, <3>3, MoveStep, Zenon
  <2> QED
    BY <2>4, <2>5, <2>6, Zenon
<1> QED
  BY <1>1, <1>2, <1>3, Zenon DEF RequestStep

\* Appending a message to a queue gives a queue that is not empty.
LEMMA Appended ==
    ASSUME NEW S, NEW q \in Seq(S), NEW x \in S
    PROVE  Append(q, x) \in Seq(S) /\ Append(q, x) # <<>>
<1>1. Append(q, x) \in Seq(S) /\ Len(Append(q, x)) = Len(q) + 1 /\ Len(q) \in Nat
  OBVIOUS
<1> QED
  BY <1>1, Len(<<>>) = 0

\* A message of a thread is a message.
LEMMA ThreadMsg ==
    ASSUME NEW t \in Threads
    PROVE  << <<t, 1>>, <<t, 2>> >> \in Msgs
<1>1. <<t, 1>> \in Units /\ <<t, 2>> \in Units
  BY Zenon DEF Units
<1>2. \A S : \A x, y \in S : <<x, y>> \in Seq(S)
  OBVIOUS
<1> QED
  BY <1>1, <1>2, Zenon DEF Msgs

\* A step of a post() that changes, besides its place, only the cells of the client
\* it posts to: the other clients keep their invariants.
LEMMA OthersKeep ==
    ASSUME EventInv, NEW t \in Threads, NEW c \in Clients, c = at[t].clt,
           at[t].pc \in {"push", "cas", "mod"},
           \A s \in Threads : s # t => at'[s] = at[s],
           UNCHANGED <<efd, fd, monitored, io>>,
           NEW d \in Clients, d # c,
           wrQueue'[d] = wrQueue[d], enableWrite'[d] = enableWrite[d], interest'[d] = interest[d],
           lockWRQ'[d] = lockWRQ[d]
    PROVE  ArmInv(d)'
<1>1. lockWRQ[d] # "free" => lockWRQ[d] \in Threads /\ lockWRQ[d] # t
  BY DEF EventInv, EventTypes, LockInv
<1> QED
  BY <1>1, ArmFrame, Zenon DEF EventInv, Live

\* The monitor and the IO thread keep their places and what they rely on.
LEMMA MonKeeps ==
    ASSUME EventInv, NEW t \in Threads, at[t].pc \in {"push", "cas", "mod"},
           at' \in [Threads -> [pc : Pcs, clt : Clients]],
           at'[t].pc \notin {"add", "connect", "join"},
           \A s \in Threads : s # t => at'[s] = at[s],
           UNCHANGED <<fd, monitored, lockMon, io, scan>>,
           \A d \in Clients : interest'[d] = interest[d] \/ (interest[d] # "none" /\ interest'[d] = "inout")
    PROVE  MonInv'
<1>1. "monitor" \in Threads
  BY Zenon DEF Threads
<1>2. at'["monitor"].pc \in {"add", "connect", "join"} \/ at["monitor"].pc \in {"add", "connect", "join"} =>
        at'["monitor"] = at["monitor"]
  BY <1>1, Zenon
<1>3. io.clt \in Clients
  BY Zenon DEF EventInv, EventTypes
<1> QED
  BY <1>2, <1>3, Zenon DEF EventInv, MonInv

\* post() appends its message under the lock.
LEMMA PushStep ==
    ASSUME EventInv, NEW t \in Threads, PostPush(t)
    PROVE  EventInv'
<1>1. PICK c \in Clients : c = at[t].clt
  BY Zenon DEF EventInv, EventTypes
<1>t. /\ EventTypes /\ LockInv /\ ArmInv(c) /\ unowned = FALSE /\ at[t].pc = "push" /\ lockWRQ[c] = "free"
  BY <1>1, Zenon DEF EventInv, PostPush
<1>u. UNCHANGED <<inflight, enableWrite, efd, interest, closed, fd, monitored, scan, cursor, lockMon, io, unowned>>
  BY Zenon DEF PostPush, armVars, linkVars, monVars, ghosts
<1>l. "free" \notin Threads
  BY RequestsAssumption, Zenon DEF Threads
<1>r. Rest(t) \in Pcs /\ Rest(t) \in {"idle", "posted"}
  BY Zenon DEF Rest, Pcs
<1>2. CASE Len(wrQueue[c]) > MaxPendingMsg
  <2>1. PICK l \in {"idle", "erase"} : Goto(t, l)
    BY <1>1, <1>2, Zenon DEF PostPush
  <2>2. UNCHANGED <<wrQueue, lockWRQ>>
    BY <1>1, <1>2, Zenon DEF PostPush
  <2>3. /\ at' \in [Threads -> [pc : Pcs, clt : Clients]] /\ at'[t].pc = l
        /\ \A s \in Threads : s # t => at'[s] = at[s]
    BY <1>t, <2>1, GotoStep, Zenon DEF Pcs
  <2> QED
    BY <1>t, <1>u, <2>2, <2>3, MoveStep, Zenon DEF EventTypes
<1>3. CASE ~(Len(wrQueue[c]) > MaxPendingMsg)
  <2>1. /\ wrQueue' = [wrQueue EXCEPT ![c] = Append(@, << <<t, 1>>, <<t, 2>> >>)]
        /\ IF fd[c] /\ efd[c]
             THEN Goto(t, "cas") /\ lockWRQ' = [lockWRQ EXCEPT ![c] = t]
             ELSE Goto(t, Rest(t)) /\ UNCHANGED lockWRQ
    BY <1>1, <1>3, Zenon DEF PostPush
  <2>2. PICK l \in Pcs : Goto(t, l) /\ l = (IF fd[c] /\ efd[c] THEN "cas" ELSE Rest(t))
    BY <1>r, <2>1, Zenon DEF Pcs
  <2>3. /\ at' \in [Threads -> [pc : Pcs, clt : Clients]] /\ at'[t].pc = l /\ at'[t].clt = c
        /\ \A s \in Threads : s # t => at'[s] = at[s]
    BY <1>t, <1>1, <2>2, GotoStep, Zenon
  <2>4. /\ wrQueue' \in [Clients -> Seq(Msgs)] /\ wrQueue'[c] # <<>>
        /\ \A d \in Clients : d # c => wrQueue'[d] = wrQueue[d]
    <3>1. wrQueue[c] \in Seq(Msgs)
      BY <1>t, Zenon DEF EventTypes
    <3>2. Append(wrQueue[c], << <<t, 1>>, <<t, 2>> >>) \in Seq(Msgs)
          /\ Append(wrQueue[c], << <<t, 1>>, <<t, 2>> >>) # <<>>
      BY <3>1, ThreadMsg, Appended, Zenon
    <3> QED
      BY <1>t, <2>1, <3>2, Zenon DEF EventTypes
  <2>5. /\ lockWRQ' \in [Clients -> Threads \cup {"free"}]
        /\ lockWRQ'[c] = (IF fd[c] /\ efd[c] THEN t ELSE "free")
        /\ \A d \in Clients : d # c => lockWRQ'[d] = lockWRQ[d]
    <3>1. lockWRQ \in [Clients -> Threads \cup {"free"}] /\ lockWRQ[c] = "free"
      BY <1>t, Zenon DEF EventTypes
    <3>2. CASE fd[c] /\ efd[c]
      BY <2>1, <3>1, <3>2, Zenon
    <3>3. CASE ~(fd[c] /\ efd[c])
      BY <2>1, <3>1, <3>3, Zenon
    <3> QED
      BY <3>2, <3>3, Zenon
  <2>6. EventTypes'
    BY <1>t, <1>u, <2>3, <2>4, <2>5, Zenon DEF EventTypes
  <2>7. LockInv'
    <3>1. ASSUME NEW s \in Threads, at'[s].pc \in {"cas", "mod"} PROVE lockWRQ'[at'[s].clt] = s
      <4>1. CASE s = t
        BY <1>r, <2>2, <2>3, <2>5, <3>1, <4>1, Zenon
      <4>2. CASE s # t
        <5>1. at'[s] = at[s] /\ lockWRQ[at[s].clt] = s /\ at[s].clt \in Clients
          BY <1>t, <2>3, <3>1, <4>2, Zenon DEF LockInv, EventTypes
        <5> QED
          BY <1>t, <1>l, <2>5, <5>1, Zenon
      <4> QED
        BY <4>1, <4>2, Zenon
    <3>2. ASSUME NEW d \in Clients, lockWRQ'[d] # "free"
          PROVE  /\ at'[lockWRQ'[d]].pc \in {"cas", "mod"} /\ at'[lockWRQ'[d]].clt = d
                 /\ wrQueue'[d] # <<>>
      <4>1. CASE d = c
        BY <2>2, <2>3, <2>4, <2>5, <3>2, <4>1, Zenon
      <4>2. CASE d # c
        <5>1. /\ lockWRQ'[d] = lockWRQ[d] /\ wrQueue'[d] = wrQueue[d] /\ lockWRQ[d] \in Threads
              /\ at[lockWRQ[d]].pc \in {"cas", "mod"} /\ at[lockWRQ[d]].clt = d /\ wrQueue[d] # <<>>
          BY <1>t, <2>4, <2>5, <3>2, <4>2 DEF LockInv, EventTypes
        <5> QED
          BY <1>t, <2>3, <5>1, Zenon
      <4> QED
        BY <4>1, <4>2, Zenon
    <3> QED
      BY <3>1, <3>2, Zenon DEF LockInv
  <2>8. MonInv'
    BY <1>t, <1>u, <1>r, <2>2, <2>3, MonKeeps, Zenon
  <2>9. ASSUME NEW d \in Clients PROVE ArmInv(d)'
    <3>1. CASE d # c
      BY <1>1, <1>t, <1>u, <2>3, <2>4, <2>5, <3>1, OthersKeep, Zenon
    <3>2. CASE d = c
      <4>1. /\ UNCHANGED <<enableWrite, interest, monitored, efd, fd>> /\ (Live(c)' <=> Live(c))
            /\ wrQueue'[c] # <<>>
        BY <1>u, <2>4, Zenon DEF Live
      <4>2. CASE Live(c)
        <5>1. /\ fd[c] /\ efd[c] /\ (interest[c] = "inout" <=> enableWrite[c])
          BY <1>t, <4>2, Zenon DEF ArmInv
        <5>2. lockWRQ'[c] = t /\ at'[lockWRQ'[c]].pc = "cas" /\ t # "free"
          BY <1>l, <2>2, <2>3, <2>5, <5>1, Zenon
        <5> QED
          BY <3>2, <4>1, <5>1, <5>2, Zenon DEF ArmInv
      <4>3. CASE ~Live(c)
        BY <3>2, <4>1, <4>3, Zenon DEF ArmInv
      <4> QED
        BY <4>2, <4>3, Zenon
    <3> QED
      BY <3>1, <3>2, Zenon
  <2> QED
    BY <1>t, <1>u, <2>6, <2>7, <2>8, <2>9, Zenon DEF EventInv
<1> QED
  BY <1>2, <1>3, Zenon

\* A post() inside enableWrite(true) goes to its next step with the lock, or
\* releases it and leaves.
LEMMA HolderStep ==
    ASSUME EventInv, NEW t \in Threads, NEW c \in Clients, c = at[t].clt, at[t].pc \in {"cas", "mod"},
           at'[t].clt = c, \A s \in Threads : s # t => at'[s] = at[s],
           UNCHANGED wrQueue,
           \/ at'[t].pc \in {"cas", "mod"} /\ lockWRQ' = lockWRQ
           \/ at'[t].pc \notin {"cas", "mod"} /\ lockWRQ' = [lockWRQ EXCEPT ![c] = "free"]
    PROVE  LockInv' /\ lockWRQ' \in [Clients -> Threads \cup {"free"}]
           /\ \A d \in Clients : d # c => lockWRQ'[d] = lockWRQ[d]
<1>1. /\ lockWRQ[c] = t /\ lockWRQ \in [Clients -> Threads \cup {"free"}]
      /\ at \in [Threads -> [pc : Pcs, clt : Clients]]
  BY Zenon DEF EventInv, EventTypes, LockInv
<1>2. /\ lockWRQ' \in [Clients -> Threads \cup {"free"}]
      /\ \A d \in Clients : d # c => lockWRQ'[d] = lockWRQ[d]
      /\ lockWRQ'[c] = IF at'[t].pc \in {"cas", "mod"} THEN t ELSE "free"
  BY <1>1, Zenon
<1>3. ASSUME NEW s \in Threads, at'[s].pc \in {"cas", "mod"} PROVE lockWRQ'[at'[s].clt] = s
  <2>1. CASE s = t
    BY <1>2, <1>3, <2>1, Zenon
  <2>2. CASE s # t
    <3>1. at'[s] = at[s] /\ lockWRQ[at[s].clt] = s /\ at[s].clt \in Clients
      BY <1>1, <1>3, <2>2, Zenon DEF EventInv, LockInv
    <3> QED
      BY <1>1, <1>2, <2>2, <3>1, Zenon
  <2> QED
    BY <2>1, <2>2, Zenon
<1>4. ASSUME NEW d \in Clients, lockWRQ'[d] # "free"
      PROVE  /\ at'[lockWRQ'[d]].pc \in {"cas", "mod"} /\ at'[lockWRQ'[d]].clt = d
             /\ wrQueue'[d] # <<>>
  <2>1. lockWRQ[d] # "free" /\ lockWRQ'[d] = lockWRQ[d]
    <3>1. CASE d = c
      BY <1>1, <1>2, <1>4, <3>1, RequestsAssumption, Zenon DEF Threads
    <3>2. CASE d # c
      BY <1>2, <1>4, <3>2, Zenon
    <3> QED
      BY <3>1, <3>2, Zenon
  <2>2. /\ lockWRQ[d] \in Threads /\ at[lockWRQ[d]].pc \in {"cas", "mod"} /\ at[lockWRQ[d]].clt = d
        /\ wrQueue'[d] # <<>>
    BY <1>1, <2>1 DEF EventInv, LockInv
  <2>3. CASE d = c
    BY <1>1, <1>2, <1>4, <2>1, <2>2, <2>3, Zenon
  <2>4. CASE d # c
    BY <2>1, <2>2, <2>4, Zenon
  <2> QED
    BY <2>3, <2>4, Zenon
<1> QED
  BY <1>2, <1>3, <1>4, Zenon DEF LockInv

\* enableWrite(true) exchanges _enableWrite.
LEMMA CasStep ==
    ASSUME EventInv, NEW t \in Threads, PostCas(t)
    PROVE  EventInv'
<1>1. PICK c \in Clients : c = at[t].clt
  BY Zenon DEF EventInv, EventTypes
<1>t. /\ EventTypes /\ LockInv /\ ArmInv(c) /\ unowned = FALSE /\ at[t].pc = "cas" /\ lockWRQ[c] = t
  BY <1>1, Zenon DEF EventInv, PostCas, LockInv
<1>u. UNCHANGED <<wrQueue, inflight, efd, interest, closed, fd, monitored, scan, cursor, lockMon, io, unowned>>
  BY Zenon DEF PostCas, queueVars, linkVars, monVars, ghosts
<1>l. "free" \notin Threads
  BY RequestsAssumption, Zenon DEF Threads
<1>r. Rest(t) \in Pcs /\ Rest(t) \in {"idle", "posted"} /\ "mod" \in Pcs
  BY Zenon DEF Rest, Pcs
<1>2. CASE enableWrite[c]
  <2>1. Goto(t, Rest(t)) /\ lockWRQ' = [lockWRQ EXCEPT ![c] = "free"] /\ UNCHANGED enableWrite
    BY <1>1, <1>2, Zenon DEF PostCas
  <2>2. /\ at' \in [Threads -> [pc : Pcs, clt : Clients]] /\ at'[t].pc = Rest(t) /\ at'[t].clt = c
        /\ \A s \in Threads : s # t => at'[s] = at[s]
    BY <1>t, <1>r, <1>1, <2>1, GotoStep, Zenon
  <2>3. /\ LockInv' /\ lockWRQ' \in [Clients -> Threads \cup {"free"}]
        /\ \A d \in Clients : d # c => lockWRQ'[d] = lockWRQ[d]
    BY <1>t, <1>u, <1>r, <1>1, <2>1, <2>2, HolderStep, Zenon
  <2>4. EventTypes' /\ MonInv'
    BY <1>t, <1>u, <1>r, <2>1, <2>2, <2>3, MonKeeps, Zenon DEF EventTypes
  <2>5. ASSUME NEW d \in Clients PROVE ArmInv(d)'
    <3>1. CASE d # c
      BY <1>1, <1>t, <1>u, <2>1, <2>2, <2>3, <3>1, OthersKeep, Zenon
    <3>2. CASE d = c
      <4>1. (Live(c)' <=> Live(c)) /\ lockWRQ'[c] = "free"
        BY <1>t, <1>u, <2>1, Zenon DEF Live, EventTypes
      <4> QED
        BY <1>t, <1>u, <1>2, <2>1, <3>2, <4>1, Zenon DEF ArmInv
    <3> QED
      BY <3>1, <3>2, Zenon
  <2> QED
    BY <1>t, <1>u, <2>3, <2>4, <2>5, Zenon DEF EventInv
<1>3. CASE ~enableWrite[c]
  <2>1. Goto(t, "mod") /\ enableWrite' = [enableWrite EXCEPT ![c] = TRUE] /\ UNCHANGED lockWRQ
    BY <1>1, <1>3, Zenon DEF PostCas
  <2>2. /\ at' \in [Threads -> [pc : Pcs, clt : Clients]] /\ at'[t].pc = "mod" /\ at'[t].clt = c
        /\ \A s \in Threads : s # t => at'[s] = at[s]
    BY <1>t, <1>r, <1>1, <2>1, GotoStep, Zenon
  <2>3. /\ enableWrite' \in [Clients -> BOOLEAN] /\ enableWrite'[c] = TRUE
        /\ \A d \in Clients : d # c => enableWrite'[d] = enableWrite[d]
    BY <1>t, <2>1, Zenon DEF EventTypes
  <2>4. LockInv'
    BY <1>t, <1>u, <1>1, <2>1, <2>2, HolderStep, Zenon
  <2>5. EventTypes' /\ MonInv'
    BY <1>t, <1>u, <2>1, <2>2, <2>3, MonKeeps, Zenon DEF EventTypes
  <2>6. ASSUME NEW d \in Clients PROVE ArmInv(d)'
    <3>1. CASE d # c
      BY <1>1, <1>t, <1>u, <2>1, <2>2, <2>3, <3>1, OthersKeep, Zenon
    <3>2. CASE d = c
      <4>1. (Live(c)' <=> Live(c)) /\ lockWRQ'[c] = t /\ t # "free" /\ at'[lockWRQ'[c]].pc = "mod"
        BY <1>t, <1>u, <1>l, <2>1, <2>2, Zenon DEF Live
      <4> QED
        BY <1>t, <1>u, <2>3, <3>2, <4>1, Zenon DEF ArmInv
    <3> QED
      BY <3>1, <3>2, Zenon
  <2> QED
    BY <1>t, <1>u, <2>4, <2>5, <2>6, Zenon DEF EventInv
<1> QED
  BY <1>2, <1>3, Zenon

\* sp_enable() arms EPOLLOUT, and the lock is released.
LEMMA ModStep ==
    ASSUME EventInv, NEW t \in Threads, PostMod(t)
    PROVE  EventInv'
<1>1. PICK c \in Clients : c = at[t].clt
  BY Zenon DEF EventInv, EventTypes
<1>t. /\ EventTypes /\ LockInv /\ ArmInv(c) /\ unowned = FALSE /\ at[t].pc = "mod" /\ lockWRQ[c] = t
      /\ wrQueue[c] # <<>>
  BY <1>1, RequestsAssumption, Zenon DEF EventInv, PostMod, LockInv, Threads
<1>u. UNCHANGED <<wrQueue, inflight, enableWrite, efd, closed, fd, monitored, scan, cursor, lockMon, io, unowned>>
  BY Zenon DEF PostMod, queueVars, linkVars, monVars, ghosts
<1>l. "free" \notin Threads
  BY RequestsAssumption, Zenon DEF Threads
<1>r. Rest(t) \in Pcs /\ Rest(t) \in {"idle", "posted"}
  BY Zenon DEF Rest, Pcs
<1>2. /\ Goto(t, Rest(t)) /\ lockWRQ' = [lockWRQ EXCEPT ![c] = "free"]
      /\ interest' = [interest EXCEPT ![c] = IF @ = "none" THEN @ ELSE "inout"]
  BY <1>1, Zenon DEF PostMod
<1>3. /\ at' \in [Threads -> [pc : Pcs, clt : Clients]] /\ at'[t].pc = Rest(t) /\ at'[t].clt = c
      /\ \A s \in Threads : s # t => at'[s] = at[s]
  BY <1>t, <1>r, <1>1, <1>2, GotoStep, Zenon
<1>4. /\ LockInv' /\ lockWRQ' \in [Clients -> Threads \cup {"free"}]
      /\ \A d \in Clients : d # c => lockWRQ'[d] = lockWRQ[d]
  BY <1>t, <1>u, <1>r, <1>1, <1>2, <1>3, HolderStep, Zenon
<1>5. /\ interest' \in [Clients -> {"none", "in", "inout"}]
      /\ interest'[c] = (IF interest[c] = "none" THEN "none" ELSE "inout")
      /\ \A d \in Clients : d # c => interest'[d] = interest[d]
  BY <1>t, <1>2, Zenon DEF EventTypes
<1>6. EventTypes' /\ MonInv'
  <2>1. \A d \in Clients : interest'[d] = interest[d] \/ (interest[d] # "none" /\ interest'[d] = "inout")
    BY <1>5, Zenon
  <2>2. MonInv'
    BY <1>t, <1>u, <1>r, <1>3, <2>1, MonKeeps, Zenon
  <2> QED
    BY <1>t, <1>u, <1>3, <1>4, <1>5, <2>2, Zenon DEF EventTypes
<1>7. ASSUME NEW d \in Clients PROVE ArmInv(d)'
  <2>1. CASE d # c
    BY <1>1, <1>t, <1>u, <1>3, <1>4, <1>5, <2>1, OthersKeep, Zenon
  <2>2. CASE d = c
    <3>1. (Live(c)' <=> Live(c)) /\ lockWRQ'[c] = "free"
      BY <1>t, <1>u, <1>2, Zenon DEF Live, EventTypes
    <3>2. Live(c) => interest[c] # "none" /\ enableWrite[c]
      BY <1>t, <1>l, Zenon DEF EventInv, MonInv, ArmInv, Live
    <3>3. CASE Live(c)
      <4>1. interest'[c] = "inout" /\ enableWrite'[c] /\ monitored'[c] /\ fd'[c] /\ efd'[c]
        BY <1>t, <1>u, <1>5, <3>2, <3>3, Zenon DEF ArmInv, Live
      <4> QED
        BY <2>2, <3>1, <4>1, Zenon DEF ArmInv
    <3>4. CASE ~Live(c)
      BY <1>t, <1>u, <2>2, <3>1, <3>4, Zenon DEF ArmInv
    <3> QED
      BY <3>3, <3>4, Zenon
  <2> QED
    BY <2>1, <2>2, Zenon
<1> QED
  BY <1>t, <1>u, <1>4, <1>6, <1>7, Zenon DEF EventInv

-----------------------------------------------------------------------------
\* The locks of the queues do not notice a move of the monitor outside post().
LEMMA MonitorMoves ==
    ASSUME EventInv, at["monitor"].pc \notin {"cas", "mod"}, at'["monitor"].pc \notin {"cas", "mod"},
           \A s \in Threads : s # "monitor" => at'[s] = at[s],
           UNCHANGED <<wrQueue, lockWRQ>>
    PROVE  /\ LockInv'
           /\ \A c \in Clients : lockWRQ[c] # "free" => at'[lockWRQ[c]].pc = at[lockWRQ[c]].pc
<1>1. ASSUME NEW s \in Threads, at'[s].pc \in {"cas", "mod"} PROVE lockWRQ'[at'[s].clt] = s
  BY <1>1, Zenon DEF EventInv, LockInv
<1>2. ASSUME NEW c \in Clients, lockWRQ[c] # "free"
      PROVE  /\ at'[lockWRQ[c]] = at[lockWRQ[c]] /\ at[lockWRQ[c]].pc \in {"cas", "mod"}
             /\ at[lockWRQ[c]].clt = c /\ wrQueue[c] # <<>>
  <2>1. /\ lockWRQ[c] \in Threads /\ at[lockWRQ[c]].pc \in {"cas", "mod"}
        /\ at[lockWRQ[c]].clt = c /\ wrQueue[c] # <<>>
    <3>1. LockInv /\ lockWRQ \in [Clients -> Threads \cup {"free"}]
      BY Zenon DEF EventInv, EventTypes
    <3> QED
      BY <1>2, <3>1 DEF LockInv
  <2> QED
    BY <2>1, Zenon
<1> QED
  BY <1>1, <1>2, Zenon DEF LockInv

\* The monitor goes on outside post() and addMonitored(): it may connect a client
\* that is not in the maps, and turn to the next one.
LEMMA MonitorGoes ==
    ASSUME EventInv, at["monitor"].pc \notin {"cas", "mod", "join"},
           at' \in [Threads -> [pc : Pcs, clt : Clients]], at'["monitor"].pc \notin {"cas", "mod", "join"},
           \A s \in Threads : s # "monitor" => at'[s] = at[s],
           scan' \in Clients, fd' \in [Clients -> BOOLEAN], \A c \in Clients : monitored[c] => fd'[c] = fd[c],
           at'["monitor"].pc \in {"add", "connect"} => scan' = scan /\ ~monitored[scan],
           at'["monitor"].pc = "add" => fd'[scan],
           UNCHANGED <<wrQueue, inflight, enableWrite, efd, monitored, interest, lockWRQ, lockMon, io, cursor,
                       unowned>>
    PROVE  EventInv'
<1>1. EventTypes'
  BY Zenon DEF EventInv, EventTypes
<1>2. LockInv' /\ \A c \in Clients : lockWRQ[c] # "free" => at'[lockWRQ[c]].pc = at[lockWRQ[c]].pc
  BY MonitorMoves, Zenon
<1>3. MonInv'
  BY Zenon DEF EventInv, MonInv
<1>4. ASSUME NEW c \in Clients PROVE ArmInv(c)'
  <2>1. (Live(c)' <=> Live(c)) /\ ArmInv(c)
    BY Zenon DEF EventInv, Live
  <2>2. Live(c) => fd'[c] = fd[c]
    BY Zenon DEF Live
  <2> QED
    BY <1>2, <2>1, <2>2, Zenon DEF ArmInv
<1> QED
  BY <1>1, <1>2, <1>3, <1>4, Zenon DEF EventInv

\* The monitor goes on to one of the clients.
LEMMA ScanType ==
    ASSUME EventInv, NextScan
    PROVE  scan' \in Clients
  BY CountAssumption DEF EventInv, EventTypes, NextScan, Clients

\* monitor(): a visit, connect(), and a failed sp_add().
LEMMA VisitSteps ==
    ASSUME EventInv, MonVisit \/ MonConnect(TRUE) \/ MonConnect(FALSE) \/ MonAddFail
    PROVE  EventInv'
<1>m. "monitor" \in Threads /\ EventTypes
  BY Zenon DEF Threads, EventInv
<1>c. scan \in Clients
  BY <1>m, Zenon DEF EventTypes
<1>1. CASE MonVisit
  <2>1. at["monitor"].pc = "idle"
    BY <1>1, Zenon DEF MonVisit
  <2>2. UNCHANGED <<wrQueue, inflight, enableWrite, efd, fd, monitored, interest, lockWRQ, lockMon, io, cursor, unowned>>
    BY <1>1, Zenon DEF MonVisit, queueVars, armVars, ghosts
  <2>3. CASE ~monitored[scan] /\ Usable(scan) /\ Goto("monitor", "add") /\ scan' = scan
    <3>1. /\ at' \in [Threads -> [pc : Pcs, clt : Clients]] /\ at'["monitor"].pc = "add"
          /\ \A s \in Threads : s # "monitor" => at'[s] = at[s]
      BY <1>m, <2>3, GotoStep, Zenon DEF Pcs
    <3> QED
      BY <1>m, <1>c, <2>1, <2>2, <2>3, <3>1, MonitorGoes, Zenon DEF Usable, EventTypes
  <2>4. CASE ~monitored[scan] /\ Goto("monitor", "connect") /\ scan' = scan
    <3>1. /\ at' \in [Threads -> [pc : Pcs, clt : Clients]] /\ at'["monitor"].pc = "connect"
          /\ \A s \in Threads : s # "monitor" => at'[s] = at[s]
      BY <1>m, <2>4, GotoStep, Zenon DEF Pcs
    <3> QED
      BY <1>m, <1>c, <2>1, <2>2, <2>4, <3>1, MonitorGoes, Zenon DEF EventTypes
  <2>5. CASE at' = at /\ NextScan
    <3>1. at' \in [Threads -> [pc : Pcs, clt : Clients]] /\ scan' \in Clients
      BY <1>m, <2>5, ScanType, Zenon DEF EventTypes
    <3> QED
      BY <1>m, <2>1, <2>2, <2>5, <3>1, MonitorGoes, Zenon DEF EventTypes
  <2>6. CASE at' = [at EXCEPT !["monitor"] = [pc |-> "push", clt |-> scan]] /\ NextScan
    <3>1. /\ at' \in [Threads -> [pc : Pcs, clt : Clients]] /\ scan' \in Clients /\ at'["monitor"].pc = "push"
          /\ \A s \in Threads : s # "monitor" => at'[s] = at[s]
      BY <1>m, <1>c, <2>6, ScanType, Zenon DEF EventTypes, Pcs
    <3> QED
      BY <1>m, <2>1, <2>2, <3>1, MonitorGoes, Zenon DEF EventTypes
  <2> QED
    BY <1>1, <2>3, <2>4, <2>5, <2>6, Zenon DEF MonVisit
<1>2. ASSUME NEW ok \in BOOLEAN, MonConnect(ok) PROVE EventInv'
  <2>1. at["monitor"].pc = "connect" /\ fd' = [fd EXCEPT ![scan] = ok] /\ ~monitored[scan]
    BY <1>2, Zenon DEF MonConnect, EventInv, MonInv
  <2>2. UNCHANGED <<wrQueue, inflight, enableWrite, efd, monitored, interest, lockWRQ, lockMon, io, cursor, unowned>>
    BY <1>2, Zenon DEF MonConnect, queueVars, armVars
  <2>3. /\ fd' \in [Clients -> BOOLEAN] /\ fd'[scan] = ok
        /\ \A c \in Clients : monitored[c] => fd'[c] = fd[c]
    BY <1>m, <1>c, <2>1, Zenon DEF EventTypes
  <2>4. CASE ok = TRUE
    <3>1. Goto("monitor", "add") /\ scan' = scan
      BY <1>2, <2>4, Zenon DEF MonConnect
    <3>2. /\ at' \in [Threads -> [pc : Pcs, clt : Clients]] /\ at'["monitor"].pc = "add"
          /\ \A s \in Threads : s # "monitor" => at'[s] = at[s]
      BY <1>m, <3>1, GotoStep, Zenon DEF Pcs
    <3> QED
      BY <1>c, <2>1, <2>2, <2>3, <2>4, <3>1, <3>2, MonitorGoes, Zenon
  <2>5. CASE ok = FALSE
    <3>1. Goto("monitor", "idle") /\ scan' \in Clients
      BY <1>2, <2>5, ScanType, Zenon DEF MonConnect
    <3>2. /\ at' \in [Threads -> [pc : Pcs, clt : Clients]] /\ at'["monitor"].pc = "idle"
          /\ \A s \in Threads : s # "monitor" => at'[s] = at[s]
      BY <1>m, <3>1, GotoStep, Zenon DEF Pcs
    <3> QED
      BY <2>1, <2>2, <2>3, <3>1, <3>2, MonitorGoes, Zenon
  <2> QED
    BY <2>4, <2>5, Zenon
<1>3. CASE MonAddFail
  <2>1. at["monitor"].pc = "add" /\ Goto("monitor", "idle") /\ scan' \in Clients
    BY <1>3, ScanType, Zenon DEF MonAddFail
  <2>2. UNCHANGED <<wrQueue, inflight, enableWrite, efd, fd, monitored, interest, lockWRQ, lockMon, io, cursor, unowned>>
    BY <1>3, Zenon DEF MonAddFail, queueVars, armVars, linkVars, ghosts
  <2>3. /\ at' \in [Threads -> [pc : Pcs, clt : Clients]] /\ at'["monitor"].pc = "idle"
        /\ \A s \in Threads : s # "monitor" => at'[s] = at[s]
    BY <1>m, <2>1, GotoStep, Zenon DEF Pcs
  <2> QED
    BY <1>m, <2>1, <2>2, <2>3, MonitorGoes, Zenon DEF EventTypes
<1> QED
  BY <1>1, <1>2, <1>3, Zenon

\* addMonitored(): the socket is registered under _lockMonitorColl.
LEMMA AddStep ==
    ASSUME EventInv, MonAdd
    PROVE  EventInv'
<1>m. "monitor" \in Threads /\ EventTypes /\ scan \in Clients
  BY Zenon DEF Threads, EventInv, EventTypes
<1>1. /\ at["monitor"].pc = "add" /\ lockMon = "free" /\ lockMon' = "monitor" /\ Goto("monitor", "join")
      /\ interest' = [interest EXCEPT ![scan] = "in"] /\ ~monitored[scan] /\ fd[scan]
  BY Zenon DEF MonAdd, LockMon, EventInv, MonInv
<1>u. UNCHANGED <<wrQueue, inflight, enableWrite, efd, fd, monitored, lockWRQ, io, scan, cursor, unowned>>
  BY Zenon DEF MonAdd, queueVars, linkVars, monVars, ghosts
<1>2. /\ at' \in [Threads -> [pc : Pcs, clt : Clients]] /\ at'["monitor"].pc = "join"
      /\ \A s \in Threads : s # "monitor" => at'[s] = at[s]
  BY <1>m, <1>1, GotoStep, Zenon DEF Pcs
<1>3. /\ interest' \in [Clients -> {"none", "in", "inout"}] /\ interest'[scan] = "in"
      /\ \A c \in Clients : c # scan => interest'[c] = interest[c]
  BY <1>m, <1>1, Zenon DEF EventTypes
<1>4. EventTypes'
  BY <1>m, <1>1, <1>u, <1>2, <1>3, Zenon DEF EventTypes
<1>5. LockInv' /\ \A c \in Clients : lockWRQ[c] # "free" => at'[lockWRQ[c]].pc = at[lockWRQ[c]].pc
  BY <1>1, <1>u, <1>2, MonitorMoves, Zenon
<1>6. MonInv'
  <2>1. io.pc \in Sending \cup Leaving => monitored[io.clt] /\ io.clt \in Clients
    BY <1>m, Zenon DEF EventInv, MonInv, EventTypes
  <2>2. io.pc \notin Leaving
    BY <1>1, Zenon DEF EventInv, MonInv
  <2>3. io.pc \in Sending => interest'[io.clt] = "inout"
    BY <1>1, <1>3, <2>1, Zenon DEF EventInv, MonInv
  <2>4. ASSUME NEW c \in Clients
        PROVE  interest'[c] # "none" <=> monitored[c] \/ scan = c
    BY <1>1, <1>3, Zenon DEF EventInv, MonInv
  <2> QED
    BY <1>1, <1>u, <1>2, <2>1, <2>2, <2>3, <2>4, Zenon DEF MonInv
<1>7. ASSUME NEW c \in Clients PROVE ArmInv(c)'
  <2>1. CASE c = scan
    BY <1>1, <1>u, <1>3, <2>1, Zenon DEF ArmInv, Live
  <2>2. CASE c # scan
    BY <1>u, <1>3, <1>5, <2>2, ArmFrame, Zenon DEF EventInv, Live
  <2> QED
    BY <2>1, <2>2, Zenon
<1> QED
  BY <1>u, <1>4, <1>5, <1>6, <1>7, Zenon DEF EventInv

\* joinMonitor() under _lockWRQ, and the entry in the maps.
LEMMA JoinStep ==
    ASSUME EventInv, MonJoin
    PROVE  EventInv'
<1>m. "monitor" \in Threads /\ EventTypes /\ scan \in Clients /\ scan' \in Clients
  BY ScanType, Zenon DEF Threads, EventInv, EventTypes, MonJoin
<1>c. PICK c \in Clients : c = scan
  BY <1>m, Zenon
<1>1. /\ at["monitor"].pc = "join" /\ lockMon = "monitor" /\ lockMon' = "free" /\ Goto("monitor", "idle")
      /\ lockWRQ[c] = "free" /\ ~monitored[c] /\ fd[c] /\ io.pc \notin Leaving
  BY <1>c, Zenon DEF MonJoin, EventInv, MonInv
<1>u. UNCHANGED <<wrQueue, inflight, fd, lockWRQ, io, cursor, unowned>>
  BY Zenon DEF MonJoin, queueVars, ghosts
<1>2. /\ at' \in [Threads -> [pc : Pcs, clt : Clients]] /\ at'["monitor"].pc = "idle"
      /\ \A s \in Threads : s # "monitor" => at'[s] = at[s]
  BY <1>m, <1>1, GotoStep, Zenon DEF Pcs
<1>3. /\ enableWrite' = [enableWrite EXCEPT ![c] = Rearm(c)] /\ efd' = [efd EXCEPT ![c] = TRUE]
      /\ interest' = [interest EXCEPT ![c] = IF Rearm(c) THEN "inout" ELSE @]
      /\ monitored' = [monitored EXCEPT ![c] = TRUE]
  BY <1>c, Zenon DEF MonJoin
<1>4. /\ enableWrite'[c] = Rearm(c) /\ efd'[c] = TRUE /\ monitored'[c] = TRUE
      /\ interest'[c] = (IF Rearm(c) THEN "inout" ELSE interest[c])
      /\ \A d \in Clients : d # c => /\ enableWrite'[d] = enableWrite[d] /\ efd'[d] = efd[d]
                                     /\ monitored'[d] = monitored[d] /\ interest'[d] = interest[d]
  BY <1>m, <1>3, Zenon DEF EventTypes
<1>5. interest[c] # "none" /\ (interest[c] = "inout" => wrQueue[c] # <<>>)
  BY <1>c, <1>1, Zenon DEF EventInv, MonInv, ArmInv
<1>6. EventTypes'
  <2>1. Rearm(c) \in BOOLEAN
    BY Zenon DEF Rearm
  <2> QED
    BY <1>m, <1>1, <1>u, <1>2, <1>3, <2>1, Zenon DEF EventTypes
<1>7. LockInv' /\ \A d \in Clients : lockWRQ[d] # "free" => at'[lockWRQ[d]].pc = at[lockWRQ[d]].pc
  BY <1>1, <1>u, <1>2, MonitorMoves, Zenon
<1>8. MonInv'
  <2>1. io.pc \in Sending => monitored[io.clt] /\ io.clt \in Clients /\ io.clt # c /\ interest[io.clt] = "inout"
    BY <1>m, <1>1, Zenon DEF EventInv, MonInv, EventTypes
  <2>2. io.pc \in Sending => monitored'[io.clt] /\ interest'[io.clt] = "inout"
    BY <1>4, <2>1, Zenon
  <2>3. ASSUME NEW d \in Clients
        PROVE  interest'[d] # "none" <=> monitored'[d]
    <3>1. CASE d = c
      BY <1>4, <1>5, <3>1, Zenon
    <3>2. CASE d # c
      BY <1>c, <1>1, <1>4, <3>2, Zenon DEF EventInv, MonInv
    <3> QED
      BY <3>1, <3>2, Zenon
  <2> QED
    BY <1>1, <1>u, <1>2, <2>2, <2>3, Zenon DEF MonInv
<1>9. ASSUME NEW d \in Clients PROVE ArmInv(d)'
  <2>1. CASE d = c
    BY <1>1, <1>u, <1>4, <1>5, <2>1, Zenon DEF ArmInv, Live, Rearm
  <2>2. CASE d # c
    BY <1>u, <1>4, <1>7, <2>2, ArmFrame, Zenon DEF EventInv, Live
  <2> QED
    BY <2>1, <2>2, Zenon
<1> QED
  BY <1>u, <1>6, <1>7, <1>8, <1>9, Zenon DEF EventInv
-----------------------------------------------------------------------------
\* The threads that post and the monitor do not move: the locks hold as before.
LEMMA LocksKept ==
    ASSUME EventInv, UNCHANGED <<at, lockWRQ>>,
           \A c \in Clients : wrQueue'[c] # <<>> \/ wrQueue'[c] = wrQueue[c] \/ lockWRQ[c] = "free"
    PROVE  LockInv'
  BY Zenon DEF EventInv, LockInv

\* Steps that change nothing of the registrations and the queues.
LEMMA Nothing ==
    ASSUME EventInv, unowned' = FALSE,
           UNCHANGED <<wrQueue, inflight, enableWrite, efd, fd, monitored, interest, lockWRQ, lockMon, at, io,
                       scan, cursor>>
    PROVE  EventInv'
<1>1. EventTypes'
  BY Zenon DEF EventInv, EventTypes
<1>2. LockInv' /\ MonInv'
  BY Zenon DEF EventInv, LockInv, MonInv
<1>3. \A c \in Clients : ArmInv(c)'
  BY Zenon DEF EventInv, ArmInv, Live
<1> QED
  BY <1>1, <1>2, <1>3, Zenon DEF EventInv

\* The IO thread finds only clients in the maps: recv() of a message, and the
\* steps of the worker, of stop(), of the peer and of the network.
LEMMA AsideSteps ==
    ASSUME EventInv,
           \/ \E c \in Clients : IoRead(c) \/ ServerTake(c) \/ ServerPush(c) \/ Break(c)
           \/ WorkerPop \/ Stop
    PROVE  EventInv'
<1>1. ASSUME NEW c \in Clients, IoRead(c) PROVE EventInv'
  <2>1. monitored[c]
    BY <1>1, Zenon DEF IoRead, EventInv, MonInv
  <2>2. UNCHANGED unowned
    BY <1>1, <2>1, Zenon DEF IoRead
  <2>3. UNCHANGED <<wrQueue, inflight, enableWrite, efd, fd, monitored, interest, lockWRQ, lockMon, at, io, scan, cursor>>
    BY <1>1, Zenon DEF IoRead, armVars, linkVars, monVars
  <2> QED
    BY <2>2, <2>3, Nothing, Zenon DEF EventInv
<1>2. ASSUME NEW c \in Clients, ServerTake(c) \/ ServerPush(c) \/ Break(c) PROVE EventInv'
  <2>1. UNCHANGED <<wrQueue, inflight, enableWrite, efd, fd, monitored, interest, lockWRQ, lockMon, at, io, scan, cursor, unowned>>
    BY <1>2, Zenon DEF ServerTake, ServerPush, Break, queueVars, armVars, linkVars, monVars, ghosts
  <2> QED
    BY <2>1, Nothing, Zenon DEF EventInv
<1>3. CASE WorkerPop \/ Stop
  <2>1. UNCHANGED <<wrQueue, inflight, enableWrite, efd, fd, monitored, interest, lockWRQ, lockMon, at, io, scan, cursor, unowned>>
    BY <1>3, Zenon DEF WorkerPop, Stop, queueVars, armVars, linkVars, monVars, ghosts
  <2> QED
    BY <2>1, Nothing, Zenon DEF EventInv
<1> QED
  BY <1>1, <1>2, <1>3, Zenon

\* The IO thread goes on with a client, or leaves its loop: nothing but its place
\* and _lockMonitorColl changes.
LEMMA IoGoes ==
    ASSUME EventInv, io' \in [pc : IoPcs, clt : Clients],
           io.pc \notin Leaving, lockMon = "monitor" \/ lockMon = "free",
           io'.pc \in Sending => monitored[io'.clt] /\ interest[io'.clt] = "inout",
           \/ io'.pc \notin Leaving /\ lockMon' = lockMon
           \/ io'.pc \in Leaving /\ monitored[io'.clt] /\ lockMon = "free" /\ lockMon' = "io",
           inflight' \in [Clients -> Msgs],
           UNCHANGED <<wrQueue, enableWrite, efd, fd, monitored, interest, lockWRQ, at, scan, cursor, unowned>>
    PROVE  EventInv'
<1>1. EventTypes'
  BY Zenon DEF EventInv, EventTypes
<1>2. LockInv'
  BY LocksKept, Zenon
<1>3. MonInv'
  BY Zenon DEF EventInv, MonInv
<1>4. ASSUME NEW c \in Clients PROVE ArmInv(c)'
  BY ArmFrame, Zenon DEF EventInv, Live
<1> QED
  BY <1>1, <1>2, <1>3, <1>4, Zenon DEF EventInv

\* recv(), a broken connection and EPOLLOUT: the IO thread picks up an event.
LEMMA IoEventSteps ==
    ASSUME EventInv,
           \/ \E c \in Clients : IoBroken(c) \/ IoWriteEvent(c)
           \/ IoWaitFail \/ IoSendFail
    PROVE  EventInv'
<1>t. EventTypes /\ MonInv /\ unowned = FALSE
  BY Zenon DEF EventInv
<1>d. /\ Leaving = {"leave", "flag", "remove"} /\ Sending = {"pop", "send", "recheck"}
  BY Zenon DEF Leaving, Sending
<1>1. ASSUME NEW c \in Clients, IoBroken(c) PROVE EventInv'
  <2>1. /\ io.pc = "wait" /\ lockMon = "free" /\ monitored[c] /\ io' = [pc |-> "leave", clt |-> c] /\ lockMon' = "io"
    BY <1>1, Zenon DEF IoBroken
  <2>2. UNCHANGED <<wrQueue, inflight, enableWrite, efd, fd, monitored, interest, lockWRQ, at, scan, cursor, unowned>>
    BY <1>1, Zenon DEF IoBroken, queueVars, armVars, linkVars, monVars, ghosts
  <2>3. io' \in [pc : IoPcs, clt : Clients] /\ io'.pc = "leave" /\ io'.clt = c
    BY <2>1, Zenon DEF IoPcs
  <2> QED
    BY <1>t, <1>d, <2>1, <2>2, <2>3, IoGoes, Zenon DEF EventTypes
<1>2. ASSUME NEW c \in Clients, IoWriteEvent(c) PROVE EventInv'
  <2>1. /\ io.pc = "wait" /\ lockMon = "free" /\ monitored[c] /\ interest[c] = "inout" /\ lockMon' = lockMon
        /\ io' = [pc |-> IF closed[c] THEN "wait" ELSE "pop", clt |-> c]
    BY <1>2, Zenon DEF IoWriteEvent
  <2>2. UNCHANGED <<wrQueue, inflight, enableWrite, efd, fd, monitored, interest, lockWRQ, at, scan, cursor, unowned>>
    BY <1>2, Zenon DEF IoWriteEvent, queueVars, armVars, linkVars, monVars, ghosts
  <2>3. io' \in [pc : IoPcs, clt : Clients] /\ io'.pc \in {"wait", "pop"} /\ io'.clt = c
    BY <2>1, Zenon DEF IoPcs
  <2> QED
    BY <1>t, <1>d, <2>1, <2>2, <2>3, IoGoes, Zenon DEF EventTypes
<1>3. CASE IoWaitFail
  <2>1. io.pc = "wait" /\ io' = [io EXCEPT !.pc = "exit"] /\ lockMon' = lockMon
    BY <1>3, Zenon DEF IoWaitFail
  <2>2. UNCHANGED <<wrQueue, inflight, enableWrite, efd, fd, monitored, interest, lockWRQ, at, scan, cursor, unowned>>
    BY <1>3, Zenon DEF IoWaitFail, queueVars, armVars, linkVars, monVars, ghosts
  <2>3. io' \in [pc : IoPcs, clt : Clients] /\ io'.pc = "exit" /\ lockMon \in {"free", "monitor"}
    BY <1>t, <1>d, <2>1, Zenon DEF IoPcs, EventTypes, MonInv
  <2> QED
    BY <1>t, <1>d, <2>1, <2>2, <2>3, IoGoes, Zenon DEF EventTypes
<1>4. CASE IoSendFail
  <2>1. /\ io.pc = "send" /\ lockMon = "free" /\ lockMon' = "io" /\ io' = [io EXCEPT !.pc = "leave"]
        /\ inflight' = [inflight EXCEPT ![io.clt] = <<>>]
    BY <1>4, Zenon DEF IoSendFail
  <2>2. UNCHANGED <<wrQueue, enableWrite, efd, fd, monitored, interest, lockWRQ, at, scan, cursor, unowned>>
    BY <1>4, Zenon DEF IoSendFail, armVars, linkVars, monVars
  <2>3. /\ io' \in [pc : IoPcs, clt : Clients] /\ io'.pc = "leave" /\ io'.clt = io.clt /\ monitored[io.clt]
    BY <1>t, <1>d, <2>1, Zenon DEF IoPcs, EventTypes, MonInv
  <2>4. inflight' \in [Clients -> Msgs]
    <3>1. <<>> \in Msgs
      BY DEF Msgs
    <3> QED
      BY <1>t, <2>1, <3>1, Zenon DEF EventTypes
  <2> QED
    BY <1>t, <1>d, <2>1, <2>2, <2>3, <2>4, IoGoes, Zenon
<1> QED
  BY <1>1, <1>2, <1>3, <1>4, Zenon

\* Splitting a queue or a message: what is taken and what is left.
LEMMA TailType ==
    ASSUME NEW S, NEW q \in Seq(S), q # <<>>
    PROVE  Head(q) \in S /\ Tail(q) \in Seq(S)
  OBVIOUS

\* What is put back in front of a queue leaves it a queue.
LEMMA PutBackType ==
    ASSUME NEW S, NEW m \in Seq(S), NEW n \in 0..Len(m), NEW q \in Seq(Seq(S))
    PROVE  PutBack(SubSeq(m, n + 1, Len(m)), q) \in Seq(Seq(S))
<1>1. SubSeq(m, n + 1, Len(m)) \in Seq(S)
  OBVIOUS
<1>2. \A T : \A x \in T, r \in Seq(T) : <<x>> \o r \in Seq(T)
  OBVIOUS
<1> QED
  BY <1>1, <1>2, Zenon DEF PutBack

\* The IO thread works on the queue of a live client whose lock is free.
LEMMA IoQueueStep ==
    ASSUME EventInv, NEW c \in Clients, c = io.clt, io.pc \in Sending, lockWRQ[c] = "free",
           io' \in [pc : IoPcs, clt : Clients], io'.clt = c, io'.pc \in Sending \cup {"wait"},
           wrQueue' \in [Clients -> Seq(Msgs)], inflight' \in [Clients -> Msgs],
           \A d \in Clients : d # c => wrQueue'[d] = wrQueue[d],
           UNCHANGED <<enableWrite, efd, fd, monitored, interest, lockWRQ, lockMon, at, scan, cursor, unowned>>
    PROVE  EventInv'
<1>d. io.pc \notin Leaving /\ io'.pc \notin Leaving
  BY Zenon DEF Leaving, Sending
<1>1. EventTypes'
  BY Zenon DEF EventInv, EventTypes
<1>2. LockInv'
  BY LocksKept, Zenon
<1>3. MonInv'
  BY <1>d, Zenon DEF EventInv, MonInv
<1>4. ASSUME NEW d \in Clients PROVE ArmInv(d)'
  <2>1. CASE d # c
    BY <1>d, <2>1, ArmFrame, Zenon DEF EventInv, Live
  <2>2. CASE d = c
    <3>1. /\ monitored[c] /\ interest[c] = "inout" /\ Live(c)
      BY <1>d, Zenon DEF EventInv, MonInv, Live
    <3>2. enableWrite[c] /\ fd[c] /\ efd[c]
      BY <3>1, Zenon DEF EventInv, ArmInv
    <3> QED
      BY <2>2, <3>1, <3>2, Zenon DEF ArmInv
  <2> QED
    BY <2>1, <2>2, Zenon
<1> QED
  BY <1>1, <1>2, <1>3, <1>4, Zenon DEF EventInv

\* _SendData(): the front message is taken, and what was not sent put back.
LEMMA SendSteps ==
    ASSUME EventInv, IoPop \/ IoSend
    PROVE  EventInv'
<1>t. EventTypes
  BY Zenon DEF EventInv
<1>c. PICK c \in Clients : c = io.clt
  BY <1>t, Zenon DEF EventTypes
<1>1. CASE IoPop
  <2>1. io.pc = "pop" /\ io.pc \in Sending /\ lockWRQ[c] = "free"
    BY <1>1, <1>c, Zenon DEF IoPop, Sending
  <2>2. UNCHANGED <<enableWrite, efd, fd, monitored, interest, lockWRQ, lockMon, at, scan, cursor, unowned>>
    BY <1>1, Zenon DEF IoPop, armVars, linkVars, monVars, ghosts
  <2>3. PICK l \in {"recheck", "send"} : io' = [io EXCEPT !.pc = l]
    BY <1>1, Zenon DEF IoPop
  <2>4. io' \in [pc : IoPcs, clt : Clients] /\ io'.clt = c /\ io'.pc \in Sending
    BY <1>t, <1>c, <2>3, Zenon DEF EventTypes, IoPcs, Sending
  <2>5. /\ wrQueue' \in [Clients -> Seq(Msgs)] /\ inflight' \in [Clients -> Msgs]
        /\ \A d \in Clients : d # c => wrQueue'[d] = wrQueue[d]
    <3>1. CASE wrQueue[c] = <<>>
      BY <1>t, <1>1, <1>c, <3>1, Zenon DEF IoPop, EventTypes
    <3>2. CASE wrQueue[c] # <<>>
      <4>1. Head(wrQueue[c]) \in Msgs /\ Tail(wrQueue[c]) \in Seq(Msgs)
        BY <1>t, <3>2, TailType, Zenon DEF EventTypes
      <4>2. /\ inflight' = [inflight EXCEPT ![c] = Head(wrQueue[c])]
            /\ wrQueue' = [wrQueue EXCEPT ![c] = Tail(wrQueue[c])]
        BY <1>1, <1>c, <3>2, Zenon DEF IoPop
      <4> QED
        BY <1>t, <4>1, <4>2, Zenon DEF EventTypes
    <3> QED
      BY <3>1, <3>2, Zenon
  <2> QED
    BY <1>c, <2>1, <2>2, <2>4, <2>5, IoQueueStep, Zenon
<1>2. CASE IoSend
  <2>1. io.pc = "send" /\ io.pc \in Sending /\ lockWRQ[c] = "free"
    BY <1>2, <1>c, Zenon DEF IoSend, Sending
  <2>2. UNCHANGED <<enableWrite, efd, fd, monitored, interest, lockWRQ, lockMon, at, scan, cursor, unowned>>
    BY <1>2, Zenon DEF IoSend, armVars, linkVars, monVars, ghosts
  <2>3. io' \in [pc : IoPcs, clt : Clients] /\ io'.clt = c /\ io'.pc = "wait"
    BY <1>t, <1>c, <1>2, Zenon DEF IoSend, EventTypes, IoPcs
  <2>4. inflight' \in [Clients -> Msgs]
    <3>1. <<>> \in Msgs
      BY DEF Msgs
    <3> QED
      BY <1>t, <1>2, <1>c, <3>1, Zenon DEF EventTypes, IoSend
  <2>5. /\ wrQueue' \in [Clients -> Seq(Msgs)]
        /\ \A d \in Clients : d # c => wrQueue'[d] = wrQueue[d]
    <3>1. PICK n \in 0..Len(inflight[c]) :
            wrQueue' = IF n = Len(inflight[c]) THEN wrQueue
                       ELSE [wrQueue EXCEPT ![c] = PutBack(SubSeq(inflight[c], n + 1, Len(inflight[c])), wrQueue[c])]
      BY <1>2, <1>c, Zenon DEF IoSend
    <3>2. inflight[c] \in Seq(Units) /\ wrQueue[c] \in Seq(Seq(Units))
      BY <1>t, Zenon DEF EventTypes, Msgs
    <3>3. PutBack(SubSeq(inflight[c], n + 1, Len(inflight[c])), wrQueue[c]) \in Seq(Msgs)
      BY <3>2, PutBackType, Zenon DEF Msgs
    <3> QED
      BY <1>t, <3>1, <3>3, Zenon DEF EventTypes
  <2> QED
    BY <1>c, <2>1, <2>2, <2>3, <2>4, <2>5, IoQueueStep, Zenon
<1> QED
  BY <1>1, <1>2, Zenon

\* QUEUE_EMPTY: EPOLLOUT is disarmed only when the queue is still empty.
LEMMA RecheckStep ==
    ASSUME EventInv, IoRecheck
    PROVE  EventInv'
<1>t. EventTypes /\ MonInv
  BY Zenon DEF EventInv
<1>c. PICK c \in Clients : c = io.clt
  BY <1>t, Zenon DEF EventTypes
<1>1. /\ io.pc = "recheck" /\ lockWRQ[c] = "free" /\ monitored[c] /\ interest[c] = "inout" /\ Live(c)
      /\ enableWrite[c] /\ fd[c] /\ efd[c] /\ lockMon # "io"
  <2>1. io.pc = "recheck" /\ lockWRQ[c] = "free"
    BY <1>c, Zenon DEF IoRecheck
  <2>2. monitored[c] /\ interest[c] = "inout" /\ Live(c) /\ lockMon # "io"
    BY <1>t, <1>c, <2>1, Zenon DEF MonInv, Live, Sending, Leaving
  <2> QED
    BY <2>1, <2>2, Zenon DEF EventInv, ArmInv
<1>u. UNCHANGED <<wrQueue, inflight, efd, fd, monitored, lockWRQ, lockMon, at, scan, cursor, unowned>>
  BY Zenon DEF IoRecheck, queueVars, linkVars, monVars, ghosts
<1>2. io' \in [pc : IoPcs, clt : Clients] /\ io'.clt = c /\ io'.pc = "wait" /\ io'.pc \notin Sending \cup Leaving
  BY <1>t, <1>c, Zenon DEF IoRecheck, EventTypes, IoPcs, Sending, Leaving
<1>3. CASE wrQueue[c] # <<>>
  <2>1. UNCHANGED <<enableWrite, interest>>
    BY <1>c, <1>3, Zenon DEF IoRecheck, Drained
  <2> QED
    BY <1>t, <1>c, <1>1, <1>u, <1>2, <2>1, IoQueueStep, Zenon DEF Sending, EventTypes
<1>4. CASE wrQueue[c] = <<>>
  <2>1. enableWrite' = [enableWrite EXCEPT ![c] = FALSE] /\ interest' = [interest EXCEPT ![c] = "in"]
    BY <1>c, <1>1, <1>4, Zenon DEF IoRecheck, Drained
  <2>2. /\ enableWrite' \in [Clients -> BOOLEAN] /\ interest' \in [Clients -> {"none", "in", "inout"}]
        /\ enableWrite'[c] = FALSE /\ interest'[c] = "in"
        /\ \A d \in Clients : d # c => enableWrite'[d] = enableWrite[d] /\ interest'[d] = interest[d]
    BY <1>t, <2>1, Zenon DEF EventTypes
  <2>3. EventTypes'
    BY <1>t, <1>u, <1>2, <2>2, Zenon DEF EventTypes
  <2>4. LockInv'
    BY <1>u, LocksKept, Zenon
  <2>5. MonInv'
    BY <1>t, <1>1, <1>u, <1>2, <2>2 DEF MonInv
  <2>6. ASSUME NEW d \in Clients PROVE ArmInv(d)'
    <3>1. CASE d # c
      BY <1>c, <1>u, <1>2, <2>2, <3>1, ArmFrame, Zenon DEF EventInv, Live
    <3>2. CASE d = c
      BY <1>1, <1>u, <1>4, <2>2, <3>2, Zenon DEF ArmInv
    <3> QED
      BY <3>1, <3>2, Zenon
  <2> QED
    BY <1>u, <2>3, <2>4, <2>5, <2>6, Zenon DEF EventInv
<1> QED
  BY <1>3, <1>4, Zenon

\* removeMonitored(): leaveMonitor() without _lockWRQ, then the registration and
\* the maps, all under _lockMonitorColl.
LEMMA LeaveSteps ==
    ASSUME EventInv, IoLeave \/ IoRemove
    PROVE  EventInv'
<1>t. EventTypes /\ MonInv
  BY Zenon DEF EventInv
<1>c. PICK c \in Clients : c = io.clt
  BY <1>t, Zenon DEF EventTypes
<1>d. Leaving = {"leave", "flag", "remove"} /\ Sending = {"pop", "send", "recheck"}
  BY Zenon DEF Leaving, Sending
<1>1. CASE IoLeave
  <2>u. UNCHANGED <<wrQueue, inflight, interest, fd, monitored, lockWRQ, lockMon, at, scan, cursor, unowned>>
    BY <1>1, Zenon DEF IoLeave, queueVars, linkVars, monVars, ghosts
  <2>1. io.pc \in {"leave", "flag"} /\ \E l \in {"flag", "remove"} : io' = [io EXCEPT !.pc = l]
    BY <1>1, Zenon DEF IoLeave
  <2>2. io' \in [pc : IoPcs, clt : Clients] /\ io'.clt = c /\ io'.pc \in Leaving
    BY <1>t, <1>c, <1>d, <2>1, Zenon DEF EventTypes, IoPcs
  <2>3. /\ efd' \in [Clients -> BOOLEAN] /\ enableWrite' \in [Clients -> BOOLEAN]
        /\ \A d \in Clients : d # c => enableWrite'[d] = enableWrite[d] /\ efd'[d] = efd[d]
    BY <1>t, <1>c, <1>1, Zenon DEF EventTypes, IoLeave
  <2>4. EventTypes'
    BY <1>t, <2>u, <2>2, <2>3, Zenon DEF EventTypes
  <2>5. LockInv'
    BY <2>u, LocksKept, Zenon
  <2>6. MonInv'
    BY <1>t, <1>c, <1>d, <2>u, <2>1, <2>2, Zenon DEF MonInv
  <2>7. ASSUME NEW d \in Clients PROVE ArmInv(d)'
    <3>1. CASE d # c
      BY <1>c, <2>u, <2>2, <2>3, <3>1, ArmFrame, Zenon DEF EventInv, Live
    <3>2. CASE d = c
      BY <1>t, <1>c, <1>d, <2>u, <2>1, <2>2, <3>2, Zenon DEF ArmInv, Live, MonInv
    <3> QED
      BY <3>1, <3>2, Zenon
  <2> QED
    BY <2>u, <2>4, <2>5, <2>6, <2>7, Zenon DEF EventInv
<1>2. CASE IoRemove
  <2>u. UNCHANGED <<wrQueue, inflight, enableWrite, efd, fd, lockWRQ, at, scan, cursor, unowned>>
    BY <1>2, Zenon DEF IoRemove, queueVars, monVars, ghosts
  <2>1. /\ io.pc = "remove" /\ lockMon = "io" /\ lockMon' = "free" /\ at["monitor"].pc # "join"
    BY <1>t, <1>d, <1>2, Zenon DEF IoRemove, MonInv
  <2>2. io' \in [pc : IoPcs, clt : Clients] /\ io'.clt = c /\ io'.pc = "wait"
    BY <1>t, <1>c, <1>2, Zenon DEF EventTypes, IoPcs, IoRemove
  <2>3. /\ interest' \in [Clients -> {"none", "in", "inout"}] /\ monitored' \in [Clients -> BOOLEAN]
        /\ interest'[c] = "none" /\ monitored'[c] = FALSE
        /\ \A d \in Clients : d # c => monitored'[d] = monitored[d] /\ interest'[d] = interest[d]
    BY <1>t, <1>c, <1>2, Zenon DEF EventTypes, IoRemove
  <2>4. EventTypes'
    BY <1>t, <2>u, <2>1, <2>2, <2>3, Zenon DEF EventTypes
  <2>5. LockInv'
    BY <2>u, LocksKept, Zenon
  <2>6. MonInv'
    <3>1. scan \in Clients
      BY <1>t, Zenon DEF EventTypes
    <3>2. at["monitor"].pc \in {"add", "connect"} => ~monitored'[scan]
      BY <1>t, <2>3, <3>1, Zenon DEF MonInv
    <3>3. ASSUME NEW d \in Clients PROVE interest'[d] # "none" <=> monitored'[d]
      BY <1>t, <2>1, <2>3, Zenon DEF MonInv
    <3> QED
      BY <1>t, <1>d, <2>u, <2>1, <2>2, <3>2, <3>3, Zenon DEF MonInv
  <2>7. ASSUME NEW d \in Clients PROVE ArmInv(d)'
    <3>1. CASE d # c
      BY <1>c, <2>u, <2>2, <2>3, <3>1, ArmFrame, Zenon DEF EventInv, Live
    <3>2. CASE d = c
      BY <2>3, <3>2, Zenon DEF ArmInv, Live
    <3> QED
      BY <3>1, <3>2, Zenon
  <2> QED
    BY <2>u, <2>4, <2>5, <2>6, <2>7, Zenon DEF EventInv
<1> QED
  BY <1>1, <1>2, Zenon

\* The threads leave; serveUtilStop() deletes the clients.
LEMMA StopSteps ==
    ASSUME EventInv, ThreadExit \/ Join
    PROVE  EventInv'
<1>t. EventTypes /\ MonInv /\ LockInv /\ "monitor" \in Threads /\ unowned = FALSE
  BY Zenon DEF EventInv, Threads
<1>d. Leaving = {"leave", "flag", "remove"} /\ Sending = {"pop", "send", "recheck"}
  BY Zenon DEF Leaving, Sending
<1>1. CASE ThreadExit
  <2>u. UNCHANGED <<wrQueue, inflight, enableWrite, efd, fd, monitored, interest, lockWRQ, lockMon, scan, cursor,
                    unowned>>
    BY <1>1, Zenon DEF ThreadExit, queueVars, armVars, linkVars, monVars, ghosts
  <2>1. CASE io.pc = "wait" /\ io' = [io EXCEPT !.pc = "exit"] /\ UNCHANGED at
    <3>1. io' \in [pc : IoPcs, clt : Clients] /\ io'.pc = "exit" /\ lockMon \in {"free", "monitor"}
      BY <1>t, <1>d, <2>1, Zenon DEF IoPcs, EventTypes, MonInv
    <3> QED
      BY <1>t, <1>d, <2>u, <2>1, <3>1, IoGoes, Zenon DEF EventTypes
  <2>2. CASE at["monitor"].pc = "idle" /\ Goto("monitor", "exit") /\ UNCHANGED io
    <3>1. /\ at' \in [Threads -> [pc : Pcs, clt : Clients]] /\ at'["monitor"].pc = "exit"
          /\ \A s \in Threads : s # "monitor" => at'[s] = at[s]
      BY <1>t, <2>2, GotoStep, Zenon DEF Pcs
    <3> QED
      BY <1>t, <2>u, <2>2, <3>1, MonitorGoes, Zenon DEF EventTypes
  <2>3. CASE UNCHANGED <<io, at>>
    BY <1>t, <2>u, <2>3, Nothing, Zenon
  <2> QED
    BY <1>1, <2>1, <2>2, <2>3, Zenon DEF ThreadExit
<1>2. CASE Join
  <2>1. /\ io.pc = "exit" /\ at["monitor"].pc = "exit"
        /\ \A r \in Requests : at[r].pc \in {"idle", "posted", "refused"}
    BY <1>2, Zenon DEF Join
  <2>2. UNCHANGED <<inflight, enableWrite, efd, lockWRQ, lockMon, at, io, scan, cursor, unowned>>
    BY <1>2, Zenon DEF Join, monVars, ghosts
  <2>3. /\ wrQueue' = [c \in Clients |-> <<>>] /\ fd' = [c \in Clients |-> FALSE]
        /\ monitored' = [c \in Clients |-> FALSE] /\ interest' = [c \in Clients |-> "none"]
    BY <1>2, Zenon DEF Join
  <2>4. \A c \in Clients : lockWRQ[c] = "free"
    <3>1. \A t \in Threads : at[t].pc \notin {"cas", "mod"}
      BY <2>1, Zenon DEF Threads
    <3> QED
      BY <1>t, <3>1 DEF LockInv, EventTypes
  <2>5. EventTypes'
    <3>1. <<>> \in Seq(Msgs)
      OBVIOUS
    <3> QED
      BY <1>t, <2>2, <2>3, <3>1, Zenon DEF EventTypes
  <2>6. LockInv'
    BY <1>t, <2>2, <2>4, Zenon DEF LockInv
  <2>7. MonInv'
    BY <1>t, <1>d, <2>1, <2>2, <2>3, Zenon DEF MonInv
  <2>8. ASSUME NEW c \in Clients PROVE ArmInv(c)'
    BY <2>3, Zenon DEF ArmInv, Live
  <2> QED
    BY <1>t, <2>2, <2>5, <2>6, <2>7, <2>8, Zenon DEF EventInv
<1> QED
  BY <1>1, <1>2, Zenon

\* The invariant holds when start() has run.
LEMMA EventInitial == Init => EventInv
<1> SUFFICES ASSUME Init PROVE EventInv
  BY Zenon
<1>1. /\ wrQueue = [c \in Clients |-> <<>>] /\ inflight = [c \in Clients |-> <<>>]
      /\ enableWrite = [c \in Clients |-> FALSE] /\ efd = [c \in Clients |-> FALSE]
      /\ interest = [c \in Clients |-> "none"] /\ monitored = [c \in Clients |-> FALSE]
      /\ fd \in [Clients -> BOOLEAN] /\ scan = 1 /\ cursor = 0 /\ unowned = FALSE
      /\ lockWRQ = [c \in Clients |-> "free"] /\ lockMon = "free"
      /\ at = [t \in Threads |-> [pc |-> "idle", clt |-> 1]] /\ io = [pc |-> "wait", clt |-> 1]
  BY Zenon DEF Init
<1>2. 1 \in Clients /\ "monitor" \in Threads
  BY CountAssumption DEF Clients, Threads
<1>3. EventTypes
  <2>1. <<>> \in Seq(Msgs) /\ <<>> \in Msgs
    BY DEF Msgs
  <2>2. /\ at \in [Threads -> [pc : Pcs, clt : Clients]] /\ io \in [pc : IoPcs, clt : Clients]
    BY <1>1, <1>2, Zenon DEF Pcs, IoPcs
  <2>3. /\ enableWrite \in [Clients -> BOOLEAN] /\ efd \in [Clients -> BOOLEAN] /\ monitored \in [Clients -> BOOLEAN]
    BY <1>1, Zenon
  <2> QED
    BY <1>1, <1>2, <2>1, <2>2, <2>3, Zenon DEF EventTypes
<1>4. LockInv
  BY <1>1, Zenon DEF LockInv
<1>5. MonInv
  BY <1>1, <1>2, Zenon DEF MonInv, Leaving, Sending
<1>6. \A c \in Clients : ArmInv(c)
  BY <1>1, Zenon DEF ArmInv, Live
<1> QED
  BY <1>1, <1>3, <1>4, <1>5, <1>6, Zenon DEF EventInv

\* Every step keeps the invariant.
LEMMA EventStep == EventInv /\ [Next]_vars => EventInv'
<1> SUFFICES ASSUME EventInv, [Next]_vars PROVE EventInv'
  BY Zenon
<1>1. CASE UNCHANGED vars
  <2>1. UNCHANGED <<wrQueue, inflight, enableWrite, efd, fd, monitored, interest, lockWRQ, lockMon, at, io,
                    scan, cursor, unowned>>
    BY <1>1, Zenon DEF vars, queueVars, armVars, linkVars, monVars, ghosts
  <2> QED
    BY <2>1, Nothing, Zenon DEF EventInv
<1>2. CASE \E r \in Requests : Request(r) \/ RequestStep(r)
  BY <1>2, RequestSteps, Zenon
<1>3. CASE \E t \in Threads : PostStep(t)
  BY <1>3, PushStep, CasStep, ModStep, Zenon DEF PostStep
<1>4. CASE MonStep
  BY <1>4, VisitSteps, AddStep, JoinStep, Zenon DEF MonStep
<1>5. CASE \E c \in Clients : IoEvent(c)
  BY <1>5, AsideSteps, IoEventSteps, Zenon DEF IoEvent
<1>6. CASE IoStep
  BY <1>6, SendSteps, IoEventSteps, RecheckStep, LeaveSteps, Zenon DEF IoStep
<1>7. CASE WorkerPop \/ Stop \/ IoWaitFail \/ ThreadExit \/ Join
  BY <1>7, AsideSteps, IoEventSteps, StopSteps, Zenon
<1>8. CASE \E c \in Clients : ServerTake(c) \/ ServerPush(c) \/ Break(c)
  BY <1>8, AsideSteps, Zenon
<1> QED
  BY <1>1, <1>2, <1>3, <1>4, <1>5, <1>6, <1>7, <1>8, Zenon DEF Next

\* The strengthening of EventsSound that every step keeps.
THEOREM EventInvariance == Spec => []EventInv
  BY EventInitial, EventStep, PTL DEF Spec

\* No wake-up is lost and no received byte is without its client: while a client is
\* monitored and nobody is inside its locks, messages in _wrQueue have EPOLLOUT
\* armed, and the branch of ioprocessor() that drops an unidentified read is dead.
THEOREM EventsAreSound == Spec => []EventsSound
<1>1. EventInv => EventsSound
  <2> SUFFICES ASSUME EventInv PROVE EventsSound
    BY Zenon
  <2>1. ASSUME NEW c \in Clients, monitored[c], lockWRQ[c] = "free", lockMon = "free", wrQueue[c] # <<>>
        PROVE  enableWrite[c] /\ interest[c] = "inout"
    BY <2>1, Zenon DEF EventInv, MonInv, ArmInv, Live
  <2> QED
    BY <2>1, Zenon DEF EventsSound, WriteArmed, ReadsAreOwned, EventInv
<1> QED
  BY <1>1, EventInvariance, PTL
-----------------------------------------------------------------------------
(* The bytes in either direction.                                          *)

\* A whole message, as post() queues it.
Full(m) == \E t \in Threads : m = << <<t, 1>>, <<t, 2>> >>

\* What has to follow the bytes s already sent: after a header, its rest.
Continues(m, s) == IF Even(s) THEN Full(m) ELSE m = << <<s[Len(s)][1], 2>> >>

\* The queue q holds whole messages; its first one, or the one m that _SendData()
\* holds, may be the rest of one.
QueueOk(q, m) ==
    /\ \A i \in 2..Len(q) : Full(q[i])
    /\ m = <<>> /\ q # <<>> => Full(q[1]) \/ Len(q[1]) = 1
    /\ m # <<>> => (Full(m) \/ Len(m) = 1) /\ (q # <<>> => Full(q[1]))

\* What is on the way to the server, followed by what waits, is a sequence of messages.
OutOk(s, q, m) ==
    /\ Aligned(s)
    /\ m # <<>> => Continues(m, s)
    /\ m = <<>> /\ q # <<>> => Continues(q[1], s)
    /\ m = <<>> /\ q = <<>> => Even(s)

\* The bytes on the way, and whether a connection is up.
StreamTypes ==
    /\ toServer \in [Clients -> Msgs] /\ toClient \in [Clients -> Msgs] /\ recvCache \in [Clients -> Msgs]
    /\ up \in [Clients -> BOOLEAN]

\* On a connection that did not begin with a part of a message, what is on the way
\* in either direction is a sequence of messages.
StreamOf(c) ==
    /\ QueueOk(wrQueue[c], inflight[c])
    /\ inflight[c] # <<>> => io.pc = "send" /\ io.clt = c
    /\ ~up[c] => toClient[c] = <<>>
    /\ up[c] /\ c \notin cut =>
          /\ OutOk(toServer[c], wrQueue[c], inflight[c])
          /\ Aligned(recvCache[c] \o toClient[c]) /\ Even(recvCache[c] \o toClient[c])

\* The inductive invariant of GarbledOnlyIfCut, relative to EventInv.
StreamInv == StreamTypes /\ (\A c \in Clients : StreamOf(c)) /\ GarbledOnlyIfCut
-----------------------------------------------------------------------------
\* post() appends a whole message.
LEMMA PushOk ==
    ASSUME NEW S, NEW q \in Seq(S), NEW m, NEW x \in S, Full(x), QueueOk(q, m)
    PROVE  /\ QueueOk(Append(q, x), m)
           /\ \A s : OutOk(s, q, m) => OutOk(s, Append(q, x), m)
<1> DEFINE z == Append(q, x)
<1>1. /\ z \in Seq(S) /\ Len(q) \in Nat /\ Len(z) = Len(q) + 1 /\ z[Len(q) + 1] = x
      /\ \A i \in 1..Len(q) : z[i] = q[i]
  <2>1. z \in Seq(S) /\ Len(q) \in Nat /\ Len(z) = Len(q) + 1
    OBVIOUS
  <2>2. z[Len(q) + 1] = x
    OBVIOUS
  <2>3. ASSUME NEW i \in 1..Len(q) PROVE z[i] = q[i]
    OBVIOUS
  <2> QED
    BY <2>1, <2>2, <2>3, Zenon
<1>2. z # <<>>
  BY <1>1, Len(<<>>) = 0
<1>3. q = <<>> => z[1] = x
  BY <1>1, Len(<<>>) = 0
<1>4. q # <<>> => z[1] = q[1]
  BY <1>1
<1> HIDE DEF z
<1>5. \A i \in 2..Len(z) : Full(z[i])
  <2> SUFFICES ASSUME NEW i \in 2..Len(z) PROVE Full(z[i])
    BY Zenon
  <2>1. CASE i = Len(q) + 1
    BY <1>1, <2>1, Zenon
  <2>2. CASE i # Len(q) + 1
    <3>1. i \in 2..Len(q) /\ i \in 1..Len(q)
      BY <1>1, <2>2
    <3> QED
      BY <1>1, <3>1, Zenon DEF QueueOk
  <2> QED
    BY <2>1, <2>2, Zenon
<1>6. QueueOk(z, m)
  BY <1>2, <1>3, <1>4, <1>5, Zenon DEF QueueOk
<1>7. ASSUME NEW s, OutOk(s, q, m) PROVE OutOk(s, z, m)
  <2>1. CASE q = <<>>
    BY <1>2, <1>3, <1>7, <2>1, Zenon DEF OutOk, Continues
  <2>2. CASE q # <<>>
    BY <1>2, <1>4, <1>7, <2>2, Zenon DEF OutOk
  <2> QED
    BY <2>1, <2>2, Zenon
<1> QED
  BY <1>6, <1>7, Zenon DEF z

\* A whole message has two units, and a message is not empty.
LEMMA FullLength ==
    ASSUME NEW m, Full(m)
    PROVE  Len(m) = 2 /\ m # <<>> /\ \E t \in Threads : m = << <<t, 1>>, <<t, 2>> >>
<1>1. PICK t \in Threads : m = << <<t, 1>>, <<t, 2>> >>
  BY Zenon DEF Full
<1>2. Len(m) = 2
  BY <1>1, Zenon
<1> QED
  BY <1>1, <1>2, Len(<<>>) = 0, Zenon

\* _SendData() takes the front of the queue.
LEMMA PopOk ==
    ASSUME NEW S, NEW q \in Seq(S), q # <<>>, QueueOk(q, <<>>)
    PROVE  /\ Head(q) # <<>> /\ QueueOk(Tail(q), Head(q))
           /\ \A s : OutOk(s, q, <<>>) => OutOk(s, Tail(q), Head(q))
<1>1. /\ Head(q) = q[1] /\ Tail(q) \in Seq(S) /\ Len(q) \in Nat /\ Len(q) >= 1 /\ Len(Tail(q)) = Len(q) - 1
      /\ \A i \in 1..Len(q) - 1 : Tail(q)[i] = q[i + 1]
  OBVIOUS
<1>2. Full(q[1]) \/ Len(q[1]) = 1
  BY Zenon DEF QueueOk
<1>3. q[1] # <<>>
  BY <1>2, FullLength, Len(<<>>) = 0
<1>4. \A i \in 1..Len(Tail(q)) : Full(Tail(q)[i])
  <2> SUFFICES ASSUME NEW i \in 1..Len(Tail(q)) PROVE Full(Tail(q)[i])
    BY Zenon
  <2>1. i + 1 \in 2..Len(q) /\ Tail(q)[i] = q[i + 1]
    BY <1>1
  <2> QED
    BY <2>1, Zenon DEF QueueOk
<1>5. QueueOk(Tail(q), q[1])
  <2>0. \A r \in Seq(S) : r # <<>> => 1 \in 1..Len(r)
    OBVIOUS
  <2>1. Tail(q) # <<>> => Full(Tail(q)[1])
    BY <1>1, <1>4, <2>0, Zenon
  <2>2. \A i \in 2..Len(Tail(q)) : Full(Tail(q)[i])
    BY <1>1, <1>4
  <2> QED
    BY <1>2, <1>3, <2>1, <2>2, Zenon DEF QueueOk
<1>6. ASSUME NEW s, OutOk(s, q, <<>>) PROVE OutOk(s, Tail(q), q[1])
  BY <1>3, <1>6, Zenon DEF OutOk
<1> QED
  BY <1>1, <1>3, <1>5, <1>6, Zenon

\* What was not sent goes back to the front.
LEMMA BackOk ==
    ASSUME NEW S, NEW q \in Seq(S), NEW m, m # <<>>, QueueOk(q, m), NEW x \in S, Full(x) \/ Len(x) = 1
    PROVE  /\ QueueOk(<<x>> \o q, <<>>) /\ <<x>> \o q # <<>> /\ (<<x>> \o q)[1] = x
<1> DEFINE z == <<x>> \o q
<1>1. /\ z \in Seq(S) /\ Len(q) \in Nat /\ Len(z) = Len(q) + 1 /\ z[1] = x
      /\ \A i \in 2..Len(q) + 1 : z[i] = q[i - 1]
  OBVIOUS
<1>2. z # <<>>
  BY <1>1, Len(<<>>) = 0
<1> HIDE DEF z
<1>3. \A i \in 2..Len(z) : Full(z[i])
  <2> SUFFICES ASSUME NEW i \in 2..Len(z) PROVE Full(z[i])
    BY Zenon
  <2>1. z[i] = q[i - 1] /\ i - 1 \in 1..Len(q) /\ q # <<>>
    BY <1>1, Len(<<>>) = 0
  <2>2. CASE i = 2
    <3>1. Full(q[1]) /\ i - 1 = 1
      BY <2>1, <2>2 DEF QueueOk
    <3> QED
      BY <2>1, <3>1, Zenon
  <2>3. CASE i # 2
    <3>1. i - 1 \in 2..Len(q)
      BY <1>1, <2>3
    <3> QED
      BY <2>1, <3>1, Zenon DEF QueueOk
  <2> QED
    BY <2>2, <2>3, Zenon
<1> QED
  BY <1>1, <1>2, <1>3, Zenon DEF QueueOk, z

\* One unit of a message.
LEMMA OneUnit ==
    ASSUME NEW S, NEW r \in Seq(S), NEW i \in 1..Len(r)
    PROVE  SubSeq(r, i, i) = <<r[i]>>
<1>1. ASSUME NEW a \in Nat, NEW b \in Nat, a >= 1, b = a, b <= Len(r)
      PROVE  LET q == SubSeq(r, a, b) IN q \in Seq(S) /\ Len(q) = 1 /\ q[1] = r[a]
  BY <1>1
<1>2. SubSeq(r, i, i) \in Seq(S) /\ Len(SubSeq(r, i, i)) = 1 /\ SubSeq(r, i, i)[1] = r[i]
  <2>1. i \in Nat /\ i >= 1 /\ i <= Len(r)
    OBVIOUS
  <2> QED
    BY <1>1, <2>1, Zenon
<1>3. \A p \in Seq(S) : Len(p) = 1 => p = <<p[1]>>
  OBVIOUS
<1> QED
  BY <1>2, <1>3, Zenon

\* The bytes of a message that continues the stream, all of them or its header, and
\* what is then left to send.
LEMMA SentOk ==
    ASSUME NEW s \in Msgs, NEW m \in Msgs, Aligned(s), Continues(m, s)
    PROVE  /\ s \o m \in Msgs /\ Aligned(s \o m) /\ Even(s \o m)
           /\ \A t \in Threads : m = << <<t, 1>>, <<t, 2>> >> =>
                 /\ Aligned(s \o << <<t, 1>> >>)
                 /\ Continues(<< <<t, 2>> >>, s \o << <<t, 1>> >>)
<1>1. CASE Even(s)
  <2>1. PICK t \in Threads : m = << <<t, 1>>, <<t, 2>> >>
    BY <1>1, Zenon DEF Continues, Full
  <2>2. \A u \in Threads : <<u, 1>> \in Units /\ <<u, 2>> \in Units
    BY Zenon DEF Units
  <2>3. s \o m \in Msgs /\ Aligned(s \o m) /\ Even(s \o m)
    BY <1>1, <2>1, <2>2, AlignedMessage, Zenon DEF Msgs
  <2>4. ASSUME NEW u \in Threads
        PROVE  /\ Aligned(s \o << <<u, 1>> >>)
               /\ Continues(<< <<u, 2>> >>, s \o << <<u, 1>> >>)
    <3> DEFINE z == s \o << <<u, 1>> >>
    <3>1. Aligned(z) /\ ~Even(z) /\ z[Len(z)] = <<u, 1>>
      BY <1>1, <2>2, AlignedHeader, Zenon DEF Msgs
    <3> HIDE DEF z
    <3>2. z[Len(z)][1] = u
      BY <3>1
    <3>3. Continues(<< <<u, 2>> >>, z)
      BY <3>1, <3>2, Zenon DEF Continues
    <3> QED
      BY <3>1, <3>3, Zenon DEF z
  <2> QED
    BY <2>3, <2>4, Zenon
<1>2. CASE ~Even(s)
  <2>1. m = << <<s[Len(s)][1], 2>> >>
    BY <1>2, Zenon DEF Continues
  <2>2. \A S : \A x : <<x>> \in Seq(S) => x \in S
    <3> SUFFICES ASSUME NEW S, NEW x, <<x>> \in Seq(S) PROVE x \in S
      BY Zenon
    <3>1. <<x>>[1] \in S
      <4>1. 1 \in 1..Len(<<x>>)
        OBVIOUS
      <4> QED
        BY <4>1
    <3> QED
      BY <3>1, Zenon
  <2>3. <<s[Len(s)][1], 2>> \in Units
    BY <2>1, <2>2, Zenon DEF Msgs
  <2>4. s \o m \in Msgs /\ Aligned(s \o m) /\ Even(s \o m)
    BY <1>2, <2>1, <2>3, AlignedRest, Zenon DEF Msgs
  <2>5. Len(m) = 1
    BY <2>1, Zenon
  <2>6. \A t \in Threads : m # << <<t, 1>>, <<t, 2>> >>
    BY <2>5
  <2> QED
    BY <2>4, <2>6, Zenon
<1> QED
  BY <1>1, <1>2, Zenon

\* send() takes n units, and the rest goes back to the queue.
LEMMA SendOk ==
    ASSUME NEW m \in Msgs, NEW n \in 0..Len(m), NEW q \in Seq(Msgs), QueueOk(q, m),
           NEW z, z = IF n = Len(m) THEN q ELSE PutBack(SubSeq(m, n + 1, Len(m)), q)
    PROVE  /\ QueueOk(z, <<>>)
           /\ \A s \in Msgs : OutOk(s, q, m) => OutOk(s \o SubSeq(m, 1, n), z, <<>>)
<1>n. PICK l \in Nat : l = Len(m) /\ n \in Nat /\ n <= l
  BY DEF Msgs
<1>0. Len(m) \in Nat /\ n \in Nat /\ n <= Len(m) /\ SubSeq(m, 1, Len(m)) = m /\ SubSeq(m, 1, 0) = <<>>
  BY DEF Msgs
<1>e. \A s \in Msgs : s \o <<>> = s
  BY DEF Msgs
<1>1. CASE m = <<>>
  <2>1. n = 0 /\ n = Len(m)
    BY <1>0, <1>1, Len(<<>>) = 0
  <2>2. z = q /\ SubSeq(m, 1, n) = <<>>
    BY <1>0, <2>1, Zenon
  <2> QED
    BY <1>1, <1>e, <2>2, Zenon
<1>2. CASE m # <<>> /\ n = Len(m)
  <2>1. z = q /\ SubSeq(m, 1, n) = m
    BY <1>0, <1>2, Zenon
  <2>2. q # <<>> => Full(q[1])
    BY <1>2, Zenon DEF QueueOk
  <2>3. QueueOk(q, <<>>)
    BY <2>2, Zenon DEF QueueOk
  <2>4. ASSUME NEW s \in Msgs, OutOk(s, q, m) PROVE OutOk(s \o m, q, <<>>)
    <3>1. Aligned(s \o m) /\ Even(s \o m)
      BY <1>2, <2>4, SentOk, Zenon DEF OutOk
    <3> QED
      BY <2>2, <3>1, Zenon DEF OutOk, Continues
  <2> QED
    BY <2>1, <2>3, <2>4, Zenon
<1>3. CASE m # <<>> /\ n = 0 /\ n # Len(m)
  <2>1. z = <<m>> \o q /\ SubSeq(m, 1, n) = <<>>
    <3>1. n + 1 = 1
      BY <1>3
    <3> QED
      BY <1>0, <1>3, <3>1, Zenon DEF PutBack
  <2>2. QueueOk(z, <<>>) /\ z # <<>> /\ z[1] = m
    <3>1. Full(m) \/ Len(m) = 1
      BY <1>3, Zenon DEF QueueOk
    <3> QED
      BY <1>3, <2>1, <3>1, BackOk, Zenon
  <2>3. ASSUME NEW s \in Msgs, OutOk(s, q, m) PROVE OutOk(s, z, <<>>)
    BY <1>3, <2>2, <2>3, Zenon DEF OutOk
  <2> QED
    BY <1>e, <2>1, <2>2, <2>3, Zenon
<1>4. CASE m # <<>> /\ n # 0 /\ n # Len(m)
  <2>1. Full(m)
    <3>1. n # 0 /\ n # l => l # 1
      BY <1>n
    <3>2. Len(m) # 1
      BY <1>n, <1>4, <3>1, Zenon
    <3> QED
      BY <1>4, <3>2, Zenon DEF QueueOk
  <2>2. PICK t \in Threads : m = << <<t, 1>>, <<t, 2>> >> /\ Len(m) = 2
    BY <2>1, FullLength, Zenon
  <2>3. n = 1
    BY <1>0, <1>4, <2>2
  <2>4. SubSeq(m, 1, 1) = << <<t, 1>> >> /\ SubSeq(m, 2, 2) = << <<t, 2>> >>
    <3>1. m[1] = <<t, 1>> /\ m[2] = <<t, 2>> /\ m \in Seq(Units)
      BY <2>2, Zenon DEF Msgs
    <3>2. 1 \in 1..Len(m) /\ 2 \in 1..Len(m)
      BY <2>2
    <3> QED
      BY <3>1, <3>2, OneUnit, Zenon
  <2>5. z = << << <<t, 2>> >> >> \o q /\ SubSeq(m, 1, n) = << <<t, 1>> >>
    <3>1. n + 1 = 2
      BY <2>3
    <3> QED
      BY <1>4, <2>2, <2>3, <2>4, <3>1, Zenon DEF PutBack
  <2>6. << <<t, 2>> >> \in Msgs /\ Len(<< <<t, 2>> >>) = 1
    <3>1. \A S : \A a \in S : <<a>> \in Seq(S)
      OBVIOUS
    <3> QED
      BY <3>1, Zenon DEF Msgs, Units
  <2>7. QueueOk(z, <<>>) /\ z # <<>> /\ z[1] = << <<t, 2>> >>
    BY <1>4, <2>5, <2>6, BackOk, Zenon
  <2>8. ASSUME NEW s \in Msgs, OutOk(s, q, m) PROVE OutOk(s \o << <<t, 1>> >>, z, <<>>)
    <3>1. Aligned(s \o << <<t, 1>> >>) /\ Continues(<< <<t, 2>> >>, s \o << <<t, 1>> >>)
      BY <1>4, <2>2, <2>8, SentOk, Zenon DEF OutOk
    <3> QED
      BY <2>7, <3>1, Zenon DEF OutOk
  <2> QED
    BY <2>5, <2>7, <2>8, Zenon
<1> QED
  BY <1>1, <1>2, <1>3, <1>4, Zenon

\* The server takes the first message off the stream.
LEMMA TakeOk ==
    ASSUME NEW s \in Msgs, Len(s) >= 2, NEW q, NEW m, OutOk(s, q, m)
    PROVE  OutOk(SubSeq(s, 3, Len(s)), q, m)
<1> DEFINE z == SubSeq(s, 3, Len(s))
<1>1. Aligned(z) /\ (Even(z) <=> Even(s)) /\ (~Even(s) => z[Len(z)] = s[Len(s)])
  BY FirstMessage, Zenon DEF OutOk, Msgs
<1> HIDE DEF z
<1>2. \A x : Continues(x, s) => Continues(x, z)
  BY <1>1, Zenon DEF Continues
<1>3. OutOk(z, q, m)
  BY <1>1, <1>2, Zenon DEF OutOk
<1> QED
  BY <1>3, Zenon DEF z

\* A step that leaves the bytes of a client alone keeps what is known of them.
LEMMA StreamFrame ==
    ASSUME NEW c \in Clients, StreamOf(c),
           wrQueue'[c] = wrQueue[c], inflight'[c] = inflight[c], recvCache'[c] = recvCache[c],
           toServer'[c] = toServer[c], toClient'[c] = toClient[c], up'[c] = up[c], cut \subseteq cut',
           inflight[c] # <<>> => io'.pc = "send" /\ io'.clt = c
    PROVE  StreamOf(c)'
  BY Zenon DEF StreamOf

\* A step that changes the bytes of one client only.
LEMMA StreamChange ==
    ASSUME StreamInv, NEW c \in Clients, StreamTypes', StreamOf(c)', cut \subseteq cut', garbled' \subseteq cut',
           \A d \in Clients : d # c =>
              /\ wrQueue'[d] = wrQueue[d] /\ inflight'[d] = inflight[d] /\ recvCache'[d] = recvCache[d]
              /\ toServer'[d] = toServer[d] /\ toClient'[d] = toClient[d] /\ up'[d] = up[d],
           io.pc = "send" /\ io.clt # c => io' = io
    PROVE  StreamInv'
<1>1. ASSUME NEW d \in Clients PROVE StreamOf(d)'
  <2>1. CASE d = c
    BY <2>1, Zenon
  <2>2. CASE d # c
    <3>1. StreamOf(d)
      BY Zenon DEF StreamInv
    <3>2. inflight[d] # <<>> => io'.pc = "send" /\ io'.clt = d
      BY <2>2, <3>1, Zenon DEF StreamOf
    <3> QED
      BY <2>2, <3>1, <3>2, StreamFrame, Zenon
  <2> QED
    BY <2>1, <2>2, Zenon
<1> QED
  BY <1>1, Zenon DEF StreamInv, GarbledOnlyIfCut

\* A step that leaves all the bytes alone, and the message that _SendData() holds.
LEMMA StreamQuiet ==
    ASSUME StreamInv, UNCHANGED <<wrQueue, inflight, recvCache, toServer, toClient, up, cut, garbled>>,
           io.pc = "send" => io' = io
    PROVE  StreamInv'
<1>1. ASSUME NEW d \in Clients PROVE StreamOf(d)'
  <2>1. StreamOf(d)
    BY Zenon DEF StreamInv
  <2>2. inflight[d] # <<>> => io'.pc = "send" /\ io'.clt = d
    BY <2>1, Zenon DEF StreamOf
  <2> QED
    BY <2>1, <2>2, StreamFrame, Zenon
<1> QED
  BY <1>1, Zenon DEF StreamInv, StreamTypes, GarbledOnlyIfCut

\* The steps that move no bytes.
LEMMA QuietSteps ==
    ASSUME StreamInv,
           \/ \E r \in Requests : Request(r) \/ RequestStep(r)
           \/ \E t \in Threads : PostCas(t) \/ PostMod(t)
           \/ MonVisit \/ MonAdd \/ MonAddFail \/ MonJoin
           \/ \E c \in Clients : IoBroken(c) \/ IoWriteEvent(c)
           \/ IoRecheck \/ IoLeave \/ IoRemove
           \/ WorkerPop \/ Stop \/ IoWaitFail \/ ThreadExit \/ UNCHANGED vars
    PROVE  StreamInv'
<1> USE DEF queueVars, netVars, ghosts
<1>1. ASSUME NEW r \in Requests, Request(r) \/ RequestStep(r) PROVE StreamInv'
  BY <1>1, StreamQuiet, Zenon DEF Request, RequestStep, GetClient, EraseHandler
<1>2. ASSUME NEW t \in Threads, PostCas(t) \/ PostMod(t) PROVE StreamInv'
  BY <1>2, StreamQuiet, Zenon DEF PostCas, PostMod
<1>3. CASE MonVisit
  BY <1>3, StreamQuiet, Zenon DEF MonVisit
<1>4. CASE MonAdd \/ MonAddFail
  BY <1>4, StreamQuiet, Zenon DEF MonAdd, MonAddFail
<1>5. CASE MonJoin
  BY <1>5, StreamQuiet, Zenon DEF MonJoin
<1>6. ASSUME NEW c \in Clients, IoBroken(c) \/ IoWriteEvent(c) PROVE StreamInv'
  BY <1>6, StreamQuiet, Zenon DEF IoBroken, IoWriteEvent
<1>7. CASE IoRecheck
  BY <1>7, StreamQuiet, Zenon DEF IoRecheck
<1>8. CASE IoLeave \/ IoRemove
  BY <1>8, StreamQuiet, Zenon DEF IoLeave, IoRemove
<1>9. CASE WorkerPop
  BY <1>9, StreamQuiet, Zenon DEF WorkerPop
<1>10. CASE Stop \/ IoWaitFail
  BY <1>10, StreamQuiet, Zenon DEF Stop, IoWaitFail
<1>11. CASE ThreadExit
  <2>1. UNCHANGED <<wrQueue, inflight, recvCache, toServer, toClient, up, cut, garbled>>
    BY <1>11, Zenon DEF ThreadExit
  <2>2. io.pc = "send" => io' = io
    BY <1>11, Zenon DEF ThreadExit
  <2> QED
    BY <2>1, <2>2, StreamQuiet, Zenon
<1>12. CASE UNCHANGED vars
  BY <1>12, StreamQuiet, Zenon DEF vars
<1> QED
  BY <1>1, <1>2, <1>3, <1>4, <1>5, <1>6, <1>7, <1>8, <1>9, <1>10, <1>11, <1>12, Zenon

\* post() and _SendData(): the queue of one client.
LEMMA StreamPush ==
    ASSUME EventInv, StreamInv, NEW t \in Threads, PostPush(t)
    PROVE  StreamInv'
<1> USE DEF queueVars, netVars, ghosts
<1>1. PICK c \in Clients : c = at[t].clt
  BY Zenon DEF EventInv, EventTypes
<1>2. UNCHANGED <<inflight, recvCache, toServer, toClient, up, cut, garbled, io>>
  BY Zenon DEF PostPush
<1>3. CASE wrQueue' = wrQueue
  BY <1>2, <1>3, StreamQuiet, Zenon
<1>4. CASE wrQueue' # wrQueue
  <2>1. wrQueue' = [wrQueue EXCEPT ![c] = Append(@, << <<t, 1>>, <<t, 2>> >>)]
    BY <1>1, <1>4, Zenon DEF PostPush
  <2>2. PICK m : m = << <<t, 1>>, <<t, 2>> >>
    BY Zenon
  <2>3. m \in Msgs /\ Full(m)
    BY <2>2, ThreadMsg, Zenon DEF Full
  <2>4. /\ wrQueue[c] \in Seq(Msgs) /\ wrQueue'[c] = Append(wrQueue[c], m)
        /\ \A d \in Clients : d # c => wrQueue'[d] = wrQueue[d]
    BY <2>1, <2>2, Zenon DEF EventInv, EventTypes
  <2>5. StreamOf(c)
    BY Zenon DEF StreamInv
  <2>6. QueueOk(wrQueue[c], inflight[c])
    BY <2>5, Zenon DEF StreamOf
  <2>7. /\ QueueOk(wrQueue'[c], inflight[c])
        /\ \A s : OutOk(s, wrQueue[c], inflight[c]) => OutOk(s, wrQueue'[c], inflight[c])
    BY <2>3, <2>4, <2>6, PushOk, Zenon
  <2>8. StreamOf(c)'
    BY <1>2, <2>5, <2>7, Zenon DEF StreamOf
  <2>9. StreamTypes' /\ cut \subseteq cut' /\ garbled' \subseteq cut'
    BY <1>2, Zenon DEF StreamInv, StreamTypes, GarbledOnlyIfCut
  <2> QED
    BY <1>2, <2>4, <2>8, <2>9, StreamChange, Zenon
<1> QED
  BY <1>3, <1>4, Zenon

\* _SendData() takes the front message of one client.
LEMMA StreamPop ==
    ASSUME EventInv, StreamInv, IoPop
    PROVE  StreamInv'
<1> USE DEF queueVars, netVars, ghosts
<1>1. PICK c \in Clients : c = io.clt
  BY Zenon DEF EventInv, EventTypes
<1>2. UNCHANGED <<recvCache, toServer, toClient, up, cut, garbled>> /\ io.pc = "pop"
  BY Zenon DEF IoPop
<1>3. CASE wrQueue[c] = <<>>
  <2>1. UNCHANGED <<wrQueue, inflight>>
    BY <1>1, <1>3, Zenon DEF IoPop
  <2> QED
    BY <1>2, <2>1, StreamQuiet, Zenon
<1>4. CASE wrQueue[c] # <<>>
  <2>1. /\ inflight' = [inflight EXCEPT ![c] = Head(wrQueue[c])]
        /\ wrQueue' = [wrQueue EXCEPT ![c] = Tail(@)]
        /\ io' = [io EXCEPT !.pc = "send"]
    BY <1>1, <1>4, Zenon DEF IoPop
  <2>2. /\ wrQueue[c] \in Seq(Msgs) /\ wrQueue'[c] = Tail(wrQueue[c]) /\ inflight'[c] = Head(wrQueue[c])
        /\ \A d \in Clients : d # c => wrQueue'[d] = wrQueue[d] /\ inflight'[d] = inflight[d]
        /\ io'.pc = "send" /\ io'.clt = c
    BY <1>1, <2>1, Zenon DEF EventInv, EventTypes
  <2>3. StreamOf(c)
    BY Zenon DEF StreamInv
  <2>4. inflight[c] = <<>> /\ QueueOk(wrQueue[c], <<>>)
    BY <1>2, <2>3, Zenon DEF StreamOf
  <2>5. /\ QueueOk(wrQueue'[c], inflight'[c])
        /\ \A s : OutOk(s, wrQueue[c], <<>>) => OutOk(s, wrQueue'[c], inflight'[c])
    BY <1>4, <2>2, <2>4, PopOk, Zenon
  <2>6. StreamOf(c)'
    BY <1>2, <2>2, <2>3, <2>4, <2>5, Zenon DEF StreamOf
  <2>7. StreamTypes' /\ cut \subseteq cut' /\ garbled' \subseteq cut'
    BY <1>2, Zenon DEF StreamInv, StreamTypes, GarbledOnlyIfCut
  <2> QED
    BY <1>2, <2>2, <2>6, <2>7, StreamChange, Zenon
<1> QED
  BY <1>3, <1>4, Zenon

\* send() takes a part of the message, and the rest goes back to the front.
LEMMA StreamSend ==
    ASSUME EventInv, StreamInv, IoSend
    PROVE  StreamInv'
<1> USE DEF queueVars, netVars, ghosts
<1>1. PICK c \in Clients : c = io.clt
  BY Zenon DEF EventInv, EventTypes
<1>2. UNCHANGED <<recvCache, toClient, up, cut, garbled>> /\ io.pc = "send"
  BY Zenon DEF IoSend
<1>3. PICK m \in Msgs, q \in Seq(Msgs), s \in Msgs : m = inflight[c] /\ q = wrQueue[c] /\ s = toServer[c]
  BY Zenon DEF EventInv, EventTypes, StreamInv, StreamTypes
<1>4. PICK n \in 0..Len(m) :
          /\ toServer' = [toServer EXCEPT ![c] = s \o SubSeq(m, 1, n)]
          /\ wrQueue' = IF n = Len(m) THEN wrQueue
                        ELSE [wrQueue EXCEPT ![c] = PutBack(SubSeq(m, n + 1, Len(m)), q)]
  BY <1>1, <1>3, Zenon DEF IoSend
<1>5. inflight' = [inflight EXCEPT ![c] = <<>>]
  BY <1>1, Zenon DEF IoSend
<1>6. PICK z : z = IF n = Len(m) THEN q ELSE PutBack(SubSeq(m, n + 1, Len(m)), q)
  BY Zenon
<1>7. /\ wrQueue'[c] = z
      /\ \A d \in Clients : d # c => wrQueue'[d] = wrQueue[d]
  <2>1. CASE n = Len(m)
    BY <1>3, <1>4, <1>6, <2>1, Zenon
  <2>2. CASE n # Len(m)
    BY <1>3, <1>4, <1>6, <2>2, Zenon DEF EventInv, EventTypes
  <2> QED
    BY <2>1, <2>2, Zenon
<1>8. /\ toServer'[c] = s \o SubSeq(m, 1, n) /\ inflight'[c] = <<>>
      /\ \A d \in Clients : d # c => toServer'[d] = toServer[d] /\ inflight'[d] = inflight[d]
  BY <1>4, <1>5, Zenon DEF EventInv, EventTypes, StreamInv, StreamTypes
<1>9. StreamOf(c)
  BY Zenon DEF StreamInv
<1>10. /\ QueueOk(z, <<>>)
       /\ OutOk(s, q, m) => OutOk(s \o SubSeq(m, 1, n), z, <<>>)
  <2>1. QueueOk(q, m)
    BY <1>3, <1>9, Zenon DEF StreamOf
  <2> QED
    BY <1>6, <2>1, SendOk, Zenon
<1>11. StreamOf(c)'
  BY <1>2, <1>3, <1>7, <1>8, <1>9, <1>10, Zenon DEF StreamOf
<1>12. s \o SubSeq(m, 1, n) \in Msgs
  <2>1. SubSeq(m, 1, n) \in Seq(Units)
    BY DEF Msgs
  <2>2. \A x \in Seq(Units), y \in Seq(Units) : x \o y \in Seq(Units)
    OBVIOUS
  <2> QED
    BY <2>1, <2>2, Zenon DEF Msgs
<1>13. StreamTypes' /\ cut \subseteq cut' /\ garbled' \subseteq cut'
  BY <1>2, <1>4, <1>12, Zenon DEF StreamInv, StreamTypes, GarbledOnlyIfCut
<1>14. io.pc = "send" /\ io.clt # c => io' = io
  BY <1>1, Zenon
<1> QED
  BY <1>2, <1>7, <1>8, <1>11, <1>13, <1>14, StreamChange, Zenon

\* A failed send drops the message that _SendData() holds: the connection is gone.
LEMMA StreamSendFail ==
    ASSUME EventInv, StreamInv, IoSendFail
    PROVE  StreamInv'
<1> USE DEF queueVars, netVars, ghosts
<1>1. PICK c \in Clients : c = io.clt
  BY Zenon DEF EventInv, EventTypes
<1>2. UNCHANGED <<wrQueue, recvCache, toServer, toClient, up, cut, garbled>> /\ io.pc = "send" /\ ~up[c]
  BY <1>1, Zenon DEF IoSendFail
<1>3. inflight'[c] = <<>> /\ \A d \in Clients : d # c => inflight'[d] = inflight[d]
  BY <1>1, Zenon DEF IoSendFail, EventInv, EventTypes
<1>4. StreamOf(c)
  BY Zenon DEF StreamInv
<1>5. QueueOk(wrQueue[c], <<>>)
  BY <1>4, Zenon DEF StreamOf, QueueOk
<1>6. StreamOf(c)'
  BY <1>2, <1>3, <1>4, <1>5, Zenon DEF StreamOf
<1>7. StreamTypes' /\ cut \subseteq cut' /\ garbled' \subseteq cut'
  BY <1>2, Zenon DEF StreamInv, StreamTypes, GarbledOnlyIfCut
<1>8. io.pc = "send" /\ io.clt # c => io' = io
  BY <1>1, Zenon
<1> QED
  BY <1>2, <1>3, <1>6, <1>7, <1>8, StreamChange, Zenon

\* connect(): a connection that begins with a part of a message is cut, any other
\* one starts with nothing on the way and a whole message at the front.
LEMMA StreamConnect ==
    ASSUME EventInv, StreamInv, NEW ok \in BOOLEAN, MonConnect(ok)
    PROVE  StreamInv'
<1> USE DEF queueVars, netVars, ghosts
<1>1. PICK c \in Clients : c = scan
  BY Zenon DEF EventInv, EventTypes
<1>2. UNCHANGED <<wrQueue, inflight, recvCache, garbled, io>>
  BY Zenon DEF MonConnect
<1>3. /\ up' = [up EXCEPT ![c] = ok]
      /\ toServer' = [toServer EXCEPT ![c] = <<>>] /\ toClient' = [toClient EXCEPT ![c] = <<>>]
      /\ cut' = IF ok /\ Partial(c) THEN cut \cup {c} ELSE cut
  BY <1>1, Zenon DEF MonConnect
<1>4. /\ up'[c] = ok /\ toServer'[c] = <<>> /\ toClient'[c] = <<>>
      /\ \A d \in Clients : d # c => up'[d] = up[d] /\ toServer'[d] = toServer[d] /\ toClient'[d] = toClient[d]
  BY <1>3, Zenon DEF StreamInv, StreamTypes
<1>5. StreamOf(c)
  BY Zenon DEF StreamInv
<1>6. ~monitored[c]
  BY <1>1, Zenon DEF EventInv, MonInv, MonConnect
<1>7. inflight[c] = <<>>
  BY <1>5, <1>6, Zenon DEF StreamOf, EventInv, MonInv, Sending
<1>8. QueueOk(wrQueue[c], <<>>)
  BY <1>5, <1>7, Zenon DEF StreamOf
<1>9. ASSUME ~Partial(c)
      PROVE  OutOk(<<>>, wrQueue[c], <<>>) /\ recvCache[c] = <<>>
  <2>1. recvCache[c] = <<>>
    BY <1>9, Zenon DEF Partial
  <2>2. wrQueue[c] # <<>> => Full(wrQueue[c][1])
    <3>1. \A S : \A q \in Seq(S) : q # <<>> => Head(q) = q[1]
      OBVIOUS
    <3>2. wrQueue[c] \in Seq(Msgs)
      BY Zenon DEF EventInv, EventTypes
    <3> QED
      BY <1>8, <1>9, <3>1, <3>2, Zenon DEF Partial, QueueOk
  <2> QED
    BY <2>1, <2>2, AlignedEmpty, Zenon DEF OutOk, Continues
<1>10. StreamOf(c)'
  <2>1. up'[c] /\ c \notin cut' => ~Partial(c)
    BY <1>3, <1>4, Zenon
  <2>2. <<>> \o <<>> = <<>>
    OBVIOUS
  <2>3. QueueOk(wrQueue'[c], inflight'[c])
    BY <1>2, <1>7, <1>8, Zenon
  <2>4. up'[c] /\ c \notin cut' =>
          /\ OutOk(toServer'[c], wrQueue'[c], inflight'[c])
          /\ Aligned(recvCache'[c] \o toClient'[c]) /\ Even(recvCache'[c] \o toClient'[c])
    BY <1>2, <1>4, <1>7, <1>9, <2>1, <2>2, AlignedEmpty, Zenon
  <2> QED
    BY <1>2, <1>4, <1>7, <2>3, <2>4, Zenon DEF StreamOf
<1>11. cut \subseteq cut' /\ garbled' \subseteq cut'
  BY <1>2, <1>3, Zenon DEF StreamInv, GarbledOnlyIfCut
<1>12. StreamTypes'
  <2>1. <<>> \in Msgs
    BY DEF Msgs
  <2> QED
    BY <1>2, <1>3, <2>1, Zenon DEF StreamInv, StreamTypes
<1> QED
  BY <1>2, <1>4, <1>10, <1>11, <1>12, StreamChange, Zenon

\* A broken connection has nothing on the way.
LEMMA StreamBreak ==
    ASSUME StreamInv, NEW c \in Clients, Break(c)
    PROVE  StreamInv'
<1> USE DEF queueVars, netVars, ghosts
<1>1. UNCHANGED <<wrQueue, inflight, recvCache, garbled, cut, io>>
  BY Zenon DEF Break
<1>2. /\ up' = [up EXCEPT ![c] = FALSE]
      /\ toServer' = [toServer EXCEPT ![c] = <<>>] /\ toClient' = [toClient EXCEPT ![c] = <<>>]
  BY Zenon DEF Break
<1>3. /\ ~up'[c] /\ toClient'[c] = <<>>
      /\ \A d \in Clients : d # c => up'[d] = up[d] /\ toServer'[d] = toServer[d] /\ toClient'[d] = toClient[d]
  BY <1>2, Zenon DEF StreamInv, StreamTypes
<1>4. StreamOf(c)
  BY Zenon DEF StreamInv
<1>5. StreamOf(c)'
  BY <1>1, <1>3, <1>4, Zenon DEF StreamOf
<1>6. StreamTypes'
  <2>1. <<>> \in Msgs
    BY DEF Msgs
  <2> QED
    BY <1>1, <1>2, <2>1, Zenon DEF StreamInv, StreamTypes
<1> QED
  BY <1>1, <1>3, <1>5, <1>6, StreamChange, Zenon DEF StreamInv, GarbledOnlyIfCut

\* serveUtilStop() deletes the clients.
LEMMA StreamJoin ==
    ASSUME StreamInv, Join
    PROVE  StreamInv'
<1> USE DEF queueVars, netVars, ghosts
<1>1. UNCHANGED <<inflight, garbled, cut, io>> /\ io.pc = "exit"
  BY Zenon DEF Join
<1>2. /\ up' = [c \in Clients |-> FALSE] /\ wrQueue' = [c \in Clients |-> <<>>]
      /\ toServer' = [c \in Clients |-> <<>>] /\ toClient' = [c \in Clients |-> <<>>]
      /\ recvCache' = [c \in Clients |-> <<>>]
  BY Zenon DEF Join
<1>3. ASSUME NEW c \in Clients PROVE StreamOf(c)'
  <2>1. inflight[c] = <<>>
    BY <1>1, Zenon DEF StreamInv, StreamOf
  <2>2. QueueOk(<<>>, <<>>)
    BY Len(<<>>) = 0 DEF QueueOk
  <2> QED
    BY <1>1, <1>2, <2>1, <2>2, Zenon DEF StreamOf
<1>4. StreamTypes'
  <2>1. <<>> \in Msgs
    BY DEF Msgs
  <2> QED
    BY <1>2, <2>1, Zenon DEF StreamTypes
<1> QED
  BY <1>1, <1>3, <1>4, Zenon DEF StreamInv, GarbledOnlyIfCut

\* More bytes of the server at the end of the stream.
LEMMA MoreBytes ==
    ASSUME NEW S, NEW a \in Seq(S), NEW b \in Seq(S), Aligned(a \o b), Even(a \o b),
           NEW t, <<t, 1>> \in S, <<t, 2>> \in S
    PROVE  LET z == a \o (b \o << <<t, 1>>, <<t, 2>> >>) IN Aligned(z) /\ Even(z)
<1>1. << <<t, 1>>, <<t, 2>> >> \in Seq(S)
  <2>1. \A x, y \in S : <<x, y>> \in Seq(S)
    OBVIOUS
  <2> QED
    BY <2>1, Zenon
<1>2. ASSUME NEW p \in Seq(S), NEW q \in Seq(S), NEW r \in Seq(S) PROVE p \o (q \o r) = (p \o q) \o r
  BY SMTT(30)
<1>3. a \o (b \o << <<t, 1>>, <<t, 2>> >>) = (a \o b) \o << <<t, 1>>, <<t, 2>> >>
  BY <1>1, <1>2, Zenon
<1>4. a \o b \in Seq(S)
  OBVIOUS
<1> QED
  BY <1>3, <1>4, AlignedMessage, Zenon

\* The server sends a message nobody asked for.
LEMMA StreamServerPush ==
    ASSUME StreamInv, NEW c \in Clients, ServerPush(c)
    PROVE  StreamInv'
<1> USE DEF queueVars, netVars, ghosts
<1>1. UNCHANGED <<wrQueue, inflight, recvCache, toServer, up, garbled, cut, io>> /\ up[c]
  BY Zenon DEF ServerPush
<1>2. /\ toClient'[c] = toClient[c] \o << <<"push", 1>>, <<"push", 2>> >>
      /\ \A d \in Clients : d # c => toClient'[d] = toClient[d]
  BY Zenon DEF ServerPush, StreamInv, StreamTypes
<1>3. StreamOf(c) /\ recvCache[c] \in Seq(Units) /\ toClient[c] \in Seq(Units)
  BY Zenon DEF StreamInv, StreamTypes, Msgs
<1>4. <<"push", 1>> \in Units /\ <<"push", 2>> \in Units
  BY Zenon DEF Units
<1>5. c \notin cut => Aligned(recvCache[c] \o toClient'[c]) /\ Even(recvCache[c] \o toClient'[c])
  BY <1>1, <1>2, <1>3, <1>4, MoreBytes, Zenon DEF StreamOf
<1>6. StreamOf(c)'
  BY <1>1, <1>3, <1>5, Zenon DEF StreamOf
<1>7. StreamTypes'
  <2>1. << <<"push", 1>>, <<"push", 2>> >> \in Seq(Units)
    <3>1. \A S : \A x, y \in S : <<x, y>> \in Seq(S)
      OBVIOUS
    <3> QED
      BY <1>4, <3>1, Zenon
  <2>2. \A x \in Seq(Units), y \in Seq(Units) : x \o y \in Seq(Units)
    OBVIOUS
  <2>3. toClient[c] \o << <<"push", 1>>, <<"push", 2>> >> \in Msgs
    BY <1>3, <2>1, <2>2, Zenon DEF Msgs
  <2>4. toClient' = [toClient EXCEPT ![c] = toClient[c] \o << <<"push", 1>>, <<"push", 2>> >>]
    BY Zenon DEF ServerPush
  <2> QED
    BY <1>1, <2>3, <2>4, Zenon DEF StreamInv, StreamTypes
<1> QED
  BY <1>1, <1>2, <1>6, <1>7, StreamChange, Zenon DEF StreamInv, GarbledOnlyIfCut

\* The server takes the first message off the stream and answers a request.
LEMMA StreamServerTake ==
    ASSUME StreamInv, NEW c \in Clients, ServerTake(c)
    PROVE  StreamInv'
<1> USE DEF queueVars, netVars, ghosts
<1>1. UNCHANGED <<wrQueue, inflight, recvCache, up, cut, io>> /\ up[c]
  BY Zenon DEF ServerTake
<1>0. PICK s \in Msgs : s = toServer[c]
  BY Zenon DEF StreamInv, StreamTypes
<1>2. PICK p, z : s = toServer[c] /\ p = SubSeq(s, 1, 2) /\ z = SubSeq(s, 3, Len(s))
  BY <1>0, Zenon
<1>3. /\ Len(s) >= 2 /\ toServer' = [toServer EXCEPT ![c] = z]
      /\ toClient' = toClient \/ toClient' = [toClient EXCEPT ![c] = toClient[c] \o p]
      /\ garbled' = IF Whole(p) THEN garbled ELSE garbled \cup {c}
  BY <1>2, Zenon DEF ServerTake
<1>4. p \in Seq(Units) /\ z \in Seq(Units)
  <2>1. ASSUME NEW x \in Seq(Units), Len(x) >= 2
        PROVE  SubSeq(x, 1, 2) \in Seq(Units) /\ SubSeq(x, 3, Len(x)) \in Seq(Units)
    BY <2>1
  <2> QED
    BY <1>2, <1>3, <2>1, Zenon DEF Msgs
<1>5. StreamOf(c) /\ recvCache[c] \in Seq(Units) /\ toClient[c] \in Seq(Units)
  BY Zenon DEF StreamInv, StreamTypes, Msgs
<1>6. /\ toServer'[c] = z /\ toClient'[c] \in {toClient[c], toClient[c] \o p}
      /\ \A d \in Clients : d # c => toServer'[d] = toServer[d] /\ toClient'[d] = toClient[d]
  <2>1. CASE toClient' = toClient
    BY <1>3, <2>1, Zenon DEF StreamInv, StreamTypes
  <2>2. CASE toClient' = [toClient EXCEPT ![c] = toClient[c] \o p]
    BY <1>3, <2>2, Zenon DEF StreamInv, StreamTypes
  <2> QED
    BY <1>3, <2>1, <2>2, Zenon
<1>7. ASSUME c \notin cut
      PROVE  /\ Whole(p) /\ OutOk(z, wrQueue[c], inflight[c])
             /\ Aligned(recvCache[c] \o toClient'[c]) /\ Even(recvCache[c] \o toClient'[c])
  <2>1. /\ OutOk(s, wrQueue[c], inflight[c]) /\ Aligned(s)
        /\ Aligned(recvCache[c] \o toClient[c]) /\ Even(recvCache[c] \o toClient[c])
    BY <1>1, <1>2, <1>5, <1>7, Zenon DEF StreamOf, OutOk
  <2>2. OutOk(z, wrQueue[c], inflight[c])
    BY <1>2, <1>3, <2>1, TakeOk, Zenon
  <2>3. PICK t : Whole(p) /\ p = << <<t, 1>>, <<t, 2>> >> /\ <<t, 1>> \in Units /\ <<t, 2>> \in Units
    BY <1>2, <1>3, <2>1, FirstMessage, Zenon DEF Msgs
  <2>4. LET y == recvCache[c] \o (toClient[c] \o p) IN Aligned(y) /\ Even(y)
    BY <1>5, <2>1, <2>3, MoreBytes, Zenon
  <2> QED
    BY <1>6, <2>1, <2>2, <2>3, <2>4, Zenon
<1>8. StreamOf(c)'
  BY <1>1, <1>5, <1>6, <1>7, Zenon DEF StreamOf
<1>9. garbled' \subseteq cut'
  BY <1>1, <1>3, <1>7, Zenon DEF StreamInv, GarbledOnlyIfCut
<1>10. StreamTypes'
  <2>1. toClient[c] \o p \in Msgs /\ z \in Msgs
    <3>1. \A x \in Seq(Units), y \in Seq(Units) : x \o y \in Seq(Units)
      OBVIOUS
    <3> QED
      BY <1>4, <1>5, <3>1, Zenon DEF Msgs
  <2>2. toClient' \in [Clients -> Msgs]
    BY <1>3, <2>1, Zenon DEF StreamInv, StreamTypes
  <2> QED
    BY <1>1, <1>3, <2>1, <2>2, Zenon DEF StreamInv, StreamTypes
<1> QED
  BY <1>1, <1>6, <1>8, <1>9, <1>10, StreamChange, Zenon

\* The bytes that a read moves stay bytes, aligned or not.
LEMMA ReadTypes ==
    ASSUME NEW S, NEW a \in Seq(S), NEW b \in Seq(S), NEW n \in 1..Len(b)
    PROVE  /\ SubSeq(b, n + 1, Len(b)) \in Seq(S)
           /\ a \o SubSeq(b, 1, n) \in Seq(S) /\ Remainder(a \o SubSeq(b, 1, n)) \in Seq(S)
<1>1. SubSeq(b, n + 1, Len(b)) \in Seq(S) /\ SubSeq(b, 1, n) \in Seq(S)
  OBVIOUS
<1>c. \A p \in Seq(S), q \in Seq(S) : p \o q \in Seq(S)
  OBVIOUS
<1>2. PICK x \in Seq(S) : x = a \o SubSeq(b, 1, n)
  BY <1>1, <1>c, Zenon
<1>3. Remainder(x) \in Seq(S)
  <2>1. PICK l \in Nat : l = Len(x)
    OBVIOUS
  <2>2. PICK h \in Nat : 2 * h <= l /\ l - (l % 2) = 2 * h
    <3>1. PICK h \in Nat : (l = 2 * h /\ l % 2 = 0) \/ (l = 2 * h + 1 /\ l % 2 = 1)
      BY Half, Zenon
    <3>2. 2 * h <= l /\ l - (l % 2) = 2 * h
      BY <3>1
    <3> QED
      BY <3>2, Zenon
  <2>3. PICK f \in Nat : f = 2 * h + 1 /\ f >= 1 /\ l - (l % 2) + 1 = f
    BY <2>2
  <2>4. SubSeq(x, f, l) \in Seq(S)
    BY <2>1, <2>3
  <2> QED
    BY <2>1, <2>3, <2>4, Zenon DEF Remainder
<1> QED
  BY <1>1, <1>2, <1>3, Zenon

\* onRecv(): the whole messages are cut off the front of the cache.
LEMMA StreamRead ==
    ASSUME EventInv, StreamInv, NEW c \in Clients, IoRead(c)
    PROVE  StreamInv'
<1> USE DEF queueVars, netVars, ghosts
<1>1. UNCHANGED <<wrQueue, inflight, toServer, up, cut, io>> /\ toClient[c] # <<>>
  BY Zenon DEF IoRead
<1>2. monitored[c]
  BY Zenon DEF IoRead, EventInv, MonInv
<1>3. PICK a \in Seq(Units), b \in Seq(Units) : a = recvCache[c] /\ b = toClient[c]
  BY Zenon DEF StreamInv, StreamTypes, Msgs
<1>4. PICK n \in 1..Len(b) :
         LET new == Frames(a \o SubSeq(b, 1, n))
             bad == {p \in Range(new) : ~Whole(p)}
         IN /\ toClient' = [toClient EXCEPT ![c] = SubSeq(b, n + 1, Len(b))]
            /\ recvCache' = [recvCache EXCEPT ![c] = Remainder(a \o SubSeq(b, 1, n))]
            /\ garbled' = IF bad = {} THEN garbled ELSE garbled \cup {c}
  BY <1>2, <1>3, Zenon DEF IoRead
<1>5. PICK cache, left : cache = a \o SubSeq(b, 1, n) /\ left = SubSeq(b, n + 1, Len(b))
  BY Zenon
<1>6. /\ toClient' = [toClient EXCEPT ![c] = left] /\ recvCache' = [recvCache EXCEPT ![c] = Remainder(cache)]
      /\ garbled' = garbled \/ (garbled' = garbled \cup {c} /\ \E p \in Range(Frames(cache)) : ~Whole(p))
  BY <1>4, <1>5, Zenon
<1>7. cache \in Seq(Units) /\ left \in Seq(Units) /\ Remainder(cache) \in Seq(Units)
  BY <1>5, ReadTypes, Zenon
<1>8. /\ toClient'[c] = left /\ recvCache'[c] = Remainder(cache)
      /\ \A d \in Clients : d # c => toClient'[d] = toClient[d] /\ recvCache'[d] = recvCache[d]
  BY <1>6, Zenon DEF StreamInv, StreamTypes
<1>9. StreamOf(c) /\ up[c]
  BY <1>1, Zenon DEF StreamInv, StreamOf, StreamTypes
<1>10. ASSUME c \notin cut
       PROVE  /\ Aligned(cache)
              /\ Aligned(Remainder(cache) \o left) /\ Even(Remainder(cache) \o left)
  <2>1. Aligned(a \o b) /\ Even(a \o b)
    BY <1>3, <1>9, <1>10, Zenon DEF StreamOf
  <2> QED
    BY <1>5, <2>1, ReadSplit, Zenon
<1>11. StreamOf(c)'
  BY <1>1, <1>8, <1>9, <1>10, Zenon DEF StreamOf
<1>12. garbled' \subseteq cut'
  <2>1. CASE c \in cut
    BY <1>1, <1>6, <2>1, Zenon DEF StreamInv, GarbledOnlyIfCut
  <2>2. CASE c \notin cut
    <3>1. \A i \in DOMAIN Frames(cache) : Whole(Frames(cache)[i])
      BY <1>7, <1>10, <2>2, FramesWhole, Zenon
    <3>2. \A p \in Range(Frames(cache)) : Whole(p)
      BY <3>1, Zenon DEF Range
    <3> QED
      BY <1>1, <1>6, <3>2, Zenon DEF StreamInv, GarbledOnlyIfCut
  <2> QED
    BY <2>1, <2>2, Zenon
<1>13. StreamTypes'
  BY <1>1, <1>6, <1>7, Zenon DEF StreamInv, StreamTypes, Msgs
<1> QED
  BY <1>1, <1>8, <1>11, <1>12, <1>13, StreamChange, Zenon

\* Nothing is on the way when start() has run.
LEMMA StreamInitial == Init => StreamInv
<1> SUFFICES ASSUME Init PROVE StreamInv
  BY Zenon
<1>1. ASSUME NEW c \in Clients PROVE StreamOf(c)
  <2>1. /\ wrQueue[c] = <<>> /\ inflight[c] = <<>> /\ recvCache[c] = <<>>
        /\ toServer[c] = <<>> /\ toClient[c] = <<>>
    BY Zenon DEF Init
  <2>2. <<>> \o <<>> = <<>>
    OBVIOUS
  <2>3. QueueOk(<<>>, <<>>)
    BY Len(<<>>) = 0 DEF QueueOk
  <2>4. OutOk(<<>>, <<>>, <<>>)
    BY AlignedEmpty, Zenon DEF OutOk
  <2> QED
    BY <2>1, <2>2, <2>3, <2>4, AlignedEmpty, Zenon DEF StreamOf
<1>2. StreamTypes
  <2>1. <<>> \in Msgs
    BY DEF Msgs
  <2> QED
    BY <2>1, Zenon DEF Init, StreamTypes
<1> QED
  BY <1>1, <1>2, Zenon DEF Init, StreamInv, GarbledOnlyIfCut

\* Every step keeps the invariant.
LEMMA StreamStep == EventInv /\ StreamInv /\ [Next]_vars => StreamInv'
<1> SUFFICES ASSUME EventInv, StreamInv, [Next]_vars PROVE StreamInv'
  BY Zenon
<1>1. ASSUME NEW t \in Threads, PostStep(t) PROVE StreamInv'
  BY <1>1, StreamPush, QuietSteps, Zenon DEF PostStep
<1>2. CASE MonStep
  BY <1>2, StreamConnect, QuietSteps, Zenon DEF MonStep
<1>3. ASSUME NEW c \in Clients, IoEvent(c) PROVE StreamInv'
  BY <1>3, StreamRead, QuietSteps, Zenon DEF IoEvent
<1>4. CASE IoStep
  BY <1>4, StreamPop, StreamSend, StreamSendFail, QuietSteps, Zenon DEF IoStep
<1>5. ASSUME NEW c \in Clients, ServerTake(c) \/ ServerPush(c) \/ Break(c) PROVE StreamInv'
  BY <1>5, StreamServerTake, StreamServerPush, StreamBreak, Zenon
<1>6. CASE (\E r \in Requests : Request(r) \/ RequestStep(r)) \/ WorkerPop \/ Stop \/ IoWaitFail \/ ThreadExit
           \/ UNCHANGED vars
  BY <1>6, QuietSteps, Zenon
<1>7. CASE Join
  BY <1>7, StreamJoin, Zenon
<1> QED
  BY <1>1, <1>2, <1>3, <1>4, <1>5, <1>6, <1>7, Zenon DEF Next

\* The strengthening of GarbledOnlyIfCut that every step keeps, together with
\* EventInv: what a connection that is not cut has on the way, followed by what
\* waits to be sent or parsed, is a sequence of messages.
THEOREM StreamInvariance == Spec => []StreamInv
  BY EventInvariance, StreamInitial, StreamStep, PTL DEF Spec

\* A message that is not one message of the peer is parsed, by _PopMsg() or by the
\* server, only on a connection that began with the rest of a message of an earlier
\* one in _wrQueue or in _recvCache, which connect() does not clear.
THEOREM GarbledIsCut == Spec => []GarbledOnlyIfCut
<1>1. StreamInv => GarbledOnlyIfCut
  BY Zenon DEF StreamInv
<1> QED
  BY <1>1, StreamInvariance, PTL
=============================================================================
