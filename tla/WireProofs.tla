------------------------------ MODULE WireProofs ------------------------------
(***************************************************************************)
(* A theorem about the reader of the generated codecs, for integers of any   *)
(* width, any types and any bytes.                                           *)
(***************************************************************************)
EXTENDS WireReader, ArithmeticTheorems, SequenceTheorems

-------------------------------------------------------------------------------
(* Integers of WordBits bits *)

\* The powers of two, as numbers of subsets.
LEMMA PowerOfTwo ==
    ASSUME NEW n \in Nat \ {0}
    PROVE  2^n \in Nat /\ 2^n >= 2
  <1> DEFINE S == 1..n
  <1>1. IsFiniteSet(S) /\ Cardinality(S) = n
    BY FS_Interval
  <1>2. IsFiniteSet(SUBSET S) /\ Cardinality(SUBSET S) = 2^n
    BY <1>1, FS_SUBSET, Zenon
  <1>3. {} \in SUBSET S /\ {1} \in SUBSET S
    OBVIOUS
  <1> HIDE DEF S
  <1>4. SUBSET S # {} /\ ~\E x : SUBSET S = {x}
    <2>1. {} # {1}
      OBVIOUS
    <2>2. ASSUME NEW T, {} \in T, {1} \in T PROVE T # {} /\ ~\E x : T = {x}
      BY <2>1, <2>2
    <2> QED BY <1>3, <2>2
  <1>5. Cardinality(SUBSET S) \in Nat /\ Cardinality(SUBSET S) # 0 /\ Cardinality(SUBSET S) # 1
    BY <1>2, <1>4, FS_CardinalityType, FS_EmptySet, FS_Singleton, Zenon
  <1> QED BY <1>2, <1>5

LEMMA GroupType ==
    ASSUME NEW n \in Nat PROVE 128^n \in Int
  BY SMT

LEMMA WordType == Word \in Nat /\ Word >= 2
  BY WireAssumption, PowerOfTwo DEF Word

LEMMA IntIs ==
    ASSUME NEW x \in 0..(Word - 1)
    PROVE  int(x) \in Int /\ int(x) < Word \div 2
  BY WordType DEF int

LEMMA WrapType ==
    ASSUME NEW x \in Int
    PROVE  uint(x) \in 0..(Word - 1) /\ int(uint(x)) \in Int
  <1> DEFINE w == Word
  <1>1. w \in Nat /\ w >= 2
    BY WordType
  <1>2. uint(x) = x % w
    BY DEF uint
  <1> HIDE DEF w
  <1>3. x % w \in 0..(w - 1)
    BY <1>1
  <1> QED BY <1>2, <1>3, IntIs DEF w

\* The sum of two lengths that is not negative has not wrapped around.
LEMMA NoWrap ==
    ASSUME NEW a \in Nat, NEW b \in Nat, a < Word \div 2, b < Word \div 2, int(uint(a + b)) >= 0
    PROVE  int(uint(a + b)) = a + b
  <1> DEFINE w == Word
             h == Word \div 2
  <1>1. w \in Nat /\ w >= 2 /\ h \in Nat /\ 2 * h <= w
    BY WordType
  <1>2. uint(a + b) = (a + b) % w
    BY DEF uint
  <1>3. \A x \in Int : int(x) = IF x < h THEN x ELSE x - w
    BY DEF int
  <1>4. a < h /\ b < h /\ int(uint(a + b)) >= 0
    OBVIOUS
  <1> HIDE DEF w, h
  <1>5. a + b \in Nat /\ a + b < w
    BY <1>1, <1>4
  <1>6. (a + b) % w = a + b
    BY <1>1, <1>5
  <1> QED BY <1>1, <1>2, <1>3, <1>4, <1>5, <1>6

-------------------------------------------------------------------------------
(* Numbers *)

Byte == 0..255

\* Where a number ends, and what it may be.
LEMMA VarintIs ==
    ASSUME NEW d \in Seq(Byte), NEW at \in Nat, NEW l \in Nat, l <= Len(d),
           Varint(d, at, l).err = "nil"
    PROVE  LET v == Varint(d, at, l)
           IN  v.value \in 0..(Word - 1) /\ v.next \in Nat /\ at < v.next /\ v.next <= l
  <1> DEFINE ends == {n \in 1..MaxVarint : at + n <= l /\ d[at + n] < 128}
             v == Varint(d, at, l)
             first == Min(ends)
             f == [n \in 1..first |-> (d[at + n] % 128) * 128^(n - 1)]
  <1>1. Len(d) \in Nat /\ \A k \in 1..Len(d) : d[k] \in Byte
    BY LenProperties, ElementOfSeq
  <1>2. ends # {} /\ v.value = SumFunction(f) % Word /\ v.next = at + first
    BY DEF Varint
  <1>3. first \in ends
    <2>1. ends \subseteq Nat
      OBVIOUS
    <2> HIDE DEF ends
    <2>2. \E n \in ends : \A m \in ends : n <= m
      BY <1>2, <2>1, Least
    <2> QED BY <2>2 DEF Min
  <1>4. first \in Nat /\ first >= 1 /\ at + first <= l
    <2> HIDE DEF first
    <2> QED BY <1>3
  <1> HIDE DEF first, ends, v
  <1>5. \A n \in 1..first : f[n] \in Int
    <2> SUFFICES ASSUME NEW n \in 1..first PROVE f[n] \in Int
      OBVIOUS
    <2> DEFINE x == d[at + n] % 128
               y == 128^(n - 1)
    <2>1. at + n \in 1..Len(d)
      BY <1>1, <1>4
    <2>2. d[at + n] \in Int
      <3>1. d[at + n] \in Byte
        BY <1>1, <2>1, Zenon
      <3>2. \A b \in Byte : b \in Int
        BY DEF Byte
      <3> QED BY <3>1, <3>2, Zenon
    <2>3. x \in Int
      BY <2>2
    <2>4. n - 1 \in Nat
      BY <1>4
    <2>5. y \in Int
      BY <2>4, GroupType, Zenon
    <2>6. f[n] = x * y
      OBVIOUS
    <2> HIDE DEF x, y, f
    <2> QED BY <2>3, <2>5, <2>6
  <1>6. SumFunction(f) \in Int
    <2>1. DOMAIN f = 1..first /\ IsFiniteSet(1..first)
      BY <1>4, FS_Interval
    <2> HIDE DEF f
    <2> QED BY <1>5, <2>1, SumType, ZenonT(30) DEF SumFunction
  <1>7. SumFunction(f) % Word \in 0..(Word - 1)
    <2> HIDE DEF f
    <2> QED BY <1>6, WrapType DEF uint
  <1> HIDE DEF f
  <1>8. v.value \in 0..(Word - 1) /\ v.next \in Nat /\ at < v.next /\ v.next <= l
    BY <1>2, <1>4, <1>7
  <1> QED BY <1>8 DEF v

\* The same, counted from the beginning of a slice.
LEMMA VarintAtIs ==
    ASSUME dAtA \in Seq(Byte), NEW r, r.start \in Nat, r.l \in Nat, r.start + r.l <= Len(dAtA),
           NEW at \in Nat, VarintAt(r, at).err = "nil"
    PROVE  LET v == VarintAt(r, at)
           IN  v.value \in 0..(Word - 1) /\ v.next \in Nat /\ at < v.next /\ v.next <= r.l
  <1> DEFINE from == r.start + at
             to == r.start + r.l
             w == Varint(dAtA, from, to)
             v == VarintAt(r, at)
  <1>1. from \in Nat /\ to \in Nat /\ to <= Len(dAtA)
    OBVIOUS
  <1>2. v = IF w.err = "nil" THEN [w EXCEPT !.next = @ - r.start] ELSE w
    BY DEF VarintAt
  <1>3. w.err = "nil"
    <2> HIDE DEF w
    <2> QED BY <1>2
  <1>4. w.value \in 0..(Word - 1) /\ w.next \in Nat /\ from < w.next /\ w.next <= to
    <2> HIDE DEF from, to
    <2> QED BY <1>1, <1>3, VarintIs
  <1>5. "next" \in DOMAIN w
    BY <1>3 DEF Varint
  <1>6. v.value = w.value /\ v.next = w.next - r.start
    <2> HIDE DEF w, v
    <2> QED BY <1>2, <1>3, <1>5
  <1> HIDE DEF w, v
  <1>7. v.value \in 0..(Word - 1)
    BY <1>4, <1>6
  <1>8. v.next \in Nat /\ at < v.next /\ v.next <= r.l
    BY <1>4, <1>6
  <1> QED BY <1>7, <1>8 DEF v

-------------------------------------------------------------------------------
(* The calls of Unmarshal *)

\* A call within total bytes.
FrameOf(r, total) ==
    /\ DOMAIN r = {"type", "msg", "start", "l", "iNdEx", "entry"}
    /\ r.start \in Nat /\ r.l \in Nat /\ r.iNdEx \in 0..r.l
    /\ r.start + r.l <= total

\* Each call has the slice at which the one before it has stopped.
Inside(r, outer) ==
    r.start >= outer.start /\ r.start + r.l = outer.start + outer.iNdEx

Nested(s, total) ==
    /\ \E S : s \in Seq(S)
    /\ \A k \in DOMAIN s :
          /\ FrameOf(s[k], total)
          /\ k = 1 => s[k].start = 0 /\ s[k].l = total
          /\ k # 1 => Inside(s[k], s[k - 1])

LEMMA NestedLast ==
    ASSUME NEW total, NEW s, Nested(s, total), s # <<>>
    PROVE  /\ Len(s) \in Nat \ {0} /\ DOMAIN s = 1..Len(s)
           /\ FrameOf(Last(s), total)
  <1>1. PICK S : s \in Seq(S)
    BY DEF Nested
  <1>2. Len(s) \in Nat \ {0} /\ DOMAIN s = 1..Len(s)
    BY <1>1, LenProperties, EmptySeq
  <1>3. Len(s) \in DOMAIN s
    BY <1>2
  <1> QED BY <1>2, <1>3 DEF Nested, Last

LEMMA NestedFront ==
    ASSUME NEW total, NEW s, Nested(s, total), s # <<>>
    PROVE  /\ Nested(Front(s), total) /\ Len(Front(s)) = Len(s) - 1
           /\ DOMAIN Front(s) = 1..(Len(s) - 1) /\ \A k \in 1..(Len(s) - 1) : Front(s)[k] = s[k]
  <1>1. PICK S : s \in Seq(S)
    BY DEF Nested
  <1> DEFINE n == Len(s)
             front == Front(s)
  <1>2. n \in Nat \ {0} /\ DOMAIN s = 1..n
    BY NestedLast
  <1>3. front \in Seq(S) /\ Len(front) = n - 1 /\ \A k \in 1..(n - 1) : front[k] = s[k]
    BY <1>1, <1>2 DEF Front
  <1>4. DOMAIN front = 1..(n - 1)
    BY <1>2, <1>3, LenProperties
  <1> HIDE DEF n, front
  <1>5. \A k \in 1..(n - 1) : k \in 1..n /\ (k # 1 => k - 1 \in 1..(n - 1))
    BY <1>2
  <1>6. ASSUME NEW k \in DOMAIN front
        PROVE  /\ FrameOf(front[k], total)
               /\ k = 1 => front[k].start = 0 /\ front[k].l = total
               /\ k # 1 => Inside(front[k], front[k - 1])
    <2>1. front[k] = s[k] /\ k \in DOMAIN s /\ (k # 1 => front[k - 1] = s[k - 1])
      BY <1>2, <1>3, <1>4, <1>5, Zenon
    <2> QED BY <2>1, Zenon DEF Nested
  <1>7. Nested(front, total)
    BY <1>3, <1>6, Zenon DEF Nested
  <1> QED BY <1>3, <1>4, <1>7 DEF n, front

\* A call of its own on what the innermost one has stopped at.
LEMMA NestedPush ==
    ASSUME NEW total, NEW s, Nested(s, total), NEW r, FrameOf(r, total),
           s = <<>> => r.start = 0 /\ r.l = total,
           s # <<>> => Inside(r, Last(s))
    PROVE  Nested(Append(s, r), total) /\ Append(s, r) # <<>>
  <1>1. PICK S : s \in Seq(S)
    BY DEF Nested
  <1> DEFINE n == Len(s)
             new == Append(s, r)
             T == S \cup {r}
  <1>2. n \in Nat /\ DOMAIN s = 1..n /\ (n = 0 => s = <<>>)
    BY <1>1, LenProperties, EmptySeq
  <1>3. s \in Seq(T) /\ r \in T
    BY <1>1
  <1>4. /\ new \in Seq(T) /\ new # <<>> /\ Len(new) = n + 1 /\ new[n + 1] = r
        /\ \A k \in 1..n : new[k] = s[k]
    <2> HIDE DEF T
    <2> QED BY <1>3, AppendProperties
  <1>5. DOMAIN new = 1..(n + 1)
    <2> HIDE DEF T, new
    <2> QED BY <1>2, <1>4, LenProperties
  <1>6. Last(s) = s[n]
    BY DEF Last
  <1> HIDE DEF n, new, T
  <1>7. /\ \A k \in 1..(n + 1) : k = n + 1 \/ k \in 1..n
        /\ \A k \in 1..n : k # 1 => k - 1 \in 1..n
        /\ n # 0 => n \in 1..n
        /\ n + 1 - 1 = n /\ (n + 1 = 1 <=> n = 0)
    BY <1>2
  <1>8. ASSUME NEW k \in DOMAIN new
        PROVE  /\ FrameOf(new[k], total)
               /\ k = 1 => new[k].start = 0 /\ new[k].l = total
               /\ k # 1 => Inside(new[k], new[k - 1])
    <2>1. CASE k \in 1..n
      <3>1. new[k] = s[k] /\ k \in DOMAIN s /\ (k # 1 => new[k - 1] = s[k - 1])
        BY <1>2, <1>4, <1>7, <2>1, Zenon
      <3> QED BY <3>1, Zenon DEF Nested
    <2>2. CASE k = n + 1 /\ n = 0
      <3>1. new[k] = r /\ k = 1 /\ s = <<>>
        BY <1>2, <1>4, <1>7, <2>2, Zenon
      <3> QED BY <3>1, Zenon
    <2>3. CASE k = n + 1 /\ n # 0
      <3>1. new[k] = r /\ k # 1 /\ new[k - 1] = Last(s)
        BY <1>4, <1>6, <1>7, <2>3
      <3>2. s # <<>>
        BY <1>2, <1>7, <2>3
      <3> QED BY <3>1, <3>2, Zenon
    <2> QED BY <1>5, <1>7, <2>1, <2>2, <2>3, Zenon
  <1>9. Nested(new, total)
    BY <1>4, <1>8, Zenon DEF Nested
  <1> QED BY <1>4, <1>9 DEF new

\* The innermost call goes on, within its slice.
LEMMA NestedSet ==
    ASSUME NEW total, NEW s, Nested(s, total), s # <<>>, NEW r, FrameOf(r, total),
           r.start = Last(s).start, r.l = Last(s).l
    PROVE  /\ Nested(Append(Front(s), r), total) /\ Append(Front(s), r) # <<>>
           /\ Last(Append(Front(s), r)) = r
  <1> DEFINE n == Len(s)
             front == Front(s)
  <1>1. n \in Nat \ {0} /\ DOMAIN s = 1..n
    BY NestedLast
  <1>2. /\ Nested(front, total) /\ Len(front) = n - 1
        /\ DOMAIN front = 1..(n - 1) /\ \A k \in 1..(n - 1) : front[k] = s[k]
    BY NestedFront, ZenonT(30)
  <1>3. Last(s) = s[n] /\ (front # <<>> => Last(front) = front[n - 1])
    BY <1>2 DEF Last
  <1>4. n \in DOMAIN s /\ (n # 1 => n - 1 \in 1..(n - 1))
    BY <1>1
  <1>5. /\ n = 1 => s[n].start = 0 /\ s[n].l = total
        /\ n # 1 => Inside(s[n], s[n - 1])
    BY <1>4, Zenon DEF Nested
  <1>6. PICK S : front \in Seq(S)
    BY <1>2 DEF Nested
  <1> HIDE DEF n, front
  <1>7. n = 1 <=> front = <<>>
    BY <1>1, <1>2, <1>6, EmptySeq
  <1>8. front = <<>> => r.start = 0 /\ r.l = total
    BY <1>3, <1>5, <1>7
  <1>9. front # <<>> => Inside(r, Last(front))
    <2> SUFFICES ASSUME front # <<>> PROVE Inside(r, Last(front))
      OBVIOUS
    <2>1. Last(front) = s[n - 1] /\ Inside(s[n], s[n - 1])
      BY <1>2, <1>3, <1>4, <1>5, <1>7
    <2>2. r.start = s[n].start /\ r.l = s[n].l
      BY <1>3
    <2> QED BY <2>1, <2>2 DEF Inside
  <1>10. Nested(Append(front, r), total) /\ Append(front, r) # <<>>
    BY <1>2, <1>8, <1>9, NestedPush
  <1>11. Last(Append(front, r)) = r
    <2> DEFINE T == S \cup {r}
    <2>1. front \in Seq(T) /\ r \in T
      BY <1>6
    <2> HIDE DEF T
    <2> QED BY <2>1, AppendProperties DEF Last
  <1> QED BY <1>10, <1>11 DEF front

LEMMA FrameMoved ==
    ASSUME NEW total, NEW r, FrameOf(r, total), NEW x \in 0..r.l
    PROVE  LET q == [r EXCEPT !.iNdEx = x]
           IN  FrameOf(q, total) /\ q.start = r.start /\ q.l = r.l /\ q.iNdEx = x
  BY DEF FrameOf

LEMMA FrameAssigned ==
    ASSUME NEW total, NEW r, FrameOf(r, total), NEW m
    PROVE  LET q == [r EXCEPT !.msg = m]
           IN  FrameOf(q, total) /\ q.start = r.start /\ q.l = r.l
  BY DEF FrameOf

-------------------------------------------------------------------------------
(* The reader *)

\* A slice of bytes: its length is an int.
Bytes == {d \in Seq(Byte) : Len(d) < Word \div 2}

\* The reader alone: it is called again and again, with any bytes.
ReaderNext == Read \/ \E d \in Bytes : \E t : Unmarshal(t, d)

ReaderSpec == ReaderInit /\ [][ReaderNext]_readerVars

ReaderInv ==
    /\ dAtA \in Bytes
    /\ Nested(reading, Len(dAtA))
    /\ answer = "none" => reading # <<>>
    /\ DOMAIN skipping = {"on", "n", "depth"} /\ skipping.n \in Nat

LEMMA NestedEmpty ==
    ASSUME NEW total PROVE Nested(<<>>, total)
  <1>1. <<>> \in Seq({})
    BY EmptySeq
  <1>2. DOMAIN <<>> = {}
    OBVIOUS
  <1> QED BY <1>1, <1>2 DEF Nested

LEMMA NotSkippingType ==
    /\ DOMAIN NotSkipping = {"on", "n", "depth"} /\ NotSkipping.n \in Nat
    /\ LET skip == [NotSkipping EXCEPT !.on = TRUE]
       IN  DOMAIN skip = {"on", "n", "depth"} /\ skip.n \in Nat
  BY DEF NotSkipping

LEMMA ReaderInitially ==
    ASSUME ReaderInit PROVE ReaderInv
  <1>1. <<>> \in Seq(Byte) /\ Len(<<>>) = 0
    BY EmptySeq
  <1>2. 0 < Word \div 2
    <2> DEFINE w == Word
    <2>1. w \in Nat /\ w >= 2
      BY WordType
    <2> HIDE DEF w
    <2>2. 0 < w \div 2
      BY <2>1
    <2> QED BY <2>2 DEF w
  <1>3. <<>> \in Bytes
    BY <1>1, <1>2 DEF Bytes
  <1> QED BY <1>3, NestedEmpty, NotSkippingType DEF ReaderInit, ReaderInv

LEMMA ReaderCalled ==
    ASSUME NEW d \in Bytes, NEW t, Unmarshal(t, d) PROVE ReaderInv'
  <1> DEFINE r == Slice(t, <<>>, 0, Len(d), <<>>)
             total == Len(d)
  <1>1. d \in Seq(Byte) /\ total \in Nat
    BY LenProperties DEF Bytes
  <1>2. FrameOf(r, total) /\ r.start = 0 /\ r.l = total
    BY <1>1 DEF Slice, FrameOf
  <1> HIDE DEF r, total
  <1>3. Nested(Append(<<>>, r), total) /\ Append(<<>>, r) # <<>>
    BY <1>2, NestedEmpty, NestedPush, ZenonT(30)
  <1>4. Append(<<>>, r) = <<r>>
    OBVIOUS
  <1>5. dAtA' = d /\ reading' = <<r>> /\ skipping' = NotSkipping
    BY DEF Unmarshal, r
  <1>6. Nested(reading', Len(dAtA')) /\ reading' # <<>>
    BY <1>3, <1>4, <1>5 DEF total
  <1>7. dAtA' \in Bytes
    BY <1>5 DEF Bytes
  <1> QED BY <1>5, <1>6, <1>7, NotSkippingType DEF ReaderInv

LEMMA ReaderReturns ==
    ASSUME ReaderInv, NEW err, err # "none", Return(err) PROVE ReaderInv'
  <1>1. dAtA' = dAtA /\ reading' = <<>> /\ skipping' = NotSkipping /\ answer' # "none"
    BY DEF Return
  <1>2. Nested(reading', Len(dAtA'))
    BY <1>1, NestedEmpty
  <1>3. dAtA' \in Bytes
    BY <1>1 DEF ReaderInv, Bytes
  <1> QED BY <1>1, <1>2, <1>3, NotSkippingType DEF ReaderInv

\* The innermost call.
LEMMA ReaderFrame ==
    ASSUME ReaderInv, answer = "none"
    PROVE  /\ FrameOf(Reader, Len(dAtA)) /\ reading # <<>>
           /\ dAtA \in Seq(Byte) /\ Len(dAtA) \in Nat /\ Len(dAtA) < Word \div 2
  <1>1. dAtA \in Seq(Byte) /\ Len(dAtA) < Word \div 2
    BY DEF ReaderInv, Bytes
  <1>2. Len(dAtA) \in Nat
    BY <1>1, LenProperties
  <1>3. Nested(reading, Len(dAtA)) /\ reading # <<>>
    BY DEF ReaderInv
  <1> QED BY <1>1, <1>2, <1>3, NestedLast DEF Reader

\* It goes on, or leaves it to a new call to go on.
LEMMA ReaderGoesOn ==
    ASSUME ReaderInv, NEW r, reading' = r, Nested(r, Len(dAtA)), r # <<>>,
           dAtA' = dAtA, skipping' \in {skipping, NotSkipping}
    PROVE  ReaderInv'
  <1>1. dAtA' \in Bytes
    BY DEF ReaderInv, Bytes
  <1>2. DOMAIN skipping' = {"on", "n", "depth"} /\ skipping'.n \in Nat
    BY NotSkippingType DEF ReaderInv
  <1> QED BY <1>1, <1>2 DEF ReaderInv

LEMMA BytesStep ==
    ASSUME ReaderInv, answer = "none", NEW e, NEW n \in Int, n < Word \div 2,
           NEW at \in Nat, at <= Reader.l, ReadBytes(Reader, e, n, at)
    PROVE  ReaderInv'
  <1> DEFINE r == Reader
             total == Len(dAtA)
             post == int(uint(at + n))
             m == Assign(r.msg, e, SubSeq(dAtA, r.start + at + 1, r.start + post))
             moved == [r EXCEPT !.iNdEx = post]
             filled == [r EXCEPT !.msg = m, !.iNdEx = post]
             inner == Slice(TypeOf(r.type, e), Existing(r.msg, e), r.start + at, n, e)
  <1>1. /\ FrameOf(r, total) /\ reading # <<>> /\ total \in Nat /\ total < Word \div 2
        /\ Nested(reading, total)
    BY ReaderFrame DEF ReaderInv
  <1>2. \/ Return("length")
        \/ Return("eof")
        \/ /\ n >= 0 /\ ~(post < 0) /\ ~(post > r.l)
           /\ \/ reading' = Append(SetReader(moved), inner)
              \/ reading' = SetReader(filled)
           /\ UNCHANGED <<dAtA, skipping, answer>>
    <2>1. CASE n < 0 \/ post < 0
      BY <2>1 DEF ReadBytes
    <2>2. CASE ~(n < 0 \/ post < 0) /\ post > r.l
      BY <2>2 DEF ReadBytes
    <2>3. CASE ~(n < 0 \/ post < 0) /\ ~(post > r.l)
      <3>1. /\ IF e.kind \in {"part", "pointer", "parts"} /\ Known(TypeOf(r.type, e))
               THEN reading' = Append(SetReader(moved), inner)
               ELSE reading' = SetReader(filled)
            /\ UNCHANGED <<dAtA, skipping, answer>>
        BY <2>3 DEF ReadBytes
      <3> HIDE DEF r, post, m, moved, filled, inner
      <3> QED BY <2>3, <3>1
    <2> QED BY <2>1, <2>2, <2>3, Zenon
  <1>3. at + n \in Int
    OBVIOUS
  <1>4. post \in Int
    BY <1>3, WrapType
  <1>5. CASE /\ n >= 0 /\ ~(post < 0) /\ ~(post > r.l)
             /\ \/ reading' = Append(SetReader(moved), inner)
                \/ reading' = SetReader(filled)
             /\ UNCHANGED <<dAtA, skipping, answer>>
    <2> HIDE DEF r, total, post, m, moved, filled, inner
    <2>1. r.start \in Nat /\ r.l \in Nat /\ r.start + r.l <= total
      BY <1>1 DEF FrameOf
    <2>2. post \in 0..r.l /\ n \in Nat
      BY <1>4, <1>5, <2>1
    <2>3. at < Word \div 2
      <3>1. at <= total
        <4>1. at <= r.l
          BY Zenon DEF r
        <4> QED BY <1>1, <2>1, <4>1
      <3> DEFINE h == Word \div 2
      <3>2. h \in Int /\ total < h
        BY <1>1, WordType
      <3> HIDE DEF h
      <3>3. at < h
        BY <1>1, <3>1, <3>2
      <3> QED BY <3>3 DEF h
    <2>4. post = at + n
      BY <2>2, <2>3, NoWrap DEF post
    <2>5. \A q \in {moved, filled} :
              FrameOf(q, total) /\ q.start = r.start /\ q.l = r.l
      <3>1. FrameOf(moved, total) /\ moved.start = r.start /\ moved.l = r.l
        BY <1>1, <2>2, FrameMoved, Zenon DEF moved
      <3>2. FrameOf(filled, total) /\ filled.start = r.start /\ filled.l = r.l
        BY <1>1, <2>2 DEF filled, FrameOf
      <3> QED BY <3>1, <3>2, Zenon
    <2>6. \A q \in {moved, filled} :
              Nested(SetReader(q), total) /\ SetReader(q) # <<>> /\ Last(SetReader(q)) = q
      BY <1>1, <2>5, NestedSet DEF SetReader, Reader, r
    <2>7. CASE reading' = Append(SetReader(moved), inner)
      <3>1. moved.iNdEx = post /\ moved.start = r.start
        BY <1>1, <2>2, FrameMoved, Zenon DEF moved
      <3>2. inner.start = r.start + at /\ inner.l = n /\ inner.iNdEx = 0
            /\ DOMAIN inner = {"type", "msg", "start", "l", "iNdEx", "entry"}
        BY DEF inner, Slice
      <3>3. FrameOf(inner, total)
        <4>1. r.start + at \in Nat /\ 0 \in 0..n /\ r.start + at + n <= total
          BY <1>1, <2>1, <2>2, <2>4
        <4> QED BY <2>2, <3>2, <4>1 DEF FrameOf
      <3>4. Inside(inner, moved)
        BY <2>1, <2>2, <2>4, <3>1, <3>2 DEF Inside
      <3>5. Nested(Append(SetReader(moved), inner), total) /\ Append(SetReader(moved), inner) # <<>>
        BY <2>6, <3>3, <3>4, NestedPush
      <3> QED BY <1>5, <2>7, <3>5, ReaderGoesOn, ZenonT(30) DEF total
    <2>8. CASE reading' = SetReader(filled)
      BY <1>5, <2>6, <2>8, ReaderGoesOn DEF total
    <2> QED BY <1>5, <2>7, <2>8
  <1> QED BY <1>2, <1>5, ReaderReturns

LEMMA SkippedStep ==
    ASSUME ReaderInv, answer = "none", NEW n \in Int, NEW depth, Skipped(Reader, n, depth)
    PROVE  ReaderInv'
  <1> DEFINE r == Reader
             total == Len(dAtA)
             post == int(uint(r.iNdEx + n))
             moved == [r EXCEPT !.iNdEx = post]
             skip == [skipping EXCEPT !.n = n, !.depth = depth]
  <1>1. FrameOf(r, total) /\ reading # <<>> /\ Nested(reading, total)
    BY ReaderFrame DEF ReaderInv
  <1>2. \/ Return("length")
        \/ Return("eof")
        \/ /\ n >= 0 /\ skipping' = skip
           /\ UNCHANGED <<dAtA, reading, answer>>
        \/ /\ ~(post < 0) /\ ~(post > r.l)
           /\ skipping' = NotSkipping /\ reading' = SetReader(moved)
           /\ UNCHANGED <<dAtA, answer>>
    BY DEF Skipped
  <1>3. r.l \in Nat /\ r.iNdEx \in Int
    BY <1>1 DEF FrameOf
  <1>4. post \in Int
    <2> DEFINE x == r.iNdEx + n
    <2>1. x \in Int
      BY <1>3
    <2> HIDE DEF x
    <2>2. int(uint(x)) \in Int
      BY <2>1, WrapType
    <2> QED BY <2>2 DEF x
  <1>5. CASE /\ n >= 0 /\ skipping' = skip
             /\ UNCHANGED <<dAtA, reading, answer>>
    <2>1. DOMAIN skip = {"on", "n", "depth"} /\ skip.n = n
      BY DEF ReaderInv
    <2> HIDE DEF skip
    <2>2. DOMAIN skipping' = {"on", "n", "depth"} /\ skipping'.n \in Nat
      BY <1>5, <2>1
    <2>3. dAtA' \in Bytes
      BY <1>5 DEF ReaderInv, Bytes
    <2> QED BY <1>5, <2>2, <2>3 DEF ReaderInv
  <1>6. CASE /\ ~(post < 0) /\ ~(post > r.l)
             /\ skipping' = NotSkipping /\ reading' = SetReader(moved)
             /\ UNCHANGED <<dAtA, answer>>
    <2> HIDE DEF r, total, post, moved
    <2>1. post \in 0..r.l
      BY <1>3, <1>4, <1>6
    <2>2. FrameOf(moved, total) /\ moved.start = r.start /\ moved.l = r.l
      BY <1>1, <2>1, FrameMoved, Zenon DEF moved
    <2>3. Nested(SetReader(moved), total) /\ SetReader(moved) # <<>>
      BY <1>1, <2>2, NestedSet DEF SetReader, Reader, r
    <2> QED BY <1>6, <2>3, ReaderGoesOn DEF total
  <1> QED BY <1>2, <1>5, <1>6, ReaderReturns

LEMMA VarintErr ==
    ASSUME NEW r, NEW at PROVE VarintAt(r, at).err # "none"
  <1> DEFINE w == Varint(dAtA, r.start + at, r.start + r.l)
  <1>1. w.err \in {"nil", "overflow", "eof"} /\ (w.err = "nil" => "next" \in DOMAIN w)
    BY DEF Varint
  <1>2. VarintAt(r, at) = IF w.err = "nil" THEN [w EXCEPT !.next = @ - r.start] ELSE w
    BY DEF VarintAt
  <1> HIDE DEF w
  <1> QED BY <1>1, <1>2

LEMMA FieldStep ==
    ASSUME ReaderInv, answer = "none", NEW e, NEW wireType, NEW at \in Nat,
           ReadField(Reader, e, wireType, at)
    PROVE  ReaderInv'
  <1> DEFINE r == Reader
             v == VarintAt(r, at)
             x == Assign(r.msg, e, Converted(e, v.value))
             filled == [r EXCEPT !.msg = x, !.iNdEx = v.next]
             total == Len(dAtA)
  <1>1. FrameOf(r, total) /\ reading # <<>> /\ dAtA \in Seq(Byte) /\ Nested(reading, total)
    BY ReaderFrame DEF ReaderInv
  <1>2. \/ Return("wiretype")
        \/ Return(v.err)
        \/ v.err = "nil" /\ reading' = SetReader(filled) /\ UNCHANGED <<dAtA, skipping, answer>>
        \/ v.err = "nil" /\ ReadBytes(r, e, int(v.value), v.next)
    BY DEF ReadField
  <1>3. v.err # "none"
    BY VarintErr
  <1>4. v.err = "nil" => v.value \in 0..(Word - 1) /\ v.next \in Nat /\ v.next <= r.l
    <2>1. r.start \in Nat /\ r.l \in Nat /\ r.start + r.l <= total
      BY <1>1 DEF FrameOf
    <2> HIDE DEF r
    <2> QED BY <1>1, <2>1, VarintAtIs
  <1>5. CASE v.err = "nil" /\ reading' = SetReader(filled) /\ UNCHANGED <<dAtA, skipping, answer>>
    <2>1. r.l \in Nat
      BY <1>1 DEF FrameOf
    <2> HIDE DEF r, v, x, filled, total
    <2>2. v.next \in 0..r.l
      BY <1>4, <1>5, <2>1
    <2>3. FrameOf(filled, total) /\ filled.start = r.start /\ filled.l = r.l
      BY <1>1, <2>2 DEF filled, FrameOf
    <2>4. Nested(SetReader(filled), total) /\ SetReader(filled) # <<>>
      BY <1>1, <2>3, NestedSet DEF SetReader, Reader, r
    <2> QED BY <1>5, <2>4, ReaderGoesOn DEF total
  <1>6. CASE v.err = "nil" /\ ReadBytes(r, e, int(v.value), v.next)
    <2> HIDE DEF v
    <2>1. int(v.value) \in Int /\ int(v.value) < Word \div 2
      BY <1>4, <1>6, IntIs
    <2> QED BY <1>4, <1>6, <2>1, BytesStep
  <1> HIDE DEF v
  <1> QED BY <1>2, <1>3, <1>5, <1>6, ReaderReturns

LEMMA KeyStep ==
    ASSUME ReaderInv, ReadKey PROVE ReaderInv'
  <1> DEFINE r == Reader
             key == VarintAt(r, r.iNdEx)
             fieldNum == int32(key.value \div 8)
             wireType == key.value % 8
  <1>1. answer = "none"
    BY DEF ReadKey
  <1>2. \/ \E err \in {key.err, "group", "tag"} : Return(err)
        \/ Skip
        \/ key.err = "nil" /\ \E e : ReadField(r, e, wireType, key.next)
    BY DEF ReadKey
  <1>3. \A err \in {key.err, "group", "tag"} : err # "none"
    BY VarintErr
  <1>4. key.err = "nil" => key.next \in Nat
    <2>1. FrameOf(r, Len(dAtA)) /\ dAtA \in Seq(Byte)
      BY <1>1, ReaderFrame
    <2>2. r.start \in Nat /\ r.l \in Nat /\ r.start + r.l <= Len(dAtA) /\ r.iNdEx \in Nat
      BY <2>1 DEF FrameOf
    <2> HIDE DEF r
    <2> QED BY <2>1, <2>2, VarintAtIs
  <1>5. CASE Skip
    <2>1. dAtA' \in Bytes /\ reading' = reading /\ dAtA' = dAtA /\ answer' = answer
      BY <1>5 DEF Skip, ReaderInv, Bytes
    <2>2. DOMAIN skipping' = {"on", "n", "depth"} /\ skipping'.n \in Nat
      BY <1>5, NotSkippingType DEF Skip
    <2> QED BY <2>1, <2>2 DEF ReaderInv
  <1>6. CASE key.err = "nil" /\ \E e : ReadField(r, e, wireType, key.next)
    <2> HIDE DEF key, wireType
    <2> QED BY <1>1, <1>4, <1>6, FieldStep
  <1> HIDE DEF key
  <1> QED BY <1>2, <1>3, <1>5, <1>6, ReaderReturns

\* Whatever an item of the wire is, skip ends in an error or after a number of bytes.
LEMMA ItemSkipped ==
    ASSUME ReaderInv, SkipItem
    PROVE  \/ \E err : err # "none" /\ Return(err)
           \/ \E n \in Int : \E depth : Skipped(Reader, n, depth)
  <1> DEFINE r == Reader
             at == r.iNdEx + skipping.n
             key == VarintAt(r, at)
             v == VarintAt(r, key.next)
             depth == skipping.depth
             wireType == key.value % 8
             n == key.next - r.iNdEx
             Past(k) == int(uint(n + k))
             long == int(uint(v.next - r.iNdEx + v.value))
  <1>1. answer = "none" /\ skipping.n \in Nat
    BY DEF SkipItem, ReaderInv
  <1>2. FrameOf(r, Len(dAtA)) /\ dAtA \in Seq(Byte)
    BY <1>1, ReaderFrame
  <1>3. r.start \in Nat /\ r.l \in Nat /\ r.start + r.l <= Len(dAtA) /\ r.iNdEx \in Nat
    BY <1>2 DEF FrameOf
  <1>4. at \in Nat
    BY <1>1, <1>3
  <1>5. key.err # "none" /\ v.err # "none"
    BY VarintErr
  <1>6. IF key.err # "nil" THEN Return(key.err)
        ELSE CASE wireType = 0 -> IF v.err # "nil" THEN Return(v.err)
                                  ELSE Skipped(r, v.next - r.iNdEx, depth)
               [] wireType = 1 -> Skipped(r, Past(8), depth)
               [] wireType = 2 -> IF v.err # "nil" THEN Return(v.err)
                                  ELSE IF int(v.value) < 0 THEN Return("length")
                                  ELSE Skipped(r, long, depth)
               [] wireType = 3 -> Skipped(r, n, depth + 1)
               [] wireType = 4 -> IF depth = 0 THEN Return("group")
                                  ELSE Skipped(r, n, depth - 1)
               [] wireType = 5 -> Skipped(r, Past(4), depth)
               [] OTHER -> Return("wiretype")
    BY DEF SkipItem
  <1>7. CASE key.err # "nil"
    <2> HIDE DEF key
    <2> QED BY <1>5, <1>6, <1>7
  <1>8. CASE key.err = "nil"
    <2>1. key.next \in Nat
      <3> HIDE DEF r, at
      <3> QED BY <1>2, <1>3, <1>4, <1>8, VarintAtIs
    <2>2. v.err = "nil" => v.value \in Int /\ v.next \in Nat
      <3>1. v.err = "nil" => v.value \in 0..(Word - 1) /\ v.next \in Nat
        <4> HIDE DEF r, at, key
        <4> QED BY <1>2, <1>3, <2>1, VarintAtIs
      <3>2. \A x \in 0..(Word - 1) : x \in Int
        BY WordType
      <3> HIDE DEF v
      <3> QED BY <3>1, <3>2, Zenon
    <2> HIDE DEF r, at, key, v
    <2>3. n \in Int /\ n + 8 \in Int /\ n + 4 \in Int
      BY <1>3, <2>1
    <2>4. Past(8) \in Int /\ Past(4) \in Int
      <3> HIDE DEF n
      <3> QED BY <2>3, WrapType
    <2>5. v.err = "nil" => v.next - r.iNdEx \in Int /\ long \in Int
      <3> DEFINE x == v.next - r.iNdEx + v.value
      <3>1. v.err = "nil" => v.next - r.iNdEx \in Int /\ x \in Int
        BY <1>3, <2>2
      <3> HIDE DEF x
      <3>2. v.err = "nil" => int(uint(x)) \in Int
        BY <3>1, WrapType
      <3> QED BY <3>1, <3>2 DEF x
    <2> HIDE DEF n, Past, long, depth, wireType
    <2>6. \/ wireType = 0 /\ (Return(v.err) \/ (v.err = "nil" /\ Skipped(r, v.next - r.iNdEx, depth)))
          \/ Skipped(r, Past(8), depth)
          \/ Return(v.err) \/ Return("length") \/ (v.err = "nil" /\ Skipped(r, long, depth))
          \/ Skipped(r, n, depth + 1)
          \/ Return("group") \/ Skipped(r, n, depth - 1)
          \/ Skipped(r, Past(4), depth)
          \/ Return("wiretype")
      BY <1>6, <1>8
    <2>7. ASSUME NEW err, err # "none", Return(err)
          PROVE  \E x : x # "none" /\ Return(x)
      BY <2>7
    <2>8. ASSUME NEW x \in Int, NEW y, Skipped(r, x, y)
          PROVE  \E k \in Int : \E z : Skipped(r, k, z)
      BY <2>8
    <2>9. \A err \in {v.err, "length", "group", "wiretype"} : err # "none"
      BY <1>5
    <2> QED BY <2>3, <2>4, <2>5, <2>6, <2>7, <2>8, <2>9 DEF r
  <1> QED BY <1>7, <1>8

LEMMA EndStep ==
    ASSUME ReaderInv, EndSlice PROVE ReaderInv'
  <1> DEFINE total == Len(dAtA)
             front == Front(reading)
             outer == Last(front)
             x == Assign(outer.msg, Reader.entry, Reader.msg)
             filled == [outer EXCEPT !.msg = x]
  <1>1. answer = "none" /\ Nested(reading, total) /\ reading # <<>>
    BY DEF EndSlice, ReaderInv
  <1>2. UNCHANGED <<dAtA, skipping>>
    BY DEF EndSlice
  <1>3. CASE Len(reading) = 1
    <2>1. reading' = reading
      BY <1>3 DEF EndSlice
    <2> QED BY <1>1, <1>2, <2>1, ReaderGoesOn
  <1>4. CASE Len(reading) # 1
    <2>1. reading' = Append(Front(front), filled)
      BY <1>4 DEF EndSlice
    <2> HIDE DEF x, filled, outer
    <2>2. Nested(front, total) /\ Len(front) = Len(reading) - 1 /\ Len(reading) \in Nat \ {0}
      BY <1>1, NestedFront, NestedLast
    <2> HIDE DEF front, total
    <2>3. front # <<>>
      <3>1. Len(front) # 0
        BY <1>4, <2>2
      <3> QED BY <3>1, EmptySeq
    <2>4. FrameOf(outer, total)
      BY <2>2, <2>3, NestedLast DEF outer
    <2>5. FrameOf(filled, total) /\ filled.start = outer.start /\ filled.l = outer.l
      BY <2>4, FrameAssigned, Zenon DEF filled
    <2>6. Nested(Append(Front(front), filled), total) /\ Append(Front(front), filled) # <<>>
      BY <2>2, <2>3, <2>5, NestedSet DEF outer
    <2> QED BY <1>2, <2>1, <2>6, ReaderGoesOn, ZenonT(30) DEF total
  <1> QED BY <1>3, <1>4

\* The bytes of a message never lead its reader astray: whatever they are, every call of
\* Unmarshal stays within its slice, and each slice ends where the call that made it will
\* go on.  No length overflows unnoticed (x/market/types/tx.pb.go:660-806, and so on).
THEOREM ReaderStaysWithin == ReaderSpec => []ReadWithin
  <1>1. ReaderInit => ReaderInv
    BY ReaderInitially
  <1>2. ReaderInv /\ [ReaderNext]_readerVars => ReaderInv'
    <2> SUFFICES ASSUME ReaderInv, [ReaderNext]_readerVars PROVE ReaderInv'
      OBVIOUS
    <2>1. CASE ReadKey
      BY <2>1, KeyStep
    <2>2. CASE EndSlice
      BY <2>2, EndStep
    <2>3. CASE SkipItem
      <3>1. answer = "none"
        BY <2>3 DEF SkipItem
      <3> QED BY <2>3, <3>1, ItemSkipped, ReaderReturns, SkippedStep
    <2>4. CASE \E d \in Bytes : \E t : Unmarshal(t, d)
      BY <2>4, ReaderCalled
    <2>5. CASE UNCHANGED readerVars
      BY <2>5 DEF readerVars, ReaderInv, Bytes, Nested, FrameOf, Inside
    <2> QED BY <2>1, <2>2, <2>3, <2>4, <2>5 DEF ReaderNext, Read
  <1>3. ReaderInv => ReadWithin
    <2> SUFFICES ASSUME ReaderInv, NEW k \in DOMAIN reading
                 PROVE  /\ reading[k].iNdEx \in 0..reading[k].l
                        /\ IF k = 1 THEN reading[1].start = 0 /\ reading[1].l = Len(dAtA)
                           ELSE /\ reading[k].start >= reading[k - 1].start
                                /\ reading[k].start + reading[k].l = reading[k - 1].start + reading[k - 1].iNdEx
      BY DEF ReadWithin
    <2>1. /\ FrameOf(reading[k], Len(dAtA))
          /\ k = 1 => reading[k].start = 0 /\ reading[k].l = Len(dAtA)
          /\ k # 1 => Inside(reading[k], reading[k - 1])
      BY DEF ReaderInv, Nested
    <2> QED BY <2>1 DEF FrameOf, Inside
  <1> QED BY <1>1, <1>2, <1>3, PTL DEF ReaderSpec
===============================================================================
