------------------------ MODULE RequestStreamProofs ------------------------
(***************************************************************************)
(* What net_io reads of its clients are the requests they sent, for any    *)
(* clients, requests and pieces in which they arrive.                      *)
(***************************************************************************)
EXTENDS RequestStream, SequenceTheorems, TLAPS

(***************************************************************************)
(* Where the requests lie in the stream of a client: request i is the      *)
(* bytes off[i] + 1 .. off[i + 1], and the first of them is its length.    *)
(***************************************************************************)
Offsets(rs) == [1 .. Len(rs) + 1 -> Nat]

Frames(off, rs) ==
    /\ \A i \in 1 .. Len(rs) : off[i + 1] = off[i] + 1 + Len(rs[i])
    /\ \A i, j \in 1 .. Len(rs) + 1 : i < j => off[i] < off[j]

\* rest is what is left of the stream behind its first p bytes.
Remains(off, rs, p, rest) ==
    /\ p + Len(rest) = off[Len(rs) + 1]
    /\ \A i \in 1 .. Len(rs) : p <= off[i] =>
          rest[off[i] + 1 - p] = Len(rs[i])
    /\ \A i \in 1 .. Len(rs) : \A k \in 1 .. Len(rs[i]) : p <= off[i] + k =>
          rest[off[i] + 1 + k - p] = rs[i][k]

(***************************************************************************)
(* The inductive invariant.                                                *)
(***************************************************************************)
Types ==
    /\ events \subseteq Clients
    /\ pc \in {"loop", "length", "body"}
    /\ cur \in Clients \cup {NoClient}
    /\ nleft \in Byte
    /\ buf \in Seq(Byte)
    /\ passed \in [Clients -> Seq(Seq(Byte))]
    /\ status \in [Clients -> {"open", "fin", "reset", "closed"}]
    /\ stream \in [Clients -> Seq(Byte)]
    /\ unsent \in [Clients -> Seq(Byte)]
    /\ sent \in [Clients -> Seq(Bodies)]
    /\ ended \in [Clients -> {"no", "whole", "half", "reset"}]

\* The reader reads a connection that is there.
Reader ==
    /\ nleft = 0 <=> pc = "loop"
    /\ pc = "length" => nleft = 1 /\ buf = <<>>
    /\ pc # "loop" => cur \in Clients /\ status[cur] # "closed" /\ cur \notin events
    /\ \A c \in events : status[c] # "closed"

\* How a client ended, and how much of its last request it still holds.
Ends(c) ==
    /\ status[c] = "open" => ended[c] = "no"
    /\ status[c] = "fin" => ended[c] = IF unsent[c] = <<>> THEN "whole" ELSE "half"
    /\ status[c] = "reset" => ended[c] = "reset"
    /\ Len(sent[c]) = 0 => Len(unsent[c]) = 0
    /\ Len(sent[c]) # 0 => Len(unsent[c]) <= 1 + Len(sent[c][Len(sent[c])])

PassedAsSent(c) ==
    /\ Len(passed[c]) <= Len(sent[c])
    /\ \A i \in 1 .. Len(passed[c]) : passed[c][i] = sent[c][i]

\* net_io is reading the body of the request behind those passed on.
InBody(c) == pc = "body" /\ cur = c

Body(c) == sent[c][Len(passed[c]) + 1]

BodyBegun(c) ==
    /\ Len(passed[c]) < Len(sent[c])
    /\ Len(buf) + nleft = Len(Body(c))
    /\ \A k \in 1 .. Len(buf) : buf[k] = Body(c)[k]

Position(c, off) ==
    off[Len(passed[c]) + 1] + (IF InBody(c) THEN 1 + Len(buf) ELSE 0)

Aligned(c) ==
    status[c] \in {"open", "fin"} =>
        /\ InBody(c) => BodyBegun(c)
        /\ \E off \in Offsets(sent[c]) :
              /\ Frames(off, sent[c])
              /\ Remains(off, sent[c], Position(c, off), stream[c] \o unsent[c])

IInv ==
    /\ Types /\ Reader /\ ReadBeforeClosed
    /\ \A c \in Clients : Ends(c) /\ PassedAsSent(c) /\ Aligned(c)

-----------------------------------------------------------------------------
(* Sequences.                                                              *)

LEMMA Concatenated ==
    ASSUME NEW s \in Seq(Byte), NEW t \in Seq(Byte)
    PROVE  /\ s \o t \in Seq(Byte)
           /\ Len(s) \in Nat /\ Len(t) \in Nat
           /\ Len(s \o t) = Len(s) + Len(t)
           /\ \A i \in 1 .. Len(s) : (s \o t)[i] = s[i]
           /\ \A i \in 1 .. Len(t) : (s \o t)[Len(s) + i] = t[i]
BY DEF Byte

LEMMA Pieces ==
    ASSUME NEW s \in Seq(Byte), NEW n \in 0 .. Len(s)
    PROVE  /\ SubSeq(s, 1, n) \in Seq(Byte)
           /\ Len(SubSeq(s, 1, n)) = n
           /\ \A i \in 1 .. n : SubSeq(s, 1, n)[i] = s[i]
           /\ SubSeq(s, n + 1, Len(s)) \in Seq(Byte)
           /\ Len(SubSeq(s, n + 1, Len(s))) = Len(s) - n
           /\ \A i \in 1 .. Len(s) - n : SubSeq(s, n + 1, Len(s))[i] = s[n + i]
<1>1. Len(s) \in Nat /\ n \in Nat /\ n <= Len(s) /\ \A i \in 1 .. Len(s) : s[i] \in Byte
  OBVIOUS
<1>2. /\ SubSeq(s, 1, n) \in Seq(Byte)
      /\ Len(SubSeq(s, 1, n)) = IF 1 <= n THEN n - 1 + 1 ELSE 0
      /\ \A i \in 1 .. n - 1 + 1 : SubSeq(s, 1, n)[i] = s[1 + i - 1]
  <2>1. 1 \in Int /\ n \in Int /\ \A i \in 1 .. n : s[i] \in Byte
    BY <1>1
  <2> QED BY <2>1, SubSeqProperties
<1>3. /\ SubSeq(s, n + 1, Len(s)) \in Seq(Byte)
      /\ Len(SubSeq(s, n + 1, Len(s))) =
            IF n + 1 <= Len(s) THEN Len(s) - (n + 1) + 1 ELSE 0
      /\ \A i \in 1 .. Len(s) - (n + 1) + 1 :
            SubSeq(s, n + 1, Len(s))[i] = s[(n + 1) + i - 1]
  <2>1. n + 1 \in Int /\ Len(s) \in Int /\ \A i \in n + 1 .. Len(s) : s[i] \in Byte
    BY <1>1
  <2> QED BY <2>1, SubSeqProperties
<1> QED BY <1>1, <1>2, <1>3

LEMMA SameSequence ==
    ASSUME NEW X, NEW s \in Seq(X), NEW t \in Seq(X), Len(s) = Len(t),
           \A i \in 1 .. Len(s) : s[i] = t[i]
    PROVE  s = t
OBVIOUS

\* The first n members of a sequence.
LEMMA Beginning ==
    ASSUME NEW X, NEW s \in Seq(X), NEW n \in 0 .. Len(s)
    PROVE  /\ SubSeq(s, 1, n) \in Seq(X)
           /\ Len(SubSeq(s, 1, n)) = n
           /\ \A i \in 1 .. n : SubSeq(s, 1, n)[i] = s[i]
<1>1. 1 \in Int /\ n \in Int /\ 0 <= n /\ \A i \in 1 .. n : s[i] \in X
  OBVIOUS
<1>2. /\ SubSeq(s, 1, n) \in Seq(X)
      /\ Len(SubSeq(s, 1, n)) = IF 1 <= n THEN n - 1 + 1 ELSE 0
      /\ \A i \in 1 .. n - 1 + 1 : SubSeq(s, 1, n)[i] = s[1 + i - 1]
  BY <1>1, SubSeqProperties
<1> QED BY <1>1, <1>2

\* What the reader takes is taken from the front.
LEMMA Dropped ==
    ASSUME NEW s \in Seq(Byte), NEW t \in Seq(Byte), NEW n \in 0 .. Len(s)
    PROVE  /\ Len(SubSeq(s, n + 1, Len(s)) \o t) = Len(s \o t) - n
           /\ \A i \in 1 .. Len(s \o t) - n :
                 (SubSeq(s, n + 1, Len(s)) \o t)[i] = (s \o t)[n + i]
<1> DEFINE r == SubSeq(s, n + 1, Len(s))
<1>1. /\ r \in Seq(Byte) /\ Len(r) = Len(s) - n
      /\ \A i \in 1 .. Len(s) - n : r[i] = s[n + i]
  BY Pieces
<1> HIDE DEF r
<1>2. /\ Len(r) \in Nat /\ Len(s) \in Nat /\ Len(t) \in Nat
      /\ Len(r \o t) = Len(r) + Len(t) /\ Len(s \o t) = Len(s) + Len(t)
      /\ \A i \in 1 .. Len(r) : (r \o t)[i] = r[i]
      /\ \A i \in 1 .. Len(t) : (r \o t)[Len(r) + i] = t[i]
      /\ \A i \in 1 .. Len(s) : (s \o t)[i] = s[i]
      /\ \A i \in 1 .. Len(t) : (s \o t)[Len(s) + i] = t[i]
  BY <1>1, Concatenated
<1>3. ASSUME NEW i \in 1 .. Len(s \o t) - n PROVE (r \o t)[i] = (s \o t)[n + i]
  <2>1. CASE i <= Len(r)
    <3>1. i \in 1 .. Len(r) /\ n + i \in 1 .. Len(s)
      BY <2>1, <1>1, <1>2
    <3> QED BY <3>1, <1>1, <1>2
  <2>2. CASE i > Len(r)
    <3>1. i - Len(r) \in 1 .. Len(t) /\ Len(r) + (i - Len(r)) = i
          /\ Len(s) + (i - Len(r)) = n + i
      BY <2>2, <1>1, <1>2
    <3> QED BY <3>1, <1>2
  <2> QED BY <2>1, <2>2, <1>1, <1>2
<1>4. Len(r \o t) = Len(s \o t) - n
  BY <1>1, <1>2
<1> QED BY <1>3, <1>4 DEF r

\* What the network delivers stays in its place.
LEMMA Moved ==
    ASSUME NEW s \in Seq(Byte), NEW t \in Seq(Byte), NEW n \in 0 .. Len(t)
    PROVE  (s \o SubSeq(t, 1, n)) \o SubSeq(t, n + 1, Len(t)) = s \o t
<1> DEFINE a == SubSeq(t, 1, n)
           b == SubSeq(t, n + 1, Len(t))
<1>1. a \in Seq(Byte) /\ b \in Seq(Byte)
  BY Pieces, SMTT(30)
<1>2. a \o b = t
  <2>1. 1 \in 1 .. Len(t) + 1 /\ n \in 1 - 1 .. Len(t) /\ Len(t) \in n .. Len(t)
    OBVIOUS
  <2>2. SubSeq(t, 1, n) \o SubSeq(t, n + 1, Len(t)) = SubSeq(t, 1, Len(t))
    BY <2>1, ConcatAdjacentSubSeq
  <2>3. SubSeq(t, 1, Len(t)) = t
    BY SubSeqFull
  <2> QED BY <2>2, <2>3
<1> HIDE DEF a, b
<1>3. (s \o a) \o b = s \o (a \o b)
  BY <1>1, ConcatAssociative, SMTT(30)
<1>4. (s \o a) \o b = s \o t
  BY <1>2, <1>3, Zenon
<1> QED BY <1>4 DEF a, b

-----------------------------------------------------------------------------
(* Requests in a stream.                                                   *)

LEMMA RequestIs ==
    ASSUME NEW rs \in Seq(Bodies), NEW i \in 1 .. Len(rs)
    PROVE  /\ rs[i] \in Seq(Byte)
           /\ Len(rs[i]) \in 0 .. 255
           /\ \A k \in 1 .. Len(rs[i]) : rs[i][k] \in Byte
<1> DEFINE b == rs[i]
<1>1. b \in Bodies
  OBVIOUS
<1> HIDE DEF b
<1>2. b \in Seq(Byte) /\ Len(b) \in 0 .. 255
  BY <1>1, BodiesAssumption DEF Byte
<1>3. \A k \in 1 .. Len(b) : b[k] \in Byte
  BY <1>2
<1> QED BY <1>2, <1>3 DEF b

\* Each request lies within the stream, behind those before it.
LEMMA Within ==
    ASSUME NEW rs \in Seq(Bodies), NEW off \in Offsets(rs), Frames(off, rs),
           NEW i \in 1 .. Len(rs)
    PROVE  /\ off[i] \in Nat /\ off[i + 1] \in Nat /\ off[Len(rs) + 1] \in Nat
           /\ off[i + 1] = off[i] + 1 + Len(rs[i])
           /\ off[i + 1] <= off[Len(rs) + 1]
           /\ \A j \in 1 .. Len(rs) + 1 : j <= i => off[j] <= off[i]
<1>1. Len(rs) \in Nat /\ i + 1 \in 1 .. Len(rs) + 1 /\ Len(rs) + 1 \in 1 .. Len(rs) + 1
  OBVIOUS
<1>2. off \in [1 .. Len(rs) + 1 -> Nat]
  BY DEF Offsets
<1>3. \A j \in 1 .. Len(rs) + 1 : off[j] \in Nat
  BY <1>2
<1>4. i + 1 = Len(rs) + 1 \/ off[i + 1] < off[Len(rs) + 1]
  BY <1>1 DEF Frames
<1>5. off[i + 1] = off[i] + 1 + Len(rs[i])
  BY DEF Frames
<1>6. \A j \in 1 .. Len(rs) + 1 : j < i => off[j] < off[i]
  BY DEF Frames
<1> QED BY <1>1, <1>3, <1>4, <1>5, <1>6, SMTT(30)

LEMMA Positions ==
    ASSUME NEW o \in Nat, NEW p \in Nat, NEW n \in Nat, NEW k \in Nat, NEW l \in Nat,
           NEW r \in Nat, n <= r, k <= l, o + 1 + l <= p + r, p + n <= o + k
    PROVE  /\ o + 1 + k - (p + n) \in 1 .. r - n
           /\ n + (o + 1 + k - (p + n)) = o + 1 + k - p
           /\ p <= o + k
OBVIOUS

\* Taking bytes from the front leaves the rest.
LEMMA Taken ==
    ASSUME NEW rs \in Seq(Bodies), NEW off \in Offsets(rs), Frames(off, rs),
           NEW p \in Nat, NEW rest, Len(rest) \in Nat, Remains(off, rs, p, rest),
           NEW n \in 0 .. Len(rest), NEW left, Len(left) = Len(rest) - n,
           \A i \in 1 .. Len(rest) - n : left[i] = rest[n + i]
    PROVE  Remains(off, rs, p + n, left)
<1>0. n \in Nat /\ n <= Len(rest)
  OBVIOUS
<1>1. p + n + Len(left) = off[Len(rs) + 1]
  BY DEF Remains
<1>2. ASSUME NEW i \in 1 .. Len(rs), NEW k \in Nat, k <= Len(rs[i]), p + n <= off[i] + k
      PROVE  left[off[i] + 1 + k - (p + n)] = rest[off[i] + 1 + k - p] /\ p <= off[i] + k
  <2>1. off[i] \in Nat /\ off[i] + 1 + Len(rs[i]) <= p + Len(rest) /\ Len(rs[i]) \in Nat
    BY Within, RequestIs, SMTT(30) DEF Remains
  <2> DEFINE o == off[i]
             l == Len(rs[i])
             r == Len(rest)
  <2>2. o \in Nat /\ l \in Nat /\ r \in Nat /\ k <= l /\ n <= r /\ o + 1 + l <= p + r
        /\ p + n <= o + k
    BY <2>1, <1>0, <1>2
  <2> HIDE DEF o, l, r
  <2>3. /\ o + 1 + k - (p + n) \in 1 .. r - n
        /\ n + (o + 1 + k - (p + n)) = o + 1 + k - p
        /\ p <= o + k
    BY <1>0, <2>2, Positions
  <2> QED BY <2>3 DEF o, l, r
<1>3. ASSUME NEW i \in 1 .. Len(rs), p + n <= off[i]
      PROVE  left[off[i] + 1 - (p + n)] = Len(rs[i])
  <2> DEFINE o == off[i]
             l == Len(rs[i])
  <2>1. o \in Nat /\ l \in Nat
    BY Within, RequestIs, SMTT(30)
  <2>2. p + n <= o
    BY <1>3
  <2>3. 0 \in Nat /\ 0 <= l /\ p + n <= o + 0 => left[o + 1 + 0 - (p + n)] = rest[o + 1 + 0 - p] /\ p <= o + 0
    BY <1>2
  <2>4. p <= o => rest[o + 1 - p] = l
    BY DEF Remains
  <2> HIDE DEF o, l
  <2>5. left[o + 1 - (p + n)] = l
    BY <1>0, <2>1, <2>2, <2>3, <2>4
  <2> QED BY <2>5 DEF o, l
<1>4. ASSUME NEW i \in 1 .. Len(rs), NEW k \in 1 .. Len(rs[i]), p + n <= off[i] + k
      PROVE  left[off[i] + 1 + k - (p + n)] = rs[i][k]
  <2>1. Len(rs[i]) \in Nat
    BY RequestIs, SMTT(30)
  <2>2. k \in Nat /\ k <= Len(rs[i])
    BY <2>1
  <2>3. left[off[i] + 1 + k - (p + n)] = rest[off[i] + 1 + k - p] /\ p <= off[i] + k
    BY <2>2, <1>2, <1>4
  <2> QED BY <2>3 DEF Remains
<1> QED BY <1>1, <1>3, <1>4 DEF Remains

\* A request as the client sends it.
LEMMA FrameIs ==
    ASSUME NEW b \in Bodies
    PROVE  /\ Len(b) \in 0 .. 255
           /\ <<Len(b)>> \o b \in Seq(Byte)
           /\ Len(<<Len(b)>> \o b) = 1 + Len(b)
           /\ (<<Len(b)>> \o b)[1] = Len(b)
           /\ \A k \in 1 .. Len(b) : (<<Len(b)>> \o b)[1 + k] = b[k]
<1> DEFINE h == <<Len(b)>>
<1>1. b \in Seq(Byte) /\ Len(b) \in 0 .. 255
  BY BodiesAssumption DEF Byte
<1>2. h \in Seq(Byte) /\ Len(h) = 1 /\ h[1] = Len(b)
  BY <1>1, SMTT(30) DEF Byte
<1> HIDE DEF h
<1>3. /\ h \o b \in Seq(Byte) /\ Len(h \o b) = Len(h) + Len(b)
      /\ \A i \in 1 .. Len(h) : (h \o b)[i] = h[i]
      /\ \A i \in 1 .. Len(b) : (h \o b)[Len(h) + i] = b[i]
  BY <1>1, <1>2, Concatenated
<1>4. /\ Len(h \o b) = 1 + Len(b) /\ (h \o b)[1] = Len(b)
      /\ \A k \in 1 .. Len(b) : (h \o b)[1 + k] = b[k]
  <2>1. 1 \in 1 .. Len(h)
    BY <1>2
  <2>2. \A k \in 1 .. Len(b) : (h \o b)[1 + k] = b[k]
    BY <1>2, <1>3
  <2>3. (h \o b)[1] = Len(b)
    BY <2>1, <1>2, <1>3
  <2> QED BY <2>2, <2>3, <1>2, <1>3
<1> QED BY <1>1, <1>3, <1>4 DEF h

\* A request begun lies behind those before it.
LEMMA Added ==
    ASSUME NEW rs \in Seq(Bodies), NEW off \in Offsets(rs), Frames(off, rs),
           NEW p \in Nat, NEW rest \in Seq(Byte), Remains(off, rs, p, rest),
           NEW b \in Bodies
    PROVE  \E more \in Offsets(Append(rs, b)) :
              /\ Frames(more, Append(rs, b))
              /\ Remains(more, Append(rs, b), p, rest \o (<<Len(b)>> \o b))
              /\ \A i \in 1 .. Len(rs) + 1 : more[i] = off[i]
<1> DEFINE L == Len(rs)
           f == <<Len(b)>> \o b
           ss == Append(rs, b)
           e == off[L + 1]
           more == [i \in 1 .. L + 2 |-> IF i <= L + 1 THEN off[i] ELSE e + 1 + Len(b)]
           all == rest \o f
<1>1. /\ Len(b) \in 0 .. 255 /\ f \in Seq(Byte) /\ Len(f) = 1 + Len(b) /\ f[1] = Len(b)
      /\ \A k \in 1 .. Len(b) : f[1 + k] = b[k]
  BY FrameIs
<1>2. /\ L \in Nat /\ ss \in Seq(Bodies) /\ Len(ss) = L + 1 /\ ss[L + 1] = b
      /\ \A i \in 1 .. L : ss[i] = rs[i]
  OBVIOUS
<1>3. /\ \A i \in 1 .. L + 1 : off[i] \in Nat
      /\ e \in Nat
  BY <1>2, SMTT(30) DEF Offsets
<1>4. Len(rest) \in Nat /\ p + Len(rest) = e
  BY DEF Remains
<1> HIDE DEF f
<1>5. /\ Len(all) = Len(rest) + Len(f)
      /\ \A i \in 1 .. Len(rest) : all[i] = rest[i]
      /\ \A i \in 1 .. Len(f) : all[Len(rest) + i] = f[i]
  BY <1>1, Concatenated
<1>6. /\ more \in [1 .. L + 2 -> Nat]
      /\ \A i \in 1 .. L + 1 : more[i] = off[i]
      /\ more[L + 2] = e + 1 + Len(b)
  BY <1>1, <1>2, <1>3, SMTT(30)
<1> HIDE DEF more, ss, L, e, all
<1>7. more \in Offsets(ss)
  BY <1>2, <1>6 DEF Offsets
<1>8. Frames(more, ss)
  <2>1. ASSUME NEW i \in 1 .. Len(ss) PROVE more[i + 1] = more[i] + 1 + Len(ss[i])
    <3>1. CASE i = L + 1
      <4>1. more[i] = e /\ i + 1 = L + 2 /\ ss[i] = b
        BY <3>1, <1>2, <1>6 DEF e
      <4> QED BY <4>1, <1>6
    <3>2. CASE i # L + 1
      <4>1. i \in 1 .. L /\ i + 1 \in 1 .. L + 1 /\ i \in 1 .. L + 1
        BY <3>2, <1>2
      <4>2. off[i + 1] = off[i] + 1 + Len(rs[i])
        BY <4>1 DEF Frames, L
      <4> QED BY <4>1, <4>2, <1>2, <1>6
    <3> QED BY <3>1, <3>2
  <2>2. ASSUME NEW i \in 1 .. Len(ss) + 1, NEW j \in 1 .. Len(ss) + 1, i < j
        PROVE  more[i] < more[j]
    <3>1. i \in 1 .. L + 1
      BY <2>2, <1>2
    <3>2. CASE j = L + 2
      <4>1. i = L + 1 \/ off[i] < off[L + 1]
        BY <3>1, <1>2 DEF Frames, L
      <4>2. more[i] \in Nat /\ more[i] <= e
        BY <4>1, <3>1, <1>3, <1>6, SMTT(30) DEF e
      <4>3. more[j] = e + 1 + Len(b) /\ Len(b) \in Nat
        BY <3>2, <1>1, <1>6, SMTT(30)
      <4>4. \A x, y, z \in Nat : x <= y => x < y + 1 + z
        OBVIOUS
      <4> QED BY <4>2, <4>3, <4>4, <1>3
    <3>3. CASE j # L + 2
      <4>1. j \in 1 .. L + 1
        BY <3>3, <1>2
      <4>2. off[i] < off[j]
        BY <3>1, <4>1, <2>2 DEF Frames, L
      <4> QED BY <3>1, <4>1, <4>2, <1>6
    <3> QED BY <3>2, <3>3
  <2> QED BY <2>1, <2>2 DEF Frames
<1>9. ASSUME NEW i \in 1 .. L, NEW k \in Nat, k <= Len(rs[i]), p <= off[i] + k
      PROVE  all[more[i] + 1 + k - p] = rest[off[i] + 1 + k - p]
  <2> DEFINE o == off[i]
             l == Len(rs[i])
  <2>1. o \in Nat /\ o + 1 + l <= e /\ l \in Nat
    BY Within, RequestIs, SMTT(30) DEF e, L
  <2>2. more[i] = o
    <3>1. i \in 1 .. L + 1
      BY <1>2
    <3> QED BY <3>1, <1>6
  <2>3. k <= l /\ p <= o + k
    BY <1>9
  <2> HIDE DEF o, l
  <2>4. o + 1 + k - p \in 1 .. Len(rest)
    BY <2>1, <2>3, <1>4
  <2>5. all[o + 1 + k - p] = rest[o + 1 + k - p]
    BY <2>4, <1>5
  <2> QED BY <2>2, <2>5, SMTT(30) DEF o
<1>10. ASSUME NEW i \in 1 .. Len(ss), p <= more[i]
       PROVE  all[more[i] + 1 - p] = Len(ss[i])
  <2>1. CASE i = L + 1
    <3>1. more[i] = e /\ ss[i] = b
      BY <2>1, <1>2, <1>6 DEF e
    <3>2. e + 1 - p = Len(rest) + 1
      BY <1>3, <1>4, SMTT(30)
    <3>3. 1 \in 1 .. Len(f)
      BY <1>1
    <3>4. all[Len(rest) + 1] = f[1]
      BY <3>3, <1>5
    <3> QED BY <3>1, <3>2, <3>4, <1>1
  <2>2. CASE i # L + 1
    <3>1. i \in 1 .. L /\ more[i] = off[i] /\ off[i] \in Nat /\ ss[i] = rs[i]
      BY <2>2, <1>2, <1>3, <1>6
    <3>2. 0 <= Len(rs[i]) /\ p <= off[i] + 0
      BY <3>1, <1>10, RequestIs, SMTT(30) DEF L
    <3>3. all[more[i] + 1 + 0 - p] = rest[off[i] + 1 + 0 - p]
      BY <3>1, <3>2, <1>9
    <3>4. rest[off[i] + 1 - p] = Len(rs[i])
      BY <3>1, <1>10, SMTT(30) DEF Remains, L
    <3> QED BY <3>1, <3>3, <3>4, SMTT(30)
  <2> QED BY <2>1, <2>2
<1>11. ASSUME NEW i \in 1 .. Len(ss), NEW k \in 1 .. Len(ss[i]), p <= more[i] + k
       PROVE  all[more[i] + 1 + k - p] = ss[i][k]
  <2>1. CASE i = L + 1
    <3>1. k \in 1 .. Len(b) /\ ss[i] = b
      BY <2>1, <1>2
    <3>2. more[i] + 1 + k - p = Len(rest) + (1 + k) /\ 1 + k \in 1 .. Len(f)
      BY <2>1, <3>1, <1>1, <1>2, <1>3, <1>4, <1>6, SMTT(30) DEF e
    <3> QED BY <3>1, <3>2, <1>1, <1>5
  <2>2. CASE i # L + 1
    <3>1. i \in 1 .. L /\ more[i] = off[i] /\ ss[i] = rs[i]
      BY <2>2, <1>2, <1>6, SMTT(30)
    <3>2. Len(rs[i]) \in Nat
      BY <3>1, RequestIs, SMTT(30) DEF L
    <3>3. k \in Nat /\ k <= Len(rs[i]) /\ k \in 1 .. Len(rs[i]) /\ p <= off[i] + k
      BY <3>1, <3>2, <1>11
    <3>4. all[more[i] + 1 + k - p] = rest[off[i] + 1 + k - p]
      BY <3>1, <3>3, <1>9
    <3>5. rest[off[i] + 1 + k - p] = rs[i][k]
      BY <3>1, <3>3, SMTT(30) DEF Remains, L
    <3> QED BY <3>1, <3>4, <3>5
  <2> QED BY <2>1, <2>2
<1>12. p + Len(all) = more[Len(ss) + 1]
  <2>1. Len(ss) + 1 = L + 2
    BY <1>2
  <2>2. more[L + 2] = e + 1 + Len(b) /\ Len(all) = Len(rest) + (1 + Len(b))
    BY <1>1, <1>5, <1>6
  <2>3. \A x, y, z \in Nat : x + (y + (1 + z)) = (x + y) + 1 + z
    OBVIOUS
  <2>4. Len(b) \in Nat
    BY <1>1
  <2>5. p + (Len(rest) + (1 + Len(b))) = e + 1 + Len(b)
    BY <2>3, <2>4, <1>4
  <2> QED BY <2>1, <2>2, <2>5
<1>13. Remains(more, ss, p, all)
  BY <1>10, <1>11, <1>12 DEF Remains
<1>14. \A i \in 1 .. Len(rs) + 1 : more[i] = off[i]
  BY <1>6 DEF L
<1> QED BY <1>7, <1>8, <1>13, <1>14, SMTT(30) DEF ss, all, f

-----------------------------------------------------------------------------
-----------------------------------------------------------------------------
(* Steps.                                                                  *)

\* What is known of one client.
Kept(c) == Ends(c) /\ PassedAsSent(c) /\ Aligned(c)

LEMMA Untouched ==
    ASSUME NEW c \in Clients, Kept(c),
           passed'[c] = passed[c], status'[c] = status[c], stream'[c] = stream[c],
           unsent'[c] = unsent[c], sent'[c] = sent[c], ended'[c] = ended[c],
           InBody(c)' <=> InBody(c), InBody(c) => buf' = buf /\ nleft' = nleft
    PROVE  Kept(c)'
<1>1. Ends(c)' /\ PassedAsSent(c)'
  BY DEF Kept, Ends, PassedAsSent
<1>2. BodyBegun(c) /\ InBody(c) => BodyBegun(c)'
  BY DEF BodyBegun, Body
<1>3. \A off : Position(c, off)' = Position(c, off)
  BY DEF Position
<1>4. Aligned(c)'
  BY <1>2, <1>3 DEF Kept, Aligned
<1> QED BY <1>1, <1>4 DEF Kept

LEMMA ClosedAsBefore ==
    ASSUME ReadBeforeClosed,
           \A c \in Clients : status'[c] = "closed" =>
              /\ status[c] = "closed" /\ ended'[c] = ended[c]
              /\ passed'[c] = passed[c] /\ sent'[c] = sent[c]
    PROVE  ReadBeforeClosed'
BY DEF ReadBeforeClosed

\* The client that is read has not been closed.
LEMMA Reading ==
    ASSUME IInv, pc # "loop", status[cur] # "reset"
    PROVE  cur \in Clients /\ status[cur] \in {"open", "fin"}
BY DEF IInv, Types, Reader

\* The bytes of a client that still have to be read.
LEMMA Unread ==
    ASSUME IInv, NEW c \in Clients
    PROVE  /\ stream[c] \in Seq(Byte) /\ unsent[c] \in Seq(Byte)
           /\ Len(stream[c]) \in Nat /\ Len(unsent[c]) \in Nat
           /\ stream[c] \o unsent[c] \in Seq(Byte)
           /\ Len(stream[c] \o unsent[c]) = Len(stream[c]) + Len(unsent[c])
           /\ \A i \in 1 .. Len(stream[c]) : (stream[c] \o unsent[c])[i] = stream[c][i]
           /\ sent[c] \in Seq(Bodies) /\ Len(sent[c]) \in Nat
           /\ passed[c] \in Seq(Seq(Byte)) /\ Len(passed[c]) \in 0 .. Len(sent[c])
           /\ buf \in Seq(Byte) /\ Len(buf) \in Nat
<1>1. /\ stream[c] \in Seq(Byte) /\ unsent[c] \in Seq(Byte) /\ buf \in Seq(Byte)
      /\ sent[c] \in Seq(Bodies) /\ passed[c] \in Seq(Seq(Byte))
  BY DEF IInv, Types
<1>2. Len(passed[c]) <= Len(sent[c])
  BY DEF IInv, PassedAsSent
<1>3. Len(sent[c]) \in Nat /\ Len(passed[c]) \in Nat /\ Len(buf) \in Nat
  BY <1>1
<1>4. /\ stream[c] \o unsent[c] \in Seq(Byte)
      /\ Len(stream[c]) \in Nat /\ Len(unsent[c]) \in Nat
      /\ Len(stream[c] \o unsent[c]) = Len(stream[c]) + Len(unsent[c])
      /\ \A i \in 1 .. Len(stream[c]) : (stream[c] \o unsent[c])[i] = stream[c][i]
  BY <1>1, Concatenated
<1>5. Len(passed[c]) \in 0 .. Len(sent[c])
  BY <1>2, <1>3
<1> QED BY <1>1, <1>3, <1>4, <1>5

\* Where the reader stands in the stream of a client.
LEMMA Located ==
    ASSUME IInv, NEW c \in Clients, status[c] \in {"open", "fin"},
           NEW off \in Offsets(sent[c]), Frames(off, sent[c]),
           Remains(off, sent[c], Position(c, off), stream[c] \o unsent[c])
    PROVE  /\ Position(c, off) \in Nat
           /\ off[Len(passed[c]) + 1] \in Nat /\ off[Len(sent[c]) + 1] \in Nat
           /\ Position(c, off) + Len(stream[c]) + Len(unsent[c]) = off[Len(sent[c]) + 1]
           /\ stream[c] # <<>> => Len(passed[c]) + 1 \in 1 .. Len(sent[c])
<1>1. /\ Len(stream[c]) \in Nat /\ Len(unsent[c]) \in Nat /\ Len(buf) \in Nat
      /\ Len(stream[c] \o unsent[c]) = Len(stream[c]) + Len(unsent[c])
      /\ Len(passed[c]) \in 0 .. Len(sent[c]) /\ Len(sent[c]) \in Nat
      /\ stream[c] \in Seq(Byte)
  BY Unread
<1>2. off[Len(passed[c]) + 1] \in Nat /\ off[Len(sent[c]) + 1] \in Nat
  BY <1>1, SMTT(30) DEF Offsets
<1>3. Position(c, off) \in Nat /\ Position(c, off) >= off[Len(passed[c]) + 1]
  BY <1>1, <1>2, SMTT(30) DEF Position
<1>4. Position(c, off) + Len(stream[c]) + Len(unsent[c]) = off[Len(sent[c]) + 1]
  <2>1. Position(c, off) + Len(stream[c] \o unsent[c]) = off[Len(sent[c]) + 1]
    BY DEF Remains
  <2> DEFINE a == Len(stream[c])
             b == Len(unsent[c])
             p == Position(c, off)
  <2>2. a \in Nat /\ b \in Nat /\ p \in Nat /\ Len(stream[c] \o unsent[c]) = a + b
    BY <1>1, <1>3
  <2> HIDE DEF a, b, p
  <2>3. p + (a + b) = p + a + b
    BY <2>2
  <2> QED BY <2>1, <2>2, <2>3 DEF a, b, p
<1>5. ASSUME stream[c] # <<>> PROVE Len(passed[c]) + 1 \in 1 .. Len(sent[c])
  <2>1. Len(stream[c]) > 0
    BY <1>1, <1>5
  <2>2. ASSUME Len(passed[c]) = Len(sent[c]) PROVE FALSE
    <3> DEFINE a == Len(stream[c])
               b == Len(unsent[c])
               p == Position(c, off)
               e == off[Len(sent[c]) + 1]
    <3>1. a \in Nat /\ a > 0 /\ b \in Nat /\ p \in Nat /\ e \in Nat
      BY <2>1, <1>1, <1>2, <1>3
    <3>2. p + a + b = e /\ p >= e
      BY <2>2, <1>3, <1>4
    <3> HIDE DEF a, b, p, e
    <3> QED BY <3>1, <3>2
  <2> QED BY <2>2, <1>1
<1> QED BY <1>2, <1>3, <1>4, <1>5

\* After n bytes of the stream are read the rest is behind them.
LEMMA Advanced ==
    ASSUME IInv, NEW c \in Clients, NEW off \in Offsets(sent[c]), Frames(off, sent[c]),
           NEW p \in Nat, Remains(off, sent[c], p, stream[c] \o unsent[c]),
           NEW n \in 0 .. Len(stream[c]),
           stream' = [stream EXCEPT ![c] = SubSeq(@, n + 1, Len(@))]
    PROVE  Remains(off, sent[c], p + n, stream'[c] \o unsent[c])
<1> DEFINE s == stream[c]
           t == unsent[c]
           r == SubSeq(s, n + 1, Len(s)) \o t
           all == s \o t
<1>1. /\ s \in Seq(Byte) /\ t \in Seq(Byte) /\ all \in Seq(Byte)
      /\ Len(all) = Len(s) + Len(t) /\ Len(s) \in Nat /\ Len(t) \in Nat
      /\ sent[c] \in Seq(Bodies)
  BY Unread
<1>2. stream'[c] = SubSeq(s, n + 1, Len(s))
  BY DEF IInv, Types
<1>3. /\ Len(r) = Len(all) - n
      /\ \A i \in 1 .. Len(all) - n : r[i] = all[n + i]
  BY <1>1, Dropped
<1>4. n \in 0 .. Len(all) /\ Len(all) \in Nat
  <2>1. n \in 0 .. Len(s)
    OBVIOUS
  <2> HIDE DEF s, t, all
  <2> QED BY <2>1, <1>1
<1>5. Remains(off, sent[c], p, all)
  OBVIOUS
<1> HIDE DEF r, all
<1>6. Remains(off, sent[c], p + n, r)
  BY <1>1, <1>3, <1>4, <1>5, Taken
<1> QED BY <1>2, <1>6 DEF r

\* The first request that has not been passed on, and where it lies.
LEMMA BodyIs ==
    ASSUME IInv, NEW c \in Clients, status[c] \in {"open", "fin"}, stream[c] # <<>>,
           NEW off \in Offsets(sent[c]), Frames(off, sent[c]),
           Remains(off, sent[c], Position(c, off), stream[c] \o unsent[c])
    PROVE  /\ Body(c) \in Seq(Byte) /\ Len(Body(c)) \in 0 .. 255
           /\ off[Len(passed[c]) + 2] = off[Len(passed[c]) + 1] + 1 + Len(Body(c))
           /\ ~InBody(c) => stream[c][1] = Len(Body(c))
           /\ InBody(c) => \A k \in 1 .. Len(stream[c]) :
                 Len(buf) + k <= Len(Body(c)) => stream[c][k] = Body(c)[Len(buf) + k]
<1> DEFINE j == Len(passed[c]) + 1
           rs == sent[c]
           b == Body(c)
           o == off[j]
           n == Len(buf)
           all == stream[c] \o unsent[c]
<1>1. /\ j \in 1 .. Len(rs) /\ o \in Nat /\ rs \in Seq(Bodies) /\ b = rs[j]
      /\ Len(stream[c]) \in Nat /\ n \in Nat /\ Len(stream[c]) # 0
      /\ \A k \in 1 .. Len(stream[c]) : all[k] = stream[c][k]
      /\ Len(passed[c]) \in Nat
  <2>1. j \in 1 .. Len(rs) /\ o \in Nat
    BY Located
  <2>2. /\ rs \in Seq(Bodies) /\ stream[c] \in Seq(Byte) /\ Len(stream[c]) \in Nat
        /\ n \in Nat /\ Len(passed[c]) \in 0 .. Len(rs) /\ Len(rs) \in Nat
        /\ \A k \in 1 .. Len(stream[c]) : all[k] = stream[c][k]
    BY Unread
  <2>3. Len(stream[c]) # 0
    BY <2>2
  <2>4. Len(passed[c]) \in Nat
    BY <2>2
  <2> QED BY <2>1, <2>2, <2>3, <2>4 DEF Body
<1>2. /\ Position(c, off) = IF InBody(c) THEN o + (1 + n) ELSE o + 0
      /\ Remains(off, rs, Position(c, off), all)
  BY DEF Position
<1> HIDE DEF rs, all
<1>3. b \in Seq(Byte) /\ Len(b) \in 0 .. 255 /\ off[j + 1] = o + 1 + Len(b)
  BY <1>1, RequestIs, Within DEF rs
<1>4. j + 1 = Len(passed[c]) + 2
  BY <1>1
<1> HIDE DEF j, b, o, n
<1>5. ASSUME ~InBody(c) PROVE stream[c][1] = Len(b)
  <2>1. Remains(off, rs, o, all)
    BY <1>1, <1>2, <1>5
  <2>2. all[o + 1 - o] = Len(b)
    BY <2>1, <1>1 DEF Remains, o
  <2>3. o + 1 - o = 1 /\ 1 \in 1 .. Len(stream[c])
    BY <1>1
  <2> QED BY <2>2, <2>3, <1>1
<1>6. ASSUME InBody(c), NEW k \in 1 .. Len(stream[c]), n + k <= Len(b)
      PROVE  stream[c][k] = b[n + k]
  <2>1. Remains(off, rs, o + (1 + n), all)
    BY <1>2, <1>6
  <2>2. n + k \in 1 .. Len(rs[j]) /\ o + (1 + n) <= o + (n + k)
        /\ o + 1 + (n + k) - (o + (1 + n)) = k
    BY <1>1, <1>3, <1>6, SMTT(30)
  <2>3. all[o + 1 + (n + k) - (o + (1 + n))] = b[n + k]
    BY <2>1, <2>2, <1>1 DEF Remains, o
  <2> QED BY <2>2, <2>3, <1>1
<1> QED BY <1>3, <1>4, <1>5, <1>6 DEF j, b, o, n

\* The request at the reader's place is passed on, and the reader stands behind it.
LEMMA OnePassed ==
    ASSUME IInv, NEW c \in Clients, status[c] \in {"open", "fin"},
           Len(passed[c]) + 1 \in 1 .. Len(sent[c]),
           passed' = [passed EXCEPT ![c] = Append(@, Body(c))], pc' = "loop",
           UNCHANGED <<status, client>>,
           NEW off \in Offsets(sent[c]), Frames(off, sent[c]),
           Remains(off, sent[c], off[Len(passed[c]) + 2], stream'[c] \o unsent[c])
    PROVE  /\ Kept(c)'
           /\ passed' \in [Clients -> Seq(Seq(Byte))]
           /\ \A d \in Clients \ {c} : passed'[d] = passed[d]
<1> DEFINE b == Body(c)
           j == Len(passed[c]) + 1
<1>1. /\ passed[c] \in Seq(Seq(Byte)) /\ Len(passed[c]) \in Nat /\ Len(sent[c]) \in Nat
      /\ sent[c] \in Seq(Bodies)
  <2>1. passed[c] \in Seq(Seq(Byte)) /\ Len(sent[c]) \in Nat /\ sent[c] \in Seq(Bodies)
    BY Unread
  <2> QED BY <2>1
<1>2. j \in 1 .. Len(sent[c]) /\ b = sent[c][j] /\ b \in Seq(Byte)
      /\ j + 1 = Len(passed[c]) + 2
  <2>1. j \in 1 .. Len(sent[c]) /\ b = sent[c][j]
    BY DEF Body
  <2>2. b \in Seq(Byte)
    BY <2>1, <1>1, RequestIs
  <2>3. j + 1 = Len(passed[c]) + 2
    BY <1>1
  <2> QED BY <2>1, <2>2, <2>3
<1> HIDE DEF b
<1>3. /\ passed'[c] = Append(passed[c], b) /\ passed' \in [Clients -> Seq(Seq(Byte))]
      /\ \A d \in Clients \ {c} : passed'[d] = passed[d]
  BY <1>1, <1>2 DEF IInv, Types, b
<1> HIDE DEF j
<1>4. Len(passed'[c]) = j
  BY <1>1, <1>2, <1>3 DEF j
<1>5. Kept(c)
  BY DEF IInv, Kept
<1>6. PassedAsSent(c)'
  <2>1. Len(passed'[c]) <= Len(sent'[c])
    BY <1>1, <1>2, <1>4 DEF client
  <2>2. ASSUME NEW i \in 1 .. j PROVE passed'[c][i] = sent[c][i]
    <3>1. CASE i = j
      <4>1. passed'[c][i] = b
        BY <3>1, <1>1, <1>3 DEF j
      <4> QED BY <4>1, <3>1, <1>2
    <3>2. CASE i # j
      <4>1. i \in 1 .. Len(passed[c])
        BY <3>2, <1>1 DEF j
      <4>2. passed'[c][i] = passed[c][i]
        BY <4>1, <1>1, <1>3
      <4> QED BY <4>1, <4>2, <1>5 DEF Kept, PassedAsSent
    <3> QED BY <3>1, <3>2
  <2> QED BY <2>1, <2>2, <1>4 DEF PassedAsSent, client
<1>7. Ends(c)'
  BY <1>5 DEF Kept, Ends, client
<1>8. ~InBody(c)' /\ Position(c, off)' = off[j + 1] + 0
  BY <1>4 DEF InBody, Position
<1>9. off[j + 1] + 0 = off[Len(passed[c]) + 2]
  <2>1. off[j + 1] \in Nat
    BY <1>1, <1>2, Within
  <2> QED BY <2>1, <1>2
<1>10. Aligned(c)'
  BY <1>8, <1>9 DEF Aligned, client
<1> QED BY <1>3, <1>6, <1>7, <1>10 DEF Kept

(***************************************************************************)
(* readn gets a length, and readn is called for that many bytes; a request *)
(* of no bytes is passed on at once (socket_server.c:320-358).             *)
(***************************************************************************)
LEMMA ReadLength ==
    ASSUME IInv, Read, pc = "length", NEW c \in Clients, c = cur
    PROVE  /\ Kept(c)'
           /\ \/ pc' = "body" /\ nleft' \in Byte /\ nleft' # 0
              \/ pc' = "loop" /\ nleft' = 0
           /\ buf' \in Seq(Byte)
           /\ passed' \in [Clients -> Seq(Seq(Byte))]
           /\ \A d \in Clients \ {c} : passed'[d] = passed[d]
           /\ stream' \in [Clients -> Seq(Byte)]
<1>0. status[c] \in {"open", "fin"}
  BY Reading DEF Read
<1>1. Kept(c) /\ ~InBody(c)
  BY DEF IInv, Kept, InBody
<1>2. PICK off \in Offsets(sent[c]) :
         /\ Frames(off, sent[c])
         /\ Remains(off, sent[c], Position(c, off), stream[c] \o unsent[c])
  BY <1>0, <1>1 DEF Kept, Aligned
<1>3. stream[c] # <<>> /\ nleft = 1 /\ buf = <<>>
  BY DEF Read, IInv, Reader
<1>4. /\ stream[c] \in Seq(Byte) /\ Len(stream[c]) \in Nat /\ 1 <= Len(stream[c])
      /\ stream[c][1] \in Byte
  <2>1. stream[c] \in Seq(Byte)
    BY Unread
  <2> QED BY <2>1, <1>3
<1>5. /\ Body(c) \in Seq(Byte) /\ Len(Body(c)) \in 0 .. 255
      /\ stream[c][1] = Len(Body(c))
  BY <1>0, <1>1, <1>2, <1>3, BodyIs
<1>6. /\ Position(c, off) = off[Len(passed[c]) + 1] /\ Position(c, off) \in Nat
      /\ Len(passed[c]) + 1 \in 1 .. Len(sent[c]) /\ Len(passed[c]) \in Nat
      /\ Len(sent[c]) \in Nat
  <2>1. off[Len(passed[c]) + 1] \in Nat /\ Len(passed[c]) + 1 \in 1 .. Len(sent[c])
        /\ Position(c, off) \in Nat
    BY <1>0, <1>2, <1>3, Located
  <2> QED BY <2>1, <1>1, Unread DEF Position
<1> DEFINE l == SubSeq(stream[c], 1, 1)[1]
<1>7. /\ stream' = [stream EXCEPT ![c] = SubSeq(@, 1 + 1, Len(@))]
      /\ UNCHANGED <<events, cur, status, client>>
      /\ IF l = 0
         THEN /\ passed' = [passed EXCEPT ![c] = Append(@, <<>>)]
              /\ pc' = "loop" /\ nleft' = 0 /\ buf' = <<>>
         ELSE /\ passed' = passed
              /\ pc' = "body" /\ nleft' = l /\ buf' = <<>>
  <2>1. (IF nleft <= Len(stream[cur]) THEN nleft ELSE Len(stream[cur])) = 1
    BY <1>3, <1>4
  <2>2. <<>> \o SubSeq(stream[c], 1, 1) = SubSeq(stream[c], 1, 1)
    BY <1>4, Pieces, ConcatEmptySeq, SMTT(30)
  <2> QED BY <2>1, <2>2, <1>3 DEF Read, ReadnReturns, Readn, PassOn
<1>8. l = Len(Body(c))
  BY <1>4, <1>5, Pieces, SMTT(30)
<1> HIDE DEF l
<1>9. stream' \in [Clients -> Seq(Byte)]
  BY <1>4, <1>7, Pieces DEF IInv, Types
<1>10. Remains(off, sent[c], Position(c, off) + 1, stream'[c] \o unsent[c])
  <2>1. 1 \in 0 .. Len(stream[c])
    BY <1>4
  <2> QED BY <2>1, <1>2, <1>6, <1>7, Advanced
<1>11. CASE l # 0
  <2>0. passed' = passed /\ pc' = "body" /\ nleft' = l /\ buf' = <<>>
    BY <1>7, <1>11
  <2>1. Ends(c)' /\ PassedAsSent(c)'
    BY <2>0, <1>1, <1>7 DEF Kept, Ends, PassedAsSent, client
  <2>2. BodyBegun(c)'
    <3>1. Body(c)' = Body(c) /\ Len(passed'[c]) < Len(sent'[c])
      BY <2>0, <1>6, <1>7, SMTT(30) DEF Body, client
    <3>2. Len(buf') = 0 /\ Len(buf') + nleft' = Len(Body(c))
      BY <2>0, <1>5, <1>8, SMTT(30)
    <3>3. \A k \in 1 .. Len(buf') : buf'[k] = Body(c)[k]
      BY <3>2
    <3> QED BY <3>1, <3>2, <3>3 DEF BodyBegun
  <2>3. Position(c, off)' = Position(c, off) + 1
    BY <2>0, <1>6, <1>7 DEF Position, InBody
  <2>4. Aligned(c)'
    BY <2>2, <2>3, <1>2, <1>7, <1>10 DEF Aligned, client
  <2>5. nleft' \in Byte /\ nleft' # 0
    BY <2>0, <1>5, <1>8, <1>11 DEF Byte
  <2>6. passed \in [Clients -> Seq(Seq(Byte))]
    BY DEF IInv, Types
  <2> QED BY <2>0, <2>1, <2>4, <2>5, <2>6, <1>9 DEF Kept
<1>12. CASE l = 0
  <2>1. Body(c) = <<>>
    <3>1. \A q \in Seq(Byte) : Len(q) = 0 => q = <<>>
      OBVIOUS
    <3> QED BY <3>1, <1>5, <1>8, <1>12
  <2>2. /\ passed' = [passed EXCEPT ![c] = Append(@, Body(c))]
        /\ pc' = "loop" /\ nleft' = 0 /\ buf' = <<>>
    BY <2>1, <1>7, <1>12
  <2>3. off[Len(passed[c]) + 2] = Position(c, off) + 1
    <3>1. off[Len(passed[c]) + 2] = off[Len(passed[c]) + 1] + 1 + Len(Body(c))
      BY <1>0, <1>2, <1>3, BodyIs
    <3> QED BY <3>1, <1>6, <1>8, <1>12
  <2>4. Remains(off, sent[c], off[Len(passed[c]) + 2], stream'[c] \o unsent[c])
    BY <2>3, <1>10
  <2>5. /\ Kept(c)'
        /\ passed' \in [Clients -> Seq(Seq(Byte))]
        /\ \A d \in Clients \ {c} : passed'[d] = passed[d]
    BY <2>2, <2>4, <1>0, <1>2, <1>6, <1>7, OnePassed
  <2> QED BY <2>2, <2>5, <1>9
<1> QED BY <1>11, <1>12

(***************************************************************************)
(* A read(2) in a request takes bytes of that request only, and the        *)
(* request is passed on when its last byte is there                        *)
(* (socket_server.c:282-310, 348-358).                                     *)
(***************************************************************************)
LEMMA ReadBody ==
    ASSUME IInv, Read, pc = "body", NEW c \in Clients, c = cur
    PROVE  /\ Kept(c)'
           /\ \/ pc' = "body" /\ nleft' \in Byte /\ nleft' # 0
              \/ pc' = "loop" /\ nleft' = 0
           /\ buf' \in Seq(Byte)
           /\ passed' \in [Clients -> Seq(Seq(Byte))]
           /\ \A d \in Clients \ {c} : passed'[d] = passed[d]
           /\ stream' \in [Clients -> Seq(Byte)]
<1>1. status[c] \in {"open", "fin"} /\ Kept(c) /\ InBody(c) /\ stream[c] # <<>>
  BY Reading DEF Read, IInv, Kept, InBody
<1>2. PICK off \in Offsets(sent[c]) :
         /\ Frames(off, sent[c])
         /\ Remains(off, sent[c], Position(c, off), stream[c] \o unsent[c])
  BY <1>1 DEF Kept, Aligned
<1> DEFINE b == Body(c)
           l == Len(b)
           m == Len(buf)
           n == IF nleft <= Len(stream[c]) THEN nleft ELSE Len(stream[c])
           j == Len(passed[c]) + 1
           p == Position(c, off)
           part == SubSeq(stream[c], 1, n)
           got == buf \o part
<1>3. /\ b \in Seq(Byte) /\ l \in 0 .. 255 /\ off[j + 1] = off[j] + 1 + l
      /\ \A k \in 1 .. Len(stream[c]) : m + k <= l => stream[c][k] = b[m + k]
  <2>1. j + 1 = Len(passed[c]) + 2
    BY Unread
  <2> QED BY <2>1, <1>1, <1>2, BodyIs
<1>4. /\ stream[c] \in Seq(Byte) /\ Len(stream[c]) \in Nat /\ Len(stream[c]) # 0
      /\ buf \in Seq(Byte) /\ m \in Nat /\ passed[c] \in Seq(Seq(Byte))
      /\ Len(sent[c]) \in Nat /\ Len(passed[c]) \in Nat
  <2>1. /\ stream[c] \in Seq(Byte) /\ Len(stream[c]) \in Nat
        /\ buf \in Seq(Byte) /\ m \in Nat /\ passed[c] \in Seq(Seq(Byte))
        /\ Len(sent[c]) \in Nat
    BY Unread
  <2>2. Len(stream[c]) # 0
    BY <2>1, <1>1
  <2>3. Len(passed[c]) \in Nat
    BY <2>1
  <2> QED BY <2>1, <2>2, <2>3
<1>5. /\ j \in 1 .. Len(sent[c]) /\ b = sent[c][j]
      /\ m + nleft = l /\ \A k \in 1 .. m : buf[k] = b[k]
  <2>1. BodyBegun(c)
    BY <1>1 DEF Kept, Aligned
  <2> QED BY <2>1, <1>4 DEF BodyBegun, Body
<1>6. nleft \in 1 .. 255
  BY <1>1 DEF IInv, Types, Reader, InBody, Byte
<1>7. /\ p = off[j] + (1 + m) /\ p \in Nat /\ off[j] \in Nat
  BY <1>1, <1>2, Located DEF Position
<1>8. n \in 1 .. Len(stream[c]) /\ n \in 1 .. nleft /\ n \in 0 .. Len(stream[c])
  BY <1>4, <1>6
<1>9. /\ part \in Seq(Byte) /\ Len(part) = n /\ \A k \in 1 .. n : part[k] = stream[c][k]
      /\ SubSeq(stream[c], n + 1, Len(stream[c])) \in Seq(Byte)
  BY <1>4, <1>8, Pieces
<1>10. /\ stream' = [stream EXCEPT ![c] = SubSeq(@, n + 1, Len(@))]
       /\ UNCHANGED <<events, cur, status, client>>
       /\ IF n = nleft
          THEN /\ passed' = [passed EXCEPT ![c] = Append(@, got)]
               /\ pc' = "loop" /\ nleft' = 0 /\ buf' = <<>>
          ELSE nleft' = nleft - n /\ buf' = got /\ UNCHANGED <<pc, passed>>
  BY DEF Read, ReadnReturns, Readn, PassOn
<1>11. stream' \in [Clients -> Seq(Byte)]
  BY <1>9, <1>10 DEF IInv, Types
<1> HIDE DEF n
<1>12. Remains(off, sent[c], p + n, stream'[c] \o unsent[c])
  BY <1>2, <1>7, <1>8, <1>10, Advanced
<1> HIDE DEF b, l, m, p, part, j
<1>13. /\ got \in Seq(Byte) /\ Len(got) = m + n
       /\ \A k \in 1 .. m : got[k] = buf[k]
       /\ \A k \in 1 .. n : got[m + k] = part[k]
  BY <1>4, <1>9, Concatenated DEF m
<1> HIDE DEF got
<1>14. ASSUME NEW k \in 1 .. Len(got) PROVE got[k] = b[k]
  <2>1. CASE k <= m
    BY <2>1, <1>4, <1>5, <1>8, <1>13
  <2>2. CASE k > m
    <3>1. k - m \in 1 .. n /\ m + (k - m) = k /\ k - m \in 1 .. Len(stream[c]) /\ k <= l
      BY <2>2, <1>4, <1>5, <1>6, <1>8, <1>13
    <3> QED BY <3>1, <1>3, <1>9, <1>13
  <2> QED BY <2>1, <2>2, <1>4, <1>8, <1>13
<1>15. Ends(c)'
  BY <1>1, <1>10 DEF Kept, Ends, client
<1>16. CASE n = nleft
  <2>1. got = b
    <3>1. Len(got) = Len(b)
      BY <1>16, <1>5, <1>13 DEF l
    <3> QED BY <3>1, <1>3, <1>13, <1>14, SameSequence
  <2>2. /\ passed' = [passed EXCEPT ![c] = Append(@, b)]
        /\ pc' = "loop" /\ nleft' = 0 /\ buf' = <<>>
    BY <2>1, <1>10, <1>16
  <2>3. off[Len(passed[c]) + 2] = p + n
    <3>1. off[Len(passed[c]) + 2] = off[j + 1]
      <4>1. j + 1 = Len(passed[c]) + 2
        BY <1>4 DEF j
      <4> QED BY <4>1
    <3>2. \A x, y, z \in Nat : x + 1 + (y + z) = (x + (1 + y)) + z
      OBVIOUS
    <3>3. n \in Nat /\ m + n = l
      <4>1. n \in Nat
        BY <1>6, <1>16
      <4>2. m + nleft = l
        BY <1>5
      <4> QED BY <4>1, <4>2, <1>16
    <3>4. m \in Nat /\ off[j] \in Nat
      BY <1>4, <1>7
    <3>5. off[j] + 1 + (m + n) = (off[j] + (1 + m)) + n
      BY <3>2, <3>3, <3>4
    <3>6. off[j + 1] = off[j] + 1 + (m + n)
      BY <3>3, <1>3
    <3>7. p = off[j] + (1 + m)
      BY <1>7
    <3> QED BY <3>1, <3>5, <3>6, <3>7
  <2>4. /\ Kept(c)'
        /\ passed' \in [Clients -> Seq(Seq(Byte))]
        /\ \A d \in Clients \ {c} : passed'[d] = passed[d]
    <3>1. passed' = [passed EXCEPT ![c] = Append(@, Body(c))]
      BY <2>2 DEF b
    <3>2. Len(passed[c]) + 1 \in 1 .. Len(sent[c])
      BY <1>5 DEF j
    <3>3. Remains(off, sent[c], off[Len(passed[c]) + 2], stream'[c] \o unsent[c])
      BY <2>3, <1>12
    <3> QED BY <3>1, <3>2, <3>3, <2>2, <1>1, <1>2, <1>10, OnePassed
  <2>5. buf' \in Seq(Byte)
    BY <2>2
  <2> QED BY <2>2, <2>4, <2>5, <1>11
<1>17. CASE n # nleft
  <2>1. nleft' = nleft - n /\ buf' = got /\ pc' = "body" /\ passed' = passed
    BY <1>10, <1>17
  <2>2. nleft' \in 1 .. 255
    BY <2>1, <1>6, <1>8, <1>17
  <2>3. PassedAsSent(c)'
    BY <2>1, <1>1, <1>10 DEF Kept, PassedAsSent, client
  <2>4. BodyBegun(c)'
    <3>1. Body(c)' = b /\ Len(passed'[c]) < Len(sent'[c])
      BY <2>1, <1>4, <1>5, <1>10 DEF b, Body, client, j
    <3>2. Len(buf') + nleft' = Len(b)
      <4>1. \A x, y, z \in Nat : (x + y) + (z - y) = x + z
        OBVIOUS
      <4>2. n \in Nat
        BY <1>8
      <4>3. m \in Nat
        BY <1>4
      <4>4. nleft \in Nat
        BY <1>6
      <4>5. (m + n) + (nleft - n) = m + nleft
        BY <4>1, <4>2, <4>3, <4>4
      <4>6. Len(buf') = m + n /\ nleft' = nleft - n
        BY <2>1, <1>13
      <4>7. m + nleft = Len(b)
        BY <1>5 DEF l
      <4> QED BY <4>5, <4>6, <4>7
    <3>3. \A k \in 1 .. Len(buf') : buf'[k] = b[k]
      BY <2>1, <1>14
    <3> QED BY <3>1, <3>2, <3>3 DEF BodyBegun
  <2>5. Position(c, off)' = p + n
    <3>1. Position(c, off)' = off[j] + (1 + (m + n))
      BY <2>1, <1>1, <1>10, <1>13 DEF Position, InBody, j
    <3>2. \A x, y, z \in Nat : x + (1 + (y + z)) = (x + (1 + y)) + z
      OBVIOUS
    <3>3. n \in Nat
      BY <1>8
    <3>4. m \in Nat
      BY <1>4
    <3>5. off[j] \in Nat
      BY <1>7
    <3>6. off[j] + (1 + (m + n)) = (off[j] + (1 + m)) + n
      BY <3>2, <3>3, <3>4, <3>5
    <3>7. p = off[j] + (1 + m)
      BY <1>7
    <3> QED BY <3>1, <3>6, <3>7
  <2>6. Aligned(c)'
    BY <2>4, <2>5, <1>2, <1>10, <1>12 DEF Aligned, client
  <2>7. nleft' \in Byte /\ nleft' # 0
    BY <2>2 DEF Byte
  <2> QED BY <2>1, <2>3, <2>6, <2>7, <1>11, <1>13, <1>15 DEF Kept, IInv, Types
<1> QED BY <1>16, <1>17

\* The reader stands in the first request that has not been passed on.
LEMMA Between ==
    ASSUME IInv, NEW c \in Clients, status[c] \in {"open", "fin"},
           NEW off \in Offsets(sent[c]), Frames(off, sent[c]),
           Remains(off, sent[c], Position(c, off), stream[c] \o unsent[c])
    PROVE  /\ off[Len(passed[c]) + 1] <= Position(c, off)
           /\ Len(passed[c]) < Len(sent[c]) =>
                 Position(c, off) < off[Len(passed[c]) + 2]
<1> DEFINE j == Len(passed[c]) + 1
           o == off[j]
           m == Len(buf)
           p == Position(c, off)
<1>1. o \in Nat /\ m \in Nat /\ Len(passed[c]) \in 0 .. Len(sent[c]) /\ Len(sent[c]) \in Nat
      /\ sent[c] \in Seq(Bodies)
  BY Located, Unread
<1>2. p = IF InBody(c) THEN o + (1 + m) ELSE o + 0
  BY DEF Position
<1>3. ASSUME Len(passed[c]) < Len(sent[c]) PROVE p < off[j + 1]
  <2> DEFINE l == Len(Body(c))
  <2>1. j \in 1 .. Len(sent[c])
    BY <1>1, <1>3
  <2>2. off[j + 1] = o + 1 + l /\ l \in 0 .. 255
    BY <2>1, <1>1, Within, RequestIs DEF Body
  <2>3. InBody(c) => m + nleft = l /\ nleft \in 1 .. 255
    <3>1. InBody(c) => m + nleft = l
      BY DEF IInv, Aligned, BodyBegun
    <3>2. InBody(c) => nleft \in 1 .. 255
      BY DEF IInv, Types, Reader, InBody, Byte
    <3> QED BY <3>1, <3>2
  <2> HIDE DEF o, m, l, p
  <2>4. CASE InBody(c)
    <3>1. \A x, y \in Nat, z \in 1 .. 255 : x + (1 + y) < x + 1 + (y + z)
      OBVIOUS
    <3>2. p = o + (1 + m) /\ l = m + nleft /\ nleft \in 1 .. 255
      BY <2>3, <2>4, <1>2
    <3>3. o \in Nat /\ m \in Nat
      BY <1>1
    <3>4. p < o + 1 + l
      BY <3>1, <3>2, <3>3
    <3> QED BY <3>4, <2>2
  <2>5. CASE ~InBody(c)
    <3>1. p = o + 0
      BY <2>5, <1>2
    <3> QED BY <3>1, <2>2, <1>1
  <2> QED BY <2>4, <2>5
<1>4. j + 1 = Len(passed[c]) + 2
  BY <1>1
<1>5. o <= p
  <2> HIDE DEF o, m, p
  <2>1. \A x, y \in Nat : x <= x + (1 + y) /\ x <= x + 0
    OBVIOUS
  <2> QED BY <2>1, <1>1, <1>2
<1> QED BY <1>3, <1>4, <1>5

(***************************************************************************)
(* A stream that ended and was read to its end has been passed on up to    *)
(* its last whole request (socket_server.c:324-331, 348).                  *)
(***************************************************************************)
LEMMA ReadToEnd ==
    ASSUME IInv, NEW c \in Clients, status[c] = "fin", stream[c] = <<>>
    PROVE  /\ unsent[c] = <<>> => passed[c] = sent[c]
           /\ unsent[c] # <<>> => passed[c] = S!Front(sent[c])
<1> DEFINE L == Len(sent[c])
           j == Len(passed[c]) + 1
           u == Len(unsent[c])
<1>1. /\ sent[c] \in Seq(Bodies) /\ passed[c] \in Seq(Seq(Byte)) /\ L \in Nat
      /\ Len(passed[c]) \in 0 .. L /\ unsent[c] \in Seq(Byte) /\ u \in Nat
      /\ Len(stream[c]) = 0 /\ j - 1 = Len(passed[c]) /\ j \in 1 .. L + 1
  <2>1. /\ sent[c] \in Seq(Bodies) /\ passed[c] \in Seq(Seq(Byte)) /\ L \in Nat
        /\ Len(passed[c]) \in 0 .. L /\ unsent[c] \in Seq(Byte) /\ u \in Nat
    BY Unread
  <2> QED BY <2>1
<1>2. sent[c] \in Seq(Seq(Byte))
  <2>1. Bodies \subseteq Seq(Byte)
    BY BodiesAssumption DEF Byte
  <2> QED BY <2>1, <1>1
<1>3. \A i \in 1 .. Len(passed[c]) : passed[c][i] = sent[c][i]
  BY DEF IInv, PassedAsSent
<1>4. PICK off \in Offsets(sent[c]) :
         /\ Frames(off, sent[c])
         /\ Remains(off, sent[c], Position(c, off), stream[c] \o unsent[c])
  BY DEF IInv, Aligned
<1> DEFINE p == Position(c, off)
           e == off[L + 1]
<1>5. p \in Nat /\ e \in Nat /\ p + u = e
  <2>1. p \in Nat /\ e \in Nat /\ p + Len(stream[c]) + u = e
    BY <1>4, Located
  <2> HIDE DEF p, e, u
  <2> QED BY <2>1, <1>1
<1>6. off[j] <= p /\ (j <= L => p < off[j + 1])
  <2>1. off[j] <= p /\ (Len(passed[c]) < L => p < off[Len(passed[c]) + 2])
    BY <1>4, Between
  <2>2. j + 1 = Len(passed[c]) + 2 /\ (j <= L => Len(passed[c]) < L)
    BY <1>1
  <2> QED BY <2>1, <2>2
<1>7. /\ \A i \in 1 .. L + 1 : off[i] \in Nat
      /\ \A i, k \in 1 .. L + 1 : i < k => off[i] < off[k]
      /\ \A i \in 1 .. L : off[i + 1] = off[i] + 1 + Len(sent[c][i])
  BY <1>1, <1>4 DEF Offsets, Frames
<1> HIDE DEF L, j, u, p, e
<1>8. ASSUME unsent[c] = <<>> PROVE passed[c] = sent[c]
  <2>1. p = e
    <3>1. u = 0
      BY <1>8 DEF u
    <3> QED BY <3>1, <1>5
  <2>2. ~(j <= L)
    <3>1. SUFFICES ASSUME j <= L PROVE FALSE
      OBVIOUS
    <3>2. j + 1 \in 1 .. L + 1 /\ L + 1 \in 1 .. L + 1 /\ (j + 1 = L + 1 \/ j + 1 < L + 1)
      BY <3>1, <1>1
    <3>3. off[j + 1] \in Nat /\ off[j + 1] <= e
      BY <3>2, <1>7 DEF e
    <3> QED BY <3>1, <3>3, <2>1, <1>5, <1>6
  <2>3. Len(passed[c]) = Len(sent[c])
    BY <2>2, <1>1 DEF L
  <2> QED BY <2>3, <1>1, <1>2, <1>3, SameSequence
<1>9. ASSUME unsent[c] # <<>> PROVE passed[c] = S!Front(sent[c])
  <2>1. u # 0 /\ u > 0
    BY <1>1, <1>9 DEF u
  <2>2. L # 0 /\ u <= 1 + Len(sent[c][L])
    BY <2>1, SMTT(30) DEF IInv, Ends, L, u
  <2>3. L \in 1 .. L /\ e = off[L] + 1 + Len(sent[c][L]) /\ off[L] \in Nat
        /\ Len(sent[c][L]) \in 0 .. 255
    <3>1. L \in 1 .. L
      BY <2>2, <1>1
    <3>2. Len(sent[c][L]) \in 0 .. 255
      BY <3>1, <1>1, RequestIs, SMTT(30) DEF L
    <3> QED BY <3>1, <3>2, <1>1, <1>7, SMTT(30) DEF e
  <2>4. off[L] <= p /\ p < e
    <3>1. \A x, y, z, k \in Nat : k <= 1 + z /\ k > 0 /\ y + k = x + 1 + z
                                    => x <= y /\ y < y + k
      OBVIOUS
    <3>2. /\ off[L] \in Nat /\ p \in Nat /\ u \in Nat /\ Len(sent[c][L]) \in Nat
          /\ u <= 1 + Len(sent[c][L]) /\ u > 0
      BY <2>1, <2>2, <2>3, <1>1, <1>5, SMTT(30)
    <3>3. p + u = off[L] + 1 + Len(sent[c][L])
      BY <2>3, <1>5
    <3>4. off[L] <= p /\ p < p + u
      BY <3>1, <3>2, <3>3, SMTT(30)
    <3> QED BY <3>4, <1>5
  <2>5. j # L + 1
    BY <2>4, <1>5, <1>6 DEF e
  <2>6. ~(j < L)
    <3>1. SUFFICES ASSUME j < L PROVE FALSE
      OBVIOUS
    <3>2. j + 1 \in 1 .. L + 1 /\ L \in 1 .. L + 1 /\ (j + 1 = L \/ j + 1 < L) /\ j <= L
      BY <3>1, <1>1
    <3>3. off[j + 1] \in Nat /\ off[j + 1] <= off[L]
      BY <3>2, <1>7
    <3> QED BY <3>2, <3>3, <2>3, <2>4, <1>5, <1>6, SMTT(30)
  <2>7. j = L /\ Len(passed[c]) = L - 1 /\ L - 1 \in 0 .. L
    BY <2>5, <2>6, <1>1
  <2> DEFINE front == SubSeq(sent[c], 1, L - 1)
  <2>8. /\ front \in Seq(Seq(Byte)) /\ Len(front) = L - 1
        /\ \A i \in 1 .. L - 1 : front[i] = sent[c][i]
    BY <2>7, <1>2, Beginning DEF L
  <2>9. front = S!Front(sent[c])
    BY DEF S!Front, L
  <2> HIDE DEF front
  <2>10. passed[c] = front
    <3>1. Len(passed[c]) = Len(front)
      BY <2>7, <2>8
    <3>2. \A i \in 1 .. Len(passed[c]) : passed[c][i] = front[i]
      BY <2>7, <2>8, <1>3
    <3>3. passed[c] \in Seq(Seq(Byte)) /\ front \in Seq(Seq(Byte))
      BY <2>8, <1>1
    <3> QED BY <3>1, <3>2, <3>3, SameSequence
  <2> QED BY <2>9, <2>10
<1> QED BY <1>8, <1>9

\* The invariant after a step, from what is known of each client.
LEMMA Rebuilt ==
    ASSUME Types', Reader', ReadBeforeClosed', \A c \in Clients : Kept(c)'
    PROVE  IInv'
BY DEF IInv, Kept

LEMMA EpollWaitKeeps == IInv /\ EpollWait => IInv'
<1> SUFFICES ASSUME IInv, EpollWait PROVE IInv'
  OBVIOUS
<1>1. /\ events' \subseteq {c \in Clients : Readable(c)} /\ pc = "loop"
      /\ UNCHANGED <<pc, cur, nleft, buf, passed, kernel, client>>
  BY DEF EpollWait
<1>2. Types'
  BY <1>1 DEF IInv, Types, kernel, client
<1>3. Reader'
  BY <1>1 DEF IInv, Reader, Readable, kernel
<1>4. ReadBeforeClosed'
  BY <1>1, ClosedAsBefore DEF IInv, kernel, client
<1>5. ASSUME NEW c \in Clients PROVE Kept(c)'
  BY <1>1, Untouched DEF IInv, Kept, InBody, kernel, client
<1> QED BY <1>2, <1>3, <1>4, <1>5, Rebuilt

LEMMA ReadEventKeeps ==
    ASSUME IInv, NEW c \in events, ReadEvent(c) PROVE IInv'
<1>0. c \in Clients
  BY DEF IInv, Types
<1>1. /\ events' = events \ {c} /\ pc = "loop" /\ pc' = "length" /\ nleft' = 1 /\ buf' = <<>>
      /\ cur' = c /\ UNCHANGED <<passed, kernel, client>>
  BY DEF ReadEvent, Readn
<1>2. Types'
  BY <1>0, <1>1 DEF IInv, Types, kernel, client, Byte
<1>3. Reader'
  BY <1>0, <1>1 DEF IInv, Reader, kernel
<1>4. ReadBeforeClosed'
  BY <1>1, ClosedAsBefore DEF IInv, kernel, client
<1>5. ASSUME NEW d \in Clients PROVE Kept(d)'
  <2>1. ~InBody(d) /\ ~InBody(d)'
    BY <1>1 DEF InBody
  <2> QED BY <2>1, <1>1, Untouched DEF IInv, Kept, kernel, client
<1> QED BY <1>2, <1>3, <1>4, <1>5, Rebuilt

LEMMA ReadKeeps == IInv /\ Read => IInv'
<1> SUFFICES ASSUME IInv, Read PROVE IInv'
  OBVIOUS
<1> PICK c \in Clients : c = cur /\ status[c] \in {"open", "fin"}
  BY Reading DEF Read
<1>0. pc \in {"length", "body"}
  BY DEF Read, IInv, Types
<1>1. /\ UNCHANGED <<events, cur, status, client>>
      /\ \A d \in Clients \ {c} : stream'[d] = stream[d]
  BY DEF Read, IInv, Types
<1>2. /\ Kept(c)'
      /\ \/ pc' = "body" /\ nleft' \in Byte /\ nleft' # 0
         \/ pc' = "loop" /\ nleft' = 0
      /\ buf' \in Seq(Byte)
      /\ passed' \in [Clients -> Seq(Seq(Byte))]
      /\ \A d \in Clients \ {c} : passed'[d] = passed[d]
      /\ stream' \in [Clients -> Seq(Byte)]
  <2>1. CASE pc = "length"
    BY <2>1, ReadLength
  <2>2. CASE pc = "body"
    BY <2>2, ReadBody
  <2> QED BY <2>1, <2>2, <1>0
<1>3. Types'
  BY <1>1, <1>2 DEF IInv, Types, client, Byte
<1>4. Reader'
  BY <1>0, <1>1, <1>2 DEF IInv, Reader
<1>5. ReadBeforeClosed'
  BY <1>1, <1>2, ClosedAsBefore DEF IInv, client
<1>6. ASSUME NEW d \in Clients, d # c PROVE Kept(d)'
  <2>1. ~InBody(d) /\ ~InBody(d)'
    BY <1>1, <1>6 DEF InBody
  <2> QED BY <2>1, <1>1, <1>2, <1>6, Untouched DEF IInv, Kept, client
<1> QED BY <1>2, <1>3, <1>4, <1>5, <1>6, Rebuilt

LEMMA ReadEndKeeps == IInv /\ ReadEnd => IInv'
<1> SUFFICES ASSUME IInv, ReadEnd PROVE IInv'
  OBVIOUS
<1> PICK c \in Clients : c = cur
  BY DEF ReadEnd, IInv, Reader
<1>1. /\ status[c] = "reset" \/ (status[c] = "fin" /\ stream[c] = <<>>)
      /\ status' = [status EXCEPT ![c] = "closed"]
      /\ stream' = [stream EXCEPT ![c] = <<>>]
      /\ pc' = "loop" /\ nleft' = 0 /\ buf' = <<>>
      /\ UNCHANGED <<events, cur, passed, client>> /\ c \notin events
  BY DEF ReadEnd, Readn, IInv, Reader
<1>2. /\ status'[c] = "closed"
      /\ \A d \in Clients \ {c} : status'[d] = status[d] /\ stream'[d] = stream[d]
  BY <1>1 DEF IInv, Types
<1>3. Types'
  BY <1>1 DEF IInv, Types, client, Byte
<1>4. Reader'
  BY <1>1, <1>2, <1>3 DEF IInv, Reader, Types
<1>5. ReadBeforeClosed'
  <2> SUFFICES ASSUME NEW d \in Clients, status'[d] = "closed"
               PROVE  /\ ended[d] = "whole" => passed[d] = sent[d]
                      /\ ended[d] = "half" => passed[d] = S!Front(sent[d])
    BY <1>1 DEF ReadBeforeClosed, client, S!Front
  <2>1. CASE d # c
    BY <2>1, <1>2 DEF IInv, ReadBeforeClosed
  <2>2. CASE d = c /\ status[c] = "reset"
    BY <2>2 DEF IInv, Ends
  <2>3. CASE d = c /\ status[c] = "fin"
    <3>1. ended[c] = IF unsent[c] = <<>> THEN "whole" ELSE "half"
      BY <2>3 DEF IInv, Ends
    <3> QED BY <2>3, <3>1, <1>1, ReadToEnd
  <2> QED BY <2>1, <2>2, <2>3, <1>1
<1>6. ASSUME NEW d \in Clients, d # c PROVE Kept(d)'
  <2>1. ~InBody(d) /\ ~InBody(d)'
    BY <1>1, <1>6 DEF InBody
  <2> QED BY <2>1, <1>1, <1>2, <1>6, Untouched DEF IInv, Kept, client
<1>7. Kept(c)'
  <2>1. Ends(c)
    BY DEF IInv
  <2>2. Ends(c)'
    BY <2>1, <1>1, <1>2 DEF Ends, client
  <2>3. PassedAsSent(c)'
    BY <1>1 DEF IInv, PassedAsSent, client
  <2>4. Aligned(c)'
    BY <1>2 DEF Aligned
  <2> QED BY <2>2, <2>3, <2>4 DEF Kept
<1> QED BY <1>3, <1>4, <1>5, <1>6, <1>7, Rebuilt

LEMMA BeginKeeps ==
    ASSUME IInv, NEW c \in Clients, NEW b \in Bodies, Begin(c, b) PROVE IInv'
<1> DEFINE f == <<Len(b)>> \o b
<1>1. /\ status[c] = "open" /\ unsent[c] = <<>>
      /\ unsent' = [unsent EXCEPT ![c] = f]
      /\ sent' = [sent EXCEPT ![c] = Append(@, b)]
      /\ UNCHANGED <<netio, kernel, ended>>
  BY DEF Begin
<1>2. /\ f \in Seq(Byte) /\ Len(f) = 1 + Len(b) /\ Len(b) \in 0 .. 255
  BY FrameIs
<1> HIDE DEF f
<1>3. /\ unsent'[c] = f /\ sent'[c] = Append(sent[c], b)
      /\ \A d \in Clients \ {c} : unsent'[d] = unsent[d] /\ sent'[d] = sent[d]
  BY <1>1 DEF IInv, Types
<1>4. /\ stream[c] \in Seq(Byte) /\ sent[c] \in Seq(Bodies) /\ passed[c] \in Seq(Seq(Byte))
      /\ Len(passed[c]) \in 0 .. Len(sent[c]) /\ Len(sent[c]) \in Nat
      /\ stream[c] \o unsent[c] \in Seq(Byte)
  BY Unread
<1>5. /\ Len(sent'[c]) = Len(sent[c]) + 1 /\ sent'[c][Len(sent[c]) + 1] = b
      /\ \A i \in 1 .. Len(sent[c]) : sent'[c][i] = sent[c][i]
      /\ sent'[c] \in Seq(Bodies)
  BY <1>3, <1>4, SMTT(30)
<1>6. Types'
  BY <1>1, <1>2, <1>5 DEF IInv, Types, netio, kernel
<1>7. Reader'
  BY <1>1 DEF IInv, Reader, netio, kernel
<1>8. ReadBeforeClosed'
  BY <1>1, <1>3, ClosedAsBefore DEF IInv, netio, kernel
<1>9. ASSUME NEW d \in Clients, d # c PROVE Kept(d)'
  BY <1>1, <1>3, <1>9, Untouched DEF IInv, Kept, InBody, netio, kernel
<1>10. Kept(c)'
  <2>1. Ends(c)'
    <3>1. Ends(c)
      BY SMTT(30) DEF IInv
    <3>2. Len(unsent'[c]) <= 1 + Len(sent'[c][Len(sent'[c])]) /\ Len(sent'[c]) # 0
      BY <1>2, <1>3, <1>4, <1>5, SMTT(30)
    <3>3. status'[c] = "open" /\ ended'[c] = "no"
      BY <3>1, <1>1 DEF Ends, kernel
    <3> QED BY <3>2, <3>3 DEF Ends
  <2>2. PassedAsSent(c)'
    <3>1. PassedAsSent(c)
      BY DEF IInv
    <3> QED BY <3>1, <1>1, <1>4, <1>5 DEF PassedAsSent, netio
  <2>3. InBody(c)' => BodyBegun(c)'
    <3>1. InBody(c)' => BodyBegun(c)
      BY <1>1 DEF IInv, Aligned, InBody, netio
    <3>2. BodyBegun(c) => Body(c)' = Body(c)
      BY <1>1, <1>4, <1>5 DEF BodyBegun, Body, netio
    <3> QED BY <3>1, <3>2, <1>1, <1>4, <1>5 DEF BodyBegun, netio
  <2>4. PICK off \in Offsets(sent[c]) :
           /\ Frames(off, sent[c])
           /\ Remains(off, sent[c], Position(c, off), stream[c] \o unsent[c])
    BY <1>1 DEF IInv, Aligned
  <2>5. Position(c, off) \in Nat /\ Len(passed[c]) + 1 \in 1 .. Len(sent[c]) + 1
    <3>1. Position(c, off) \in Nat
      BY <2>4, <1>1, <1>4, Located
    <3>2. \A n, m \in Nat : n \in 0 .. m => n + 1 \in 1 .. m + 1
      OBVIOUS
    <3>3. Len(passed[c]) \in Nat
      BY <1>4
    <3> QED BY <3>1, <3>2, <3>3, <1>4
  <2>6. PICK more \in Offsets(Append(sent[c], b)) :
           /\ Frames(more, Append(sent[c], b))
           /\ Remains(more, Append(sent[c], b), Position(c, off),
                      (stream[c] \o unsent[c]) \o f)
           /\ \A i \in 1 .. Len(sent[c]) + 1 : more[i] = off[i]
    BY <2>4, <2>5, <1>4, Added DEF f
  <2>7. (stream[c] \o unsent[c]) \o f = stream'[c] \o unsent'[c]
    <3>1. stream[c] \o unsent[c] = stream[c]
      BY <1>1, <1>4, ConcatEmptySeq
    <3> QED BY <3>1, <1>1, <1>3 DEF kernel
  <2>8. Position(c, more)' = Position(c, off)
    BY <2>5, <2>6, <1>1 DEF Position, InBody, netio
  <2>9. Aligned(c)'
    BY <2>3, <2>6, <2>7, <2>8, <1>3 DEF Aligned
  <2> QED BY <2>1, <2>2, <2>9 DEF Kept
<1> QED BY <1>6, <1>7, <1>8, <1>9, <1>10, Rebuilt

LEMMA DeliverKeeps ==
    ASSUME IInv, NEW c \in Clients, NEW n \in 1 .. Len(unsent[c]), Deliver(c, n)
    PROVE  IInv'
<1> DEFINE a == SubSeq(unsent[c], 1, n)
           r == SubSeq(unsent[c], n + 1, Len(unsent[c]))
<1>1. /\ status[c] = "open"
      /\ stream' = [stream EXCEPT ![c] = @ \o a]
      /\ unsent' = [unsent EXCEPT ![c] = r]
      /\ UNCHANGED <<netio, status, sent, ended>>
  BY DEF Deliver
<1>2. /\ stream[c] \in Seq(Byte) /\ unsent[c] \in Seq(Byte) /\ Len(unsent[c]) \in Nat
      /\ n \in 0 .. Len(unsent[c]) /\ n \in Nat
  <2>1. stream[c] \in Seq(Byte) /\ unsent[c] \in Seq(Byte) /\ Len(unsent[c]) \in Nat
    BY Unread
  <2> QED BY <2>1
<1>3. /\ a \in Seq(Byte) /\ r \in Seq(Byte) /\ Len(r) = Len(unsent[c]) - n
      /\ (stream[c] \o a) \o r = stream[c] \o unsent[c]
  BY <1>2, Pieces, Moved
<1> HIDE DEF a, r
<1>4. stream[c] \o a \in Seq(Byte)
  BY <1>2, <1>3
<1>5. /\ stream'[c] = stream[c] \o a /\ unsent'[c] = r
      /\ \A d \in Clients \ {c} : unsent'[d] = unsent[d] /\ stream'[d] = stream[d]
  BY <1>1 DEF IInv, Types
<1>6. Types'
  BY <1>1, <1>3, <1>4 DEF IInv, Types, netio
<1>7. Reader'
  BY <1>1 DEF IInv, Reader, netio
<1>8. ReadBeforeClosed'
  BY <1>1, ClosedAsBefore DEF IInv, netio
<1>9. ASSUME NEW d \in Clients, d # c PROVE Kept(d)'
  BY <1>1, <1>5, <1>9, Untouched DEF IInv, Kept, InBody, netio
<1>10. Kept(c)'
  <2>1. Ends(c)'
    <3>1. Ends(c) /\ sent[c] \in Seq(Bodies)
      BY Unread DEF IInv
    <3>2. Len(sent[c]) # 0 => Len(sent[c][Len(sent[c])]) \in Nat
      <4>1. Len(sent[c]) # 0 => Len(sent[c]) \in 1 .. Len(sent[c])
        BY <3>1
      <4> QED BY <4>1, <3>1, RequestIs, SMTT(30)
    <3>3. Len(sent[c]) # 0 => Len(unsent'[c]) <= 1 + Len(sent[c][Len(sent[c])])
      BY <3>1, <3>2, <1>2, <1>3, <1>5, SMTT(30) DEF Ends
    <3>4. Len(sent[c]) # 0
      BY <3>1, <1>2 DEF Ends
    <3> QED BY <3>1, <3>3, <3>4, <1>1 DEF Ends
  <2>2. PassedAsSent(c)'
    BY <1>1 DEF IInv, PassedAsSent, netio
  <2>3. InBody(c)' => BodyBegun(c)'
    BY <1>1 DEF IInv, Aligned, InBody, BodyBegun, Body, netio
  <2>4. \A off : Position(c, off)' = Position(c, off)
    BY <1>1 DEF Position, InBody, netio
  <2>5. stream'[c] \o unsent'[c] = stream[c] \o unsent[c]
    BY <1>3, <1>5
  <2>6. Aligned(c)'
    BY <2>3, <2>4, <2>5, <1>1 DEF IInv, Aligned
  <2> QED BY <2>1, <2>2, <2>6 DEF Kept
<1> QED BY <1>6, <1>7, <1>8, <1>9, <1>10, Rebuilt

LEMMA EndKeeps ==
    ASSUME IInv, NEW c \in Clients, End(c) PROVE IInv'
<1>1. /\ status[c] = "open" /\ status' = [status EXCEPT ![c] = "fin"]
      /\ ended' = [ended EXCEPT ![c] = IF unsent[c] = <<>> THEN "whole" ELSE "half"]
      /\ UNCHANGED <<netio, stream, unsent, sent>>
  BY DEF End
<1>2. /\ status'[c] = "fin"
      /\ ended'[c] = IF unsent[c] = <<>> THEN "whole" ELSE "half"
      /\ \A d \in Clients \ {c} : status'[d] = status[d] /\ ended'[d] = ended[d]
  BY <1>1 DEF IInv, Types
<1>3. Types'
  BY <1>1 DEF IInv, Types, netio
<1>4. Reader'
  BY <1>1, <1>2 DEF IInv, Reader, Types, netio
<1>5. ReadBeforeClosed'
  BY <1>1, <1>2, ClosedAsBefore DEF IInv, netio
<1>6. ASSUME NEW d \in Clients, d # c PROVE Kept(d)'
  BY <1>1, <1>2, <1>6, Untouched DEF IInv, Kept, InBody, netio
<1>7. Kept(c)'
  <2>1. Ends(c)'
    BY <1>1, <1>2 DEF IInv, Ends
  <2>2. PassedAsSent(c)'
    BY <1>1 DEF IInv, PassedAsSent, netio
  <2>3. InBody(c)' => BodyBegun(c)'
    BY <1>1 DEF IInv, Aligned, InBody, BodyBegun, Body, netio
  <2>4. \A off : Position(c, off)' = Position(c, off)
    BY <1>1 DEF Position, InBody, netio
  <2>5. Aligned(c)'
    BY <2>3, <2>4, <1>1 DEF IInv, Aligned
  <2> QED BY <2>1, <2>2, <2>5 DEF Kept
<1> QED BY <1>3, <1>4, <1>5, <1>6, <1>7, Rebuilt

LEMMA ResetKeeps ==
    ASSUME IInv, NEW c \in Clients, Reset(c) PROVE IInv'
<1>1. /\ status[c] \in {"open", "fin"} /\ status' = [status EXCEPT ![c] = "reset"]
      /\ stream' = [stream EXCEPT ![c] = <<>>]
      /\ ended' = [ended EXCEPT ![c] = "reset"]
      /\ UNCHANGED <<netio, unsent, sent>>
  BY DEF Reset
<1>2. /\ status'[c] = "reset" /\ ended'[c] = "reset"
      /\ \A d \in Clients \ {c} :
            status'[d] = status[d] /\ ended'[d] = ended[d] /\ stream'[d] = stream[d]
  BY <1>1 DEF IInv, Types
<1>3. Types'
  BY <1>1 DEF IInv, Types, netio
<1>4. Reader'
  BY <1>1, <1>2 DEF IInv, Reader, Types, netio
<1>5. ReadBeforeClosed'
  BY <1>1, <1>2, ClosedAsBefore DEF IInv, netio
<1>6. ASSUME NEW d \in Clients, d # c PROVE Kept(d)'
  BY <1>1, <1>2, <1>6, Untouched DEF IInv, Kept, InBody, netio
<1>7. Kept(c)'
  <2>1. Ends(c)'
    BY <1>1, <1>2 DEF IInv, Ends
  <2>2. PassedAsSent(c)'
    BY <1>1 DEF IInv, PassedAsSent, netio
  <2>3. Aligned(c)'
    BY <1>2 DEF Aligned
  <2> QED BY <2>1, <2>2, <2>3 DEF Kept
<1> QED BY <1>3, <1>4, <1>5, <1>6, <1>7, Rebuilt

LEMMA InitialState == Init => IInv
<1> SUFFICES ASSUME Init PROVE IInv
  OBVIOUS
<1>1. Types
  BY DEF Init, Types, Byte
<1>2. Reader /\ ReadBeforeClosed
  BY DEF Init, Reader, ReadBeforeClosed
<1>3. ASSUME NEW c \in Clients PROVE Ends(c) /\ PassedAsSent(c) /\ Aligned(c)
  <2>1. Ends(c) /\ PassedAsSent(c) /\ ~InBody(c)
    BY <1>3 DEF Init, Ends, PassedAsSent, InBody
  <2> DEFINE off == [i \in 1 .. 1 |-> 0]
  <2>2. Len(sent[c]) = 0 /\ Len(passed[c]) = 0 /\ stream[c] \o unsent[c] = <<>>
    BY <1>3 DEF Init
  <2>3. off \in Offsets(sent[c])
    BY <2>2 DEF Offsets
  <2>4. off[1] = 0
    OBVIOUS
  <2> HIDE DEF off
  <2>5. Frames(off, sent[c])
    BY <2>2 DEF Frames
  <2>6. Position(c, off) = 0
    BY <2>1, <2>2, <2>4 DEF Position
  <2>7. Remains(off, sent[c], 0, <<>>)
    BY <2>2, <2>4 DEF Remains
  <2> QED BY <2>1, <2>2, <2>3, <2>5, <2>6, <2>7 DEF Aligned
<1> QED BY <1>1, <1>2, <1>3 DEF IInv

LEMMA Step == IInv /\ [Next]_vars => IInv'
<1> SUFFICES ASSUME IInv, [Next]_vars PROVE IInv'
  OBVIOUS
<1>1. CASE NetIo
  BY <1>1, EpollWaitKeeps, ReadEventKeeps, ReadKeeps, ReadEndKeeps DEF NetIo
<1>2. ASSUME NEW c \in Clients, Sends(c) PROVE IInv'
  BY <1>2, DeliverKeeps DEF Sends
<1>3. ASSUME NEW c \in Clients, End(c) \/ Reset(c) \/ \E b \in Bodies : Begin(c, b)
      PROVE IInv'
  BY <1>3, EndKeeps, ResetKeeps, BeginKeeps
<1>4. CASE UNCHANGED vars
  <2>1. UNCHANGED <<netio, kernel, client>>
    BY <1>4 DEF vars
  <2>2. Types'
    BY <2>1 DEF IInv, Types, netio, kernel, client
  <2>3. Reader'
    BY <2>1 DEF IInv, Reader, netio, kernel, client
  <2>4. ReadBeforeClosed'
    BY <2>1, ClosedAsBefore DEF IInv, netio, kernel, client
  <2>5. ASSUME NEW c \in Clients PROVE Kept(c)'
    BY <2>1, Untouched DEF IInv, Kept, InBody, netio, kernel, client
  <2> QED BY <2>2, <2>3, <2>4, <2>5, Rebuilt
<1> QED BY <1>1, <1>2, <1>3, <1>4 DEF Next

-----------------------------------------------------------------------------

(***************************************************************************)
(* The reader is always at a client, and wants bytes exactly in readn      *)
(* (socket_server.c:282-358).                                              *)
(***************************************************************************)
THEOREM TypeCorrect == Spec => []TypeOK
<1>1. IInv => TypeOK
  <2> SUFFICES ASSUME IInv PROVE TypeOK
    OBVIOUS
  <2>1. ASSUME NEW c \in Clients
        PROVE  /\ \A i \in DOMAIN passed[c] : passed[c][i] \in Seq(Byte)
               /\ \A i \in DOMAIN sent[c] : sent[c][i] \in Bodies
    <3>1. passed[c] \in Seq(Seq(Byte)) /\ sent[c] \in Seq(Bodies)
      BY <2>1, Unread
    <3> QED BY <3>1
  <2> QED BY <2>1 DEF IInv, Types, Reader, TypeOK
<1> QED BY <1>1, InitialState, Step, PTL DEF Spec

(***************************************************************************)
(* net_logic gets the requests each client sent, in order and each whole,  *)
(* in whatever pieces the network brings them, the empty ones included     *)
(* (socket_server.c:314-358).                                              *)
(***************************************************************************)
THEOREM RequestsArePassed == Spec => []RequestsAsSent
<1>1. IInv => RequestsAsSent
  <2> SUFFICES ASSUME IInv, NEW c \in Clients PROVE S!IsPrefix(passed[c], sent[c])
    BY DEF RequestsAsSent
  <2> DEFINE n == Len(passed[c])
             begun == SubSeq(sent[c], 1, n)
             whole == SubSeq(passed[c], 1, n)
  <2>1. /\ passed[c] \in Seq(Seq(Byte)) /\ sent[c] \in Seq(Bodies)
        /\ n \in 0 .. Len(sent[c]) /\ n \in 0 .. Len(passed[c]) /\ n <= Len(sent[c])
    <3>1. /\ passed[c] \in Seq(Seq(Byte)) /\ sent[c] \in Seq(Bodies)
          /\ n \in 0 .. Len(sent[c]) /\ Len(sent[c]) \in Nat
      BY Unread
    <3> QED BY <3>1
  <2>2. sent[c] \in Seq(Seq(Byte))
    <3>1. Bodies \subseteq Seq(Byte)
      BY BodiesAssumption DEF Byte
    <3> QED BY <3>1, <2>1
  <2>3. /\ begun \in Seq(Seq(Byte)) /\ Len(begun) = n
        /\ \A i \in 1 .. n : begun[i] = sent[c][i]
    BY <2>1, <2>2, Beginning
  <2>4. /\ whole \in Seq(Seq(Byte)) /\ Len(whole) = n
        /\ \A i \in 1 .. n : whole[i] = passed[c][i]
    BY <2>1, Beginning
  <2>5. \A i \in 1 .. n : passed[c][i] = sent[c][i]
    BY DEF IInv, PassedAsSent
  <2> HIDE DEF begun, whole, n
  <2>6. whole = begun
    <3>1. Len(whole) = Len(begun) /\ \A i \in 1 .. Len(whole) : whole[i] = begun[i]
      BY <2>3, <2>4, <2>5
    <3> QED BY <3>1, <2>3, <2>4, SameSequence
  <2> QED BY <2>1, <2>6 DEF S!IsPrefix, whole, begun, n
<1> QED BY <1>1, InitialState, Step, PTL DEF Spec

(***************************************************************************)
(* No connection is closed before every whole request in front of the end  *)
(* of its stream has been passed on, and half a request is not             *)
(* (socket_server.c:324-331, 348).                                         *)
(***************************************************************************)
THEOREM AllPassedBeforeClose == Spec => []ReadBeforeClosed
<1>1. IInv => ReadBeforeClosed
  BY DEF IInv
<1> QED BY <1>1, InitialState, Step, PTL DEF Spec
=============================================================================
