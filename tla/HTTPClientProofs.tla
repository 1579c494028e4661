-------------------------- MODULE HTTPClientProofs -------------------------
(***************************************************************************)
(* HTTPClient for every set of answers, all sizes of buffer and response,  *)
(* and any number of requests, redirects and faults.                       *)
(***************************************************************************)
EXTENDS HTTPClient, SequenceTheorems, WellFoundedInduction, TLAPS

-----------------------------------------------------------------------------
(* Sequences                                                                 *)

\* A set of numbers has a least one.
LEMMA LeastNumber == \A T \in SUBSET Nat : T # {} => \E x \in T : \A y \in T : x <= y
  <1> DEFINE R == {ij \in Nat \X Nat : ij[1] < ij[2]}
  <1>1. IsWellFoundedOn(R, Nat)
    BY NatLessThanWellFounded DEF OpToRel
  <1> SUFFICES ASSUME NEW T \in SUBSET Nat, T # {} PROVE \E x \in T : \A y \in T : x <= y
    OBVIOUS
  <1>2. \E x \in T : \A y \in T : ~(<<y, x>> \in R)
    BY <1>1, WFMin, Zenon
  <1>3. \A x, y \in Nat : y < x => <<y, x>> \in R
    OBVIOUS
  <1> HIDE DEF R
  <1>4. \A x, y \in T : ~(<<y, x>> \in R) => x <= y
    <2> SUFFICES ASSUME NEW x \in T, NEW y \in T, ~(<<y, x>> \in R) PROVE x <= y
      OBVIOUS
    <2>1. x \in Nat /\ y \in Nat
      OBVIOUS
    <2>2. ~(y < x)
      BY <1>3, <2>1
    <2> QED
      BY ONLY <2>1, <2>2
  <1> QED
    BY <1>2, <1>4, Zenon

\* Hence Min is the least element of a set of numbers.
LEMMA MinOfSet ==
  ASSUME NEW S \in SUBSET Nat, S # {}
  PROVE  Min(S) \in S /\ \A x \in S : Min(S) <= x
  <1>1. PICK m \in S : \A x \in S : m <= x
    BY LeastNumber, Zenon
  <1> QED
    BY <1>1, Zenon DEF Min

\* A sequence in two parts.
LEMMA SplitSeq ==
  ASSUME NEW S, NEW s \in Seq(S), NEW n \in 0 .. Len(s)
  PROVE  /\ SubSeq(s, 1, n) \in Seq(S) /\ Len(SubSeq(s, 1, n)) = n
         /\ SubSeq(s, n + 1, Len(s)) \in Seq(S) /\ Len(SubSeq(s, n + 1, Len(s))) = Len(s) - n
         /\ SubSeq(s, 1, n) \o SubSeq(s, n + 1, Len(s)) = s
         /\ \A i \in 1 .. (Len(s) - n) : SubSeq(s, n + 1, Len(s))[i] = s[n + i]
  <1>1. Len(s) \in Nat /\ n \in Nat /\ n <= Len(s)
    OBVIOUS
  <1>2. \A i \in 1 .. Len(s) : s[i] \in S
    OBVIOUS
  <1>3. /\ SubSeq(s, 1, n) \in Seq(S)
        /\ Len(SubSeq(s, 1, n)) = IF 1 <= n THEN n - 1 + 1 ELSE 0
    BY <1>1, <1>2, SubSeqProperties
  <1>4. /\ SubSeq(s, n + 1, Len(s)) \in Seq(S)
        /\ Len(SubSeq(s, n + 1, Len(s))) = IF n + 1 <= Len(s) THEN Len(s) - (n + 1) + 1 ELSE 0
        /\ \A i \in 1 .. (Len(s) - (n + 1) + 1) : SubSeq(s, n + 1, Len(s))[i] = s[n + 1 + i - 1]
    <2>1. \A i \in (n + 1) .. Len(s) : s[i] \in S
      BY <1>1, <1>2
    <2> QED
      BY <1>1, <2>1, SubSeqProperties
  <1>5. SubSeq(s, 1, n) \o SubSeq(s, n + 1, Len(s)) = SubSeq(s, 1, Len(s))
    <2>1. 1 \in 1 .. (Len(s) + 1) /\ n \in (1 - 1) .. Len(s) /\ Len(s) \in n .. Len(s)
      BY <1>1
    <2> QED
      BY <2>1, ConcatAdjacentSubSeq
  <1>6. \A i \in 1 .. (Len(s) - n) : i \in 1 .. (Len(s) - (n + 1) + 1) /\ n + 1 + i - 1 = n + i
    BY <1>1
  <1>7. Len(SubSeq(s, 1, n)) = n
    BY <1>1, <1>3
  <1>8. Len(SubSeq(s, n + 1, Len(s))) = Len(s) - n
    BY <1>1, <1>4
  <1>9. \A i \in 1 .. (Len(s) - n) : SubSeq(s, n + 1, Len(s))[i] = s[n + i]
    BY <1>4, <1>6
  <1> QED
    BY <1>3, <1>4, <1>5, <1>7, <1>8, <1>9, SubSeqFull

\* The first element of t moves to the end of s.
LEMMA MoveOne ==
  ASSUME NEW S, NEW s \in Seq(S), NEW t \in Seq(S), t # <<>>
  PROVE  /\ Append(s, Head(t)) \in Seq(S) /\ Tail(t) \in Seq(S)
         /\ Append(s, Head(t)) \o Tail(t) = s \o t
  <1>1. Head(t) \in S /\ Tail(t) \in Seq(S)
    BY HeadTailProperties
  <1>2. Append(s, Head(t)) = s \o <<Head(t)>> /\ <<Head(t)>> \in Seq(S)
    BY <1>1, AppendIsConcat
  <1>3. <<Head(t)>> \o Tail(t) = t
    OBVIOUS
  <1>4. (s \o <<Head(t)>>) \o Tail(t) = s \o (<<Head(t)>> \o Tail(t))
    BY <1>1, <1>2, ConcatAssociative
  <1> QED
    BY <1>1, <1>2, <1>3, <1>4

-----------------------------------------------------------------------------
(* Answers                                                                   *)

Replies == Answer \cup {BadRequest}

\* An answer is a record, and its status is that of a final answer.
LEMMA ReplyType ==
  ASSUME NEW a \in Replies
  PROVE  /\ a.frame \in Frame /\ a.body \in Seq({"body", "zero", "end"}) /\ a.interim \in BOOLEAN
         /\ a.status \in {"200", "204", "302", "304", "400"}
         /\ a # Silent
  <1>1. a \in [status : {"200", "204", "302", "304", "400"}, frame : Frame,
               zero : BOOLEAN, body : Seq({"body", "zero", "end"}), interim : BOOLEAN]
    <2>1. 0 \in Frame /\ <<>> \in Seq({"body", "zero", "end"})
      BY EmptySeq DEF Frame
    <2>2. BadRequest \in [status : {"200", "204", "302", "304", "400"}, frame : Frame,
                          zero : BOOLEAN, body : Seq({"body", "zero", "end"}), interim : BOOLEAN]
      BY <2>1 DEF BadRequest
    <2> QED
      BY <2>2, AnswerAssumption DEF AnswerAssumption, Replies
  <1>2. Silent.status = "none"
    BY DEF Silent
  <1> QED
    BY <1>1, <1>2

\* How many parts there are behind the body.
Tails(a) == IF a.frame = Chunked THEN 2 ELSE 0

\* Three sequences in one.
LEMMA ThreeParts ==
  ASSUME NEW S, NEW h \in Seq(S), NEW b \in Seq(S), NEW t \in Seq(S)
  PROVE  /\ h \o b \o t \in Seq(S) /\ Len(h \o b \o t) = Len(h) + Len(b) + Len(t)
         /\ \A i \in 1 .. Len(h) : (h \o b \o t)[i] = h[i]
         /\ \A i \in 1 .. Len(b) : (h \o b \o t)[Len(h) + i] = b[i]
         /\ \A i \in 1 .. Len(t) : (h \o b \o t)[Len(h) + Len(b) + i] = t[i]
  <1>1. Len(h) \in Nat /\ Len(b) \in Nat /\ Len(t) \in Nat
    OBVIOUS
  <1>2. PICK g : g = h \o b
    OBVIOUS
  <1>3. g \in Seq(S) /\ Len(g) = Len(h) + Len(b)
    BY <1>2, ConcatProperties
  <1>4. \A i \in 1 .. (Len(h) + Len(b)) : g[i] = IF i <= Len(h) THEN h[i] ELSE b[i - Len(h)]
    BY <1>2, ConcatProperties
  <1>5. PICK q : q = g \o t
    OBVIOUS
  <1>6. q \in Seq(S) /\ Len(q) = Len(g) + Len(t)
    BY <1>3, <1>5, ConcatProperties
  <1>7. \A i \in 1 .. (Len(g) + Len(t)) : q[i] = IF i <= Len(g) THEN g[i] ELSE t[i - Len(g)]
    BY <1>3, <1>5, ConcatProperties
  <1>8. \A i \in 1 .. Len(h) : q[i] = h[i]
    <2> TAKE i \in 1 .. Len(h)
    <2>1. i \in 1 .. (Len(g) + Len(t)) /\ i <= Len(g) /\ i \in 1 .. (Len(h) + Len(b)) /\ i <= Len(h)
      BY <1>1, <1>3
    <2> QED
      BY <1>4, <1>7, <2>1
  <1>9. \A i \in 1 .. Len(b) : q[Len(h) + i] = b[i]
    <2> TAKE i \in 1 .. Len(b)
    <2>1. PICK k \in Nat : k = Len(h) + i
      BY <1>1
    <2>2. /\ k \in 1 .. (Len(g) + Len(t)) /\ k <= Len(g) /\ k \in 1 .. (Len(h) + Len(b))
          /\ ~(k <= Len(h)) /\ k - Len(h) = i
      BY <1>1, <1>3, <2>1
    <2>3. q[k] = b[i]
      BY <1>4, <1>7, <2>2
    <2> QED
      BY <2>1, <2>3
  <1>10. \A i \in 1 .. Len(t) : q[Len(h) + Len(b) + i] = t[i]
    <2> TAKE i \in 1 .. Len(t)
    <2>1. PICK k \in Nat : k = Len(h) + Len(b) + i
      BY <1>1
    <2>2. k \in 1 .. (Len(g) + Len(t)) /\ ~(k <= Len(g)) /\ k - Len(g) = i
      BY <1>1, <1>3, <2>1
    <2>3. q[k] = t[i]
      BY <1>7, <2>2
    <2> QED
      BY <2>1, <2>3
  <1>11. Len(q) = Len(h) + Len(b) + Len(t)
    BY <1>3, <1>6
  <1> QED
    BY <1>2, <1>5, <1>6, <1>8, <1>9, <1>10, <1>11

\* A final answer: its first part is the only "H", its third the only head.
LEMMA FinalParts ==
  ASSUME NEW a \in Replies, NEW n \in Request
  PROVE  /\ Final(a, n) \in Seq(Bytes) /\ Len(Final(a, n)) = 3 + Len(a.body) + Tails(a)
         /\ \A i \in 1 .. Len(Final(a, n)) : Final(a, n)[i].answer = a /\ Final(a, n)[i].of = n
         /\ Final(a, n)[1].part = "H" /\ Final(a, n)[2].part = "TTP" /\ Final(a, n)[3].part = "head"
         /\ \A i \in 4 .. Len(Final(a, n)) : Final(a, n)[i].part \in {"body", "zero", "end"}
         /\ a.frame = Chunked =>
               /\ Final(a, n)[Len(Final(a, n))].part = "end"
               /\ Final(a, n)[Len(Final(a, n)) - 1].part = "zero"
  <1> DEFINE h == <<"H", "TTP", "head">>
             b == a.body
             t == IF a.frame = Chunked THEN <<"zero", "end">> ELSE <<>>
             p == h \o b \o t
  <1>1. h \in Seq(Part) /\ Len(h) = 3 /\ h[1] = "H" /\ h[2] = "TTP" /\ h[3] = "head"
    BY DEF Part
  <1>2. PICK l \in Nat : l = Len(a.body)
    BY ReplyType, LenProperties
  <1>3. b \in Seq(Part) /\ Len(b) = l /\ \A i \in 1 .. l : b[i] \in {"body", "zero", "end"}
    <2>1. \A i \in 1 .. l : b[i] \in {"body", "zero", "end"}
      BY <1>2, ReplyType, ElementOfSeq
    <2>2. b \in Seq({"body", "zero", "end"})
      BY ReplyType
    <2> QED
      BY <1>2, <2>1, <2>2 DEF Part
  <1>4. /\ t \in Seq(Part) /\ Len(t) = Tails(a)
        /\ a.frame = Chunked => t[1] = "zero" /\ t[2] = "end"
        /\ \A i \in 1 .. Len(t) : t[i] \in {"body", "zero", "end"}
    <2>1. CASE a.frame = Chunked
      BY <2>1 DEF Part, Tails
    <2>2. CASE a.frame # Chunked
      BY <2>2, EmptySeq DEF Tails
    <2> QED
      BY <2>1, <2>2
  <1>5. Tails(a) \in {0, 2} /\ (Tails(a) = 2 <=> a.frame = Chunked)
    BY DEF Tails
  <1>6. PICK q : q = p
    OBVIOUS
  <1>7. q = h \o b \o t
    BY <1>6
  <1> HIDE DEF h, b, t, p
  <1>8. /\ q \in Seq(Part) /\ Len(q) = Len(h) + Len(b) + Len(t)
        /\ \A i \in 1 .. Len(h) : q[i] = h[i]
        /\ \A i \in 1 .. Len(b) : q[Len(h) + i] = b[i]
        /\ \A i \in 1 .. Len(t) : q[Len(h) + Len(b) + i] = t[i]
    <2>1. PICK x \in Seq(Part), y \in Seq(Part), z \in Seq(Part) : x = h /\ y = b /\ z = t
      BY <1>1, <1>3, <1>4
    <2>2. /\ x \o y \o z \in Seq(Part) /\ Len(x \o y \o z) = Len(x) + Len(y) + Len(z)
          /\ \A i \in 1 .. Len(x) : (x \o y \o z)[i] = x[i]
          /\ \A i \in 1 .. Len(y) : (x \o y \o z)[Len(x) + i] = y[i]
          /\ \A i \in 1 .. Len(z) : (x \o y \o z)[Len(x) + Len(y) + i] = z[i]
      BY ThreeParts, SMTT(30)
    <2> QED
      BY <1>7, <2>1, <2>2
  <1>9. PICK m \in Nat : m = Len(q) /\ m = 3 + l + Tails(a)
    BY <1>1, <1>3, <1>4, <1>5, <1>8
  <1>10. q[1] = "H" /\ q[2] = "TTP" /\ q[3] = "head"
    BY <1>1, <1>8
  <1>11. \A i \in 1 .. l : q[3 + i] = b[i]
    BY <1>1, <1>3, <1>8
  <1>12. \A i \in 1 .. Len(t) : q[3 + l + i] = t[i]
    BY <1>1, <1>3, <1>8
  <1>13. \A i \in 4 .. m : q[i] \in {"body", "zero", "end"}
    <2> SUFFICES ASSUME NEW i \in 4 .. m PROVE q[i] \in {"body", "zero", "end"}
      OBVIOUS
    <2>1. CASE i <= 3 + l
      <3>1. PICK k \in 1 .. l : i = 3 + k
        <4>1. i - 3 \in 1 .. l /\ i = 3 + (i - 3)
          BY <2>1
        <4> QED
          BY <4>1
      <3> QED
        BY <1>3, <1>11, <3>1
    <2>2. CASE ~(i <= 3 + l)
      <3>1. PICK k \in 1 .. Len(t) : i = 3 + l + k
        <4>1. i - (3 + l) \in 1 .. Tails(a) /\ i = 3 + l + (i - (3 + l))
          BY <1>5, <1>9, <2>2
        <4> QED
          BY <1>4, <4>1
      <3> QED
        BY <1>4, <1>12, <3>1
    <2> QED
      BY <2>1, <2>2
  <1>14. a.frame = Chunked => q[m] = "end" /\ q[m - 1] = "zero" /\ m - 1 \in 1 .. m
    <2> SUFFICES ASSUME a.frame = Chunked
                 PROVE  q[m] = "end" /\ q[m - 1] = "zero" /\ m - 1 \in 1 .. m
      OBVIOUS
    <2>1. Len(t) = 2 /\ m = 3 + l + 2 /\ m - 1 = 3 + l + 1 /\ m - 1 \in 1 .. m
      BY <1>4, <1>5, <1>9
    <2>2. q[3 + l + 1] = t[1] /\ q[3 + l + 2] = t[2]
      BY <1>12, <2>1
    <2> QED
      BY <1>4, <2>1, <2>2
  <1>15. PICK F : F = Final(a, n)
    OBVIOUS
  <1>16. F = [i \in 1 .. m |-> [of |-> n, part |-> q[i], answer |-> a]]
    <2>1. DOMAIN q = 1 .. m
      BY <1>8, <1>9, LenProperties
    <2>2. F = Parts(a, n, q)
      BY <1>6, <1>15 DEF Final, h, b, t, p
    <2> QED
      BY <2>1, <2>2 DEF Parts
  <1>17. F \in Seq(Bytes) /\ Len(F) = m
    <2>1. \A i \in 1 .. m : [of |-> n, part |-> q[i], answer |-> a] \in Bytes
      BY <1>8, <1>9 DEF Bytes, Replies
    <2> QED
      BY <1>16, <2>1
  <1>18. \A i \in 1 .. m : F[i].part = q[i] /\ F[i].answer = a /\ F[i].of = n
    BY <1>16
  <1>19. 1 \in 1 .. m /\ 2 \in 1 .. m /\ 3 \in 1 .. m /\ m \in 1 .. m
    BY <1>5, <1>9
  <1>20. \A i \in 4 .. m : i \in 1 .. m
    BY <1>9
  <1>21. a.frame = Chunked => F[m].part = "end" /\ F[m - 1].part = "zero"
    BY <1>14, <1>18, <1>19
  <1> QED
    BY <1>2, <1>9, <1>10, <1>13, <1>15, <1>17, <1>18, <1>19, <1>20, <1>21, SMTT(30)

\* An interim answer.
LEMMA InterimParts ==
  ASSUME NEW a \in Replies, NEW n \in Request
  PROVE  /\ Interim(a, n) \in Seq(Bytes)
         /\ ~a.interim => Interim(a, n) = <<>>
         /\ a.interim =>
               /\ Len(Interim(a, n)) = 3 /\ Interim(a, n)[3].part = "interim"
               /\ Interim(a, n)[1] = Final(a, n)[1] /\ Interim(a, n)[2] = Final(a, n)[2]
  <1>1. CASE ~a.interim
    BY <1>1, EmptySeq DEF Interim
  <1>2. CASE a.interim
    <2>1. PICK q : q = <<"H", "TTP", "interim">>
      OBVIOUS
    <2>2. DOMAIN q = 1 .. 3 /\ q[1] = "H" /\ q[2] = "TTP" /\ q[3] = "interim" /\ \A i \in 1 .. 3 : q[i] \in Part
      BY <2>1 DEF Part
    <2>3. PICK I : I = Interim(a, n)
      OBVIOUS
    <2>4. I = [i \in 1 .. 3 |-> [of |-> n, part |-> q[i], answer |-> a]]
      BY <1>2, <2>1, <2>2, <2>3 DEF Interim, Parts
    <2>5. I \in Seq(Bytes) /\ Len(I) = 3
      <3>1. \A i \in 1 .. 3 : [of |-> n, part |-> q[i], answer |-> a] \in Bytes
        BY <2>2 DEF Bytes, Replies
      <3> QED
        BY <2>4, <3>1
    <2>6. /\ I[1] = [of |-> n, part |-> "H", answer |-> a]
          /\ I[2] = [of |-> n, part |-> "TTP", answer |-> a]
          /\ I[3].part = "interim"
      BY <2>2, <2>4
    <2>7. /\ Final(a, n)[1] = [of |-> n, part |-> "H", answer |-> a]
          /\ Final(a, n)[2] = [of |-> n, part |-> "TTP", answer |-> a]
      <3>1. PICK F : F = Final(a, n)
        OBVIOUS
      <3>2. 1 \in 1 .. Len(F) /\ 2 \in 1 .. Len(F)
        <4>1. PICK l \in Nat : l = Len(a.body)
          BY ReplyType, LenProperties
        <4>2. PICK k \in {0, 2} : k = Tails(a)
          BY DEF Tails
        <4>3. Len(F) = 3 + l + k
          BY <3>1, <4>1, <4>2, FinalParts
        <4> QED
          BY <4>3
      <3>3. F[1] \in Bytes /\ F[2] \in Bytes
        BY <3>1, <3>2, FinalParts, ElementOfSeq
      <3>4. /\ F[1].of = n /\ F[1].part = "H" /\ F[1].answer = a
            /\ F[2].of = n /\ F[2].part = "TTP" /\ F[2].answer = a
        BY <3>1, <3>2, FinalParts
      <3>5. \A x \in Bytes : x = [of |-> x.of, part |-> x.part, answer |-> x.answer]
        BY DEF Bytes
      <3> QED
        BY <3>1, <3>3, <3>4, <3>5
    <2> QED
      BY <1>2, <2>3, <2>5, <2>6, <2>7
  <1> QED
    BY <1>1, <1>2, ReplyType

-----------------------------------------------------------------------------
(* Streams of parts                                                          *)

\* s does not begin like an answer; s is the beginning of w.
NoStart(s) == s = <<>> \/ s[1].part # "H"

Begins(s, w) == Len(s) <= Len(w) /\ \A i \in 1 .. Len(s) : s[i] = w[i]

\* What holds of a stream holds of its beginning.
LEMMA Shorter ==
  ASSUME NEW s \in Seq(Bytes), NEW t \in Seq(Bytes), NEW w \in Seq(Bytes)
  PROVE  /\ NoStart(s \o t) => NoStart(s)
         /\ Begins(s \o t, w) => Begins(s, w)
  <1>1. PICK u \in Seq(Bytes) : u = s \o t
    BY ConcatProperties
  <1>2. /\ Len(u) = Len(s) + Len(t) /\ Len(s) \in Nat /\ Len(t) \in Nat /\ Len(w) \in Nat
        /\ \A i \in 1 .. Len(s) : i \in 1 .. Len(u) /\ u[i] = s[i]
    BY <1>1
  <1>3. NoStart(u) => NoStart(s)
    <2> SUFFICES ASSUME NoStart(u), s # <<>> PROVE s[1].part # "H"
      BY DEF NoStart
    <2>1. Len(s) > 0
      BY EmptySeq
    <2>2. 1 \in 1 .. Len(s) /\ u # <<>>
      BY <1>2, <2>1
    <2> QED
      BY <1>2, <2>2 DEF NoStart
  <1>4. Begins(u, w) => Begins(s, w)
    BY <1>2 DEF Begins
  <1> QED
    BY <1>1, <1>3, <1>4

\* A stream that is the beginning of w, in two parts.
LEMMA Continues ==
  ASSUME NEW s \in Seq(Bytes), NEW t \in Seq(Bytes), NEW w \in Seq(Bytes), Begins(s \o t, w)
  PROVE  /\ Len(s) + Len(t) <= Len(w)
         /\ \A i \in 1 .. Len(s) : s[i] = w[i]
         /\ \A i \in 1 .. Len(t) : t[i] = w[Len(s) + i]
  <1>1. PICK u \in Seq(Bytes) : u = s \o t
    BY ConcatProperties
  <1>2. /\ Len(u) = Len(s) + Len(t) /\ Len(s) \in Nat /\ Len(t) \in Nat /\ Len(w) \in Nat
        /\ \A i \in 1 .. Len(s) : i \in 1 .. Len(u) /\ u[i] = s[i]
        /\ \A i \in 1 .. Len(t) : Len(s) + i \in 1 .. Len(u) /\ u[Len(s) + i] = t[i]
    BY <1>1
  <1> QED
    BY <1>1, <1>2 DEF Begins

\* Begins is IsPrefix.
LEMMA BeginsIsPrefix ==
  ASSUME NEW s \in Seq(Bytes), NEW w \in Seq(Bytes), Begins(s, w)
  PROVE  IsPrefix(s, w)
  <1>1. Len(s) \in Nat /\ Len(s) <= Len(w) /\ \A i \in 1 .. Len(s) : s[i] = w[i]
    BY DEF Begins
  <1>2. SubSeq(s, 1, Len(s)) = SubSeq(w, 1, Len(s))
    BY <1>1
  <1> QED
    BY <1>1, <1>2 DEF IsPrefix

\* FirstEmptyLine finds the first one.
LEMMA FirstEmptyLineFinds ==
  ASSUME NEW b \in Seq(Bytes)
  PROVE  /\ FirstEmptyLine(b) \in 0 .. Len(b)
         /\ FirstEmptyLine(b) = 0 => \A i \in 1 .. Len(b) : b[i].part \notin {"interim", "head"}
         /\ FirstEmptyLine(b) # 0 =>
               /\ b[FirstEmptyLine(b)].part \in {"interim", "head"}
               /\ \A i \in 1 .. Len(b) : i < FirstEmptyLine(b) => b[i].part \notin {"interim", "head"}
  <1> DEFINE I == {i \in 1 .. Len(b) : b[i].part \in {"interim", "head"}}
  <1>1. Len(b) \in Nat /\ I \in SUBSET Nat
    OBVIOUS
  <1>2. FirstEmptyLine(b) = IF I # {} THEN Min(I) ELSE 0
    BY DEF FirstEmptyLine, SelectInSeq
  <1>3. CASE I = {}
    BY <1>1, <1>2, <1>3
  <1>4. CASE I # {}
    <2>1. PICK m \in I : m = Min(I) /\ \A x \in I : m <= x
      BY <1>1, <1>4, MinOfSet
    <2>2. FirstEmptyLine(b) = m /\ m \in 1 .. Len(b) /\ b[m].part \in {"interim", "head"}
      BY <1>2, <1>4, <2>1
    <2>3. \A i \in 1 .. Len(b) : i < m => b[i].part \notin {"interim", "head"}
      BY <1>1, <2>1, <2>2
    <2> QED
      BY <1>1, <2>2, <2>3
  <1> QED
    BY <1>3, <1>4

\* The beginning of a final answer: its headers end with the third part.
LEMMA FinalBegins ==
  ASSUME NEW a \in Replies, NEW n \in Request, NEW b \in Seq(Bytes), Begins(b, Final(a, n))
  PROVE  /\ Len(b) < 3 => FirstEmptyLine(b) = 0
         /\ Len(b) >= 3 => /\ FirstEmptyLine(b) = 3 /\ b[3].part = "head" /\ b[3].answer = a
                          /\ StatusOf(b) = a.status
         /\ StatusOf(b) # "1xx"
         /\ Len(b) >= 1 => b[1].part = "H"
         /\ \A i \in 2 .. Len(b) : b[i].part # "H"
  <1>1. PICK F \in Seq(Bytes) : F = Final(a, n)
    BY FinalParts
  <1>2. PICK m \in Nat : m = Len(b)
    OBVIOUS
  <1>3. /\ m <= Len(F) /\ Len(F) \in Nat
        /\ \A i \in 1 .. m : b[i] = F[i]
    BY <1>1, <1>2 DEF Begins
  <1>4. /\ F[1].part = "H" /\ F[2].part = "TTP" /\ F[3].part = "head"
        /\ \A i \in 4 .. Len(F) : F[i].part \in {"body", "zero", "end"}
        /\ \A i \in 1 .. Len(F) : F[i].answer = a
    BY <1>1, FinalParts
  <1>5. \A i \in 1 .. m : /\ i = 1 => b[i].part = "H"
                          /\ i = 2 => b[i].part = "TTP"
                          /\ i = 3 => b[i].part = "head" /\ b[i].answer = a
                          /\ i > 3 => b[i].part \in {"body", "zero", "end"}
    BY <1>3, <1>4
  <1>6. PICK k \in Nat : k = FirstEmptyLine(b)
    BY <1>2, FirstEmptyLineFinds
  <1>7. /\ k \in 0 .. m
        /\ k = 0 => \A i \in 1 .. m : b[i].part \notin {"interim", "head"}
        /\ k # 0 => b[k].part \in {"interim", "head"}
    BY <1>2, <1>6, FirstEmptyLineFinds
  <1>8. k # 0 => k = 3
    BY <1>5, <1>7
  <1>9. m >= 3 => k = 3
    <2>1. ASSUME m >= 3, k = 0 PROVE FALSE
      <3>1. 3 \in 1 .. m
        BY <2>1
      <3> QED
        BY <1>5, <1>7, <2>1, <3>1
    <2> QED
      BY <1>8, <2>1
  <1>10. m < 3 => k = 0
    BY <1>7, <1>8
  <1>11. a.status # "1xx" /\ a.status # "none"
    BY ReplyType
  <1>12. m >= 3 => HasTitle(b) /\ b[3].part = "head" /\ b[3].answer = a
    <2> SUFFICES ASSUME m >= 3 PROVE HasTitle(b) /\ b[3].part = "head" /\ b[3].answer = a
      OBVIOUS
    <2>1. 1 \in 1 .. m /\ 3 \in 1 .. m
      OBVIOUS
    <2> QED
      BY <1>2, <1>5, <2>1 DEF HasTitle
  <1>13. m < 3 => StatusOf(b) = "none"
    BY <1>2 DEF StatusOf, HasTitle
  <1>14. m >= 3 => StatusOf(b) = a.status
    BY <1>12 DEF StatusOf
  <1>15. m >= 1 => b[1].part = "H"
    BY <1>5
  <1>16. \A i \in 2 .. m : b[i].part # "H"
    BY <1>5
  <1>17. m < 3 \/ m >= 3
    OBVIOUS
  <1>18. StatusOf(b) # "1xx"
    BY <1>11, <1>13, <1>14, <1>17
  <1> QED
    BY <1>2, <1>6, <1>9, <1>10, <1>12, <1>14, <1>15, <1>16, <1>18

\* An answer that begins with an interim one: the first two parts could be those of
\* the final one, the third tells.
LEMMA InterimBegins ==
  ASSUME NEW a \in Replies, NEW n \in Request, a.interim,
         NEW b \in Seq(Bytes), NEW r \in Seq(Bytes), Begins(b \o r, Interim(a, n) \o Final(a, n))
  PROVE  /\ Len(b) < 3 =>
               /\ FirstEmptyLine(b) = 0 /\ Begins(b, Final(a, n))
               /\ b # <<>> => NoStart(r)
         /\ Len(b) >= 3 =>
               /\ FirstEmptyLine(b) = 3 /\ StatusOf(b) = "1xx"
               /\ SubSeq(b, 4, Len(b)) \in Seq(Bytes) /\ Len(SubSeq(b, 4, Len(b))) = Len(b) - 3
               /\ Begins(SubSeq(b, 4, Len(b)) \o r, Final(a, n))
  <1>1. PICK F \in Seq(Bytes) : F = Final(a, n)
    BY FinalParts
  <1>2. PICK I \in Seq(Bytes) : I = Interim(a, n)
    BY InterimParts
  <1>3. /\ Len(I) = 3 /\ I[3].part = "interim" /\ I[1] = F[1] /\ I[2] = F[2]
    BY <1>1, <1>2, InterimParts
  <1>4. F[1].part = "H" /\ F[2].part = "TTP" /\ Len(F) \in Nat /\ Len(F) >= 3
    <2>1. Len(a.body) \in Nat /\ Tails(a) \in {0, 2}
      BY ReplyType, LenProperties DEF Tails
    <2> QED
      BY <1>1, <2>1, FinalParts, SMTT(30)
  <1>5. PICK w \in Seq(Bytes) : w = I \o F
    BY ConcatProperties
  <1>6. /\ Len(w) = 3 + Len(F)
        /\ w[1] = F[1] /\ w[2] = F[2] /\ w[3].part = "interim"
        /\ \A i \in 1 .. Len(F) : w[3 + i] = F[i]
    <2>1. /\ Len(w) = Len(I) + Len(F)
          /\ \A i \in 1 .. Len(I) : w[i] = I[i]
          /\ \A i \in 1 .. Len(F) : w[Len(I) + i] = F[i]
      BY <1>5
    <2> QED
      BY <1>3, <2>1
  <1>7. PICK m \in Nat : m = Len(b)
    OBVIOUS
  <1>8. PICK l \in Nat : l = Len(r)
    OBVIOUS
  <1>9. /\ m + l <= Len(w)
        /\ \A i \in 1 .. m : b[i] = w[i]
        /\ \A i \in 1 .. l : r[i] = w[m + i]
    <2>1. Begins(b \o r, w)
      BY <1>1, <1>2, <1>5
    <2> QED
      BY <1>7, <1>8, <2>1, Continues
  <1>10. ASSUME m < 3
         PROVE  FirstEmptyLine(b) = 0 /\ Begins(b, F) /\ (b # <<>> => NoStart(r))
    <2>1. \A i \in 1 .. m : b[i] = F[i]
      BY <1>6, <1>9, <1>10
    <2>2. Begins(b, F)
      BY <1>4, <1>7, <1>10, <2>1 DEF Begins
    <2>3. FirstEmptyLine(b) = 0
      BY <1>1, <1>7, <1>10, <2>2, FinalBegins
    <2>4. ASSUME b # <<>>, r # <<>> PROVE r[1].part # "H"
      <3>1. m >= 1 /\ l >= 1
        BY <1>7, <1>8, <2>4, EmptySeq
      <3>2. m + 1 \in {2, 3} /\ 1 \in 1 .. l
        BY <1>10, <3>1
      <3>3. r[1] = w[m + 1]
        BY <1>9, <3>2
      <3>4. w[2].part # "H" /\ w[3].part # "H"
        BY <1>4, <1>6
      <3> QED
        BY <3>2, <3>3, <3>4
    <2> QED
      BY <2>2, <2>3, <2>4 DEF NoStart
  <1>11. ASSUME m >= 3
         PROVE  /\ FirstEmptyLine(b) = 3 /\ StatusOf(b) = "1xx"
                /\ SubSeq(b, 4, Len(b)) \in Seq(Bytes) /\ Len(SubSeq(b, 4, Len(b))) = Len(b) - 3
                /\ Begins(SubSeq(b, 4, Len(b)) \o r, F)
    <2>1. 1 \in 1 .. m /\ 2 \in 1 .. m /\ 3 \in 1 .. m
      BY <1>11
    <2>2. b[1].part = "H" /\ b[2].part = "TTP" /\ b[3].part = "interim"
      BY <1>4, <1>6, <1>9, <2>1
    <2>3. StatusOf(b) = "1xx"
      BY <1>7, <1>11, <2>2 DEF StatusOf, HasTitle
    <2>4. FirstEmptyLine(b) = 3
      <3>1. PICK k \in 0 .. m :
              /\ k = FirstEmptyLine(b)
              /\ k = 0 => \A i \in 1 .. m : b[i].part \notin {"interim", "head"}
              /\ k # 0 => /\ b[k].part \in {"interim", "head"}
                          /\ \A i \in 1 .. m : i < k => b[i].part \notin {"interim", "head"}
        BY <1>7, FirstEmptyLineFinds, ZenonT(60)
      <3>2. k # 0 /\ ~(3 < k)
        BY <2>1, <2>2, <3>1
      <3>3. k # 1 /\ k # 2
        BY <2>2, <3>1
      <3> QED
        BY <3>1, <3>2, <3>3, SMTT(30)
    <2>5. PICK c : c = SubSeq(b, 4, Len(b))
      OBVIOUS
    <2>6. /\ c \in Seq(Bytes) /\ Len(c) = m - 3
          /\ \A i \in 1 .. (m - 3) : c[i] = b[3 + i]
      <3>1. 3 \in 0 .. Len(b) /\ 3 + 1 = 4
        BY <1>7, <1>11
      <3> QED
        BY <1>7, <2>5, <3>1, SplitSeq, SMTT(30)
    <2>7. PICK u \in Seq(Bytes) : u = c \o r
      BY <2>6, ConcatProperties
    <2>8. /\ Len(u) = m - 3 + l
          /\ \A i \in 1 .. (m - 3 + l) : u[i] = IF i <= m - 3 THEN c[i] ELSE r[i - (m - 3)]
      <3>1. /\ Len(u) = Len(c) + Len(r)
            /\ \A i \in 1 .. Len(c) + Len(r) : u[i] = IF i <= Len(c) THEN c[i] ELSE r[i - Len(c)]
        BY <2>6, <2>7, ConcatProperties
      <3>2. Len(c) = m - 3 /\ Len(r) = l
        BY <1>8, <2>6
      <3> QED
        BY <3>1, <3>2
    <2>9. Len(u) <= Len(F)
      BY <1>4, <1>6, <1>9, <2>8
    <2>10. \A i \in 1 .. Len(u) : u[i] = F[i]
      <3> SUFFICES ASSUME NEW i \in 1 .. Len(u) PROVE u[i] = F[i]
        OBVIOUS
      <3>1. i \in 1 .. Len(F) /\ w[3 + i] = F[i]
        BY <1>4, <1>6, <2>9, SMTT(30)
      <3>2. CASE i <= m - 3
        <4>1. i \in 1 .. (m - 3) /\ 3 + i \in 1 .. m /\ i \in 1 .. (m - 3 + l)
          BY <1>11, <2>8, <3>2
        <4> QED
          BY <1>9, <2>6, <2>8, <3>1, <3>2, <4>1
      <3>3. CASE ~(i <= m - 3)
        <4>1. i - (m - 3) \in 1 .. l /\ m + (i - (m - 3)) = 3 + i /\ i \in 1 .. (m - 3 + l)
          BY <1>11, <2>8, <3>3
        <4>2. u[i] = r[i - (m - 3)]
          BY <2>8, <3>3, <4>1
        <4>3. r[i - (m - 3)] = w[m + (i - (m - 3))]
          BY <1>9, <4>1
        <4> QED
          BY <3>1, <4>1, <4>2, <4>3
      <3> QED
        BY <3>2, <3>3
    <2> QED
      BY <1>7, <2>3, <2>4, <2>5, <2>6, <2>7, <2>9, <2>10 DEF Begins
  <1> QED
    BY <1>1, <1>7, <1>10, <1>11

-----------------------------------------------------------------------------
(* Reads                                                                     *)

Errors == {"nil", "EOF", "timeout", "error"}
Conns == [open : BOOLEAN, tls : BOOLEAN, in : Seq(Bytes), ended : {"no", "eof", "reset"}]

Results == [kind : {"none", "nil", "payload", "520", "521", "524"}, payload : Seq(Bytes),
            err : Errors, ended : BOOLEAN, of : Request]

\* What is still to come on the connection.
Rest == conn.in \o owed

\* The server has closed the connection, and all of it has been read.
AtEOF == conn.in = <<>> /\ conn.ended = "eof"

\* A read moves parts from the connection, or fails and moves none, or moves the last
\* ones and says so.
LEMMA Reading ==
  ASSUME TypeOK, NEW n \in Nat \ {0}, NEW r, r \in ReadUpTo(n)
  PROVE  /\ r.data \in Seq(Bytes) /\ Len(r.data) <= n
         /\ r.err \in Errors
         /\ r.err = "nil" => r.data # <<>>
         /\ r.data # <<>> => r.err = "nil" \/ (r.err = "EOF" /\ conn.tls)
         /\ r.err # "nil" => After(Len(r.data)).in = <<>>
         /\ r.err = "EOF" => conn.ended = "eof"
         /\ AtEOF => r.err = "EOF"
         /\ r.err = "error" => conn.ended # "no"
         /\ After(Len(r.data)) \in Conns
         /\ After(Len(r.data)).open = conn.open
         /\ After(Len(r.data)).tls = conn.tls
         /\ After(Len(r.data)).ended = conn.ended
         /\ r.data \o After(Len(r.data)).in = conn.in
         /\ conn = NoConn => After(Len(r.data)) = NoConn
  <1>1. conn \in Conns /\ conn.in \in Seq(Bytes) /\ conn.ended \in {"no", "eof", "reset"}
    BY DEF TypeOK, Conns
  <1>3. PICK in \in Seq(Bytes) : in = conn.in
    BY <1>1
  <1>4. \A k : After(k) = [conn EXCEPT !.in = SubSeq(in, k + 1, Len(in))]
    BY <1>3 DEF After
  <1>5. CASE in = <<>>
    <2>1. /\ r.data = <<>>
          /\ r.err = CASE conn.ended = "no" -> "timeout"
                       [] conn.ended = "eof" -> "EOF"
                       [] conn.ended = "reset" -> "error"
      BY <1>3, <1>5 DEF ReadUpTo
    <2>2. /\ r.err \in Errors /\ r.err # "nil"
          /\ r.err = "EOF" <=> conn.ended = "eof"
          /\ r.err = "error" => conn.ended # "no"
      BY <1>1, <2>1 DEF Errors
    <2>3. r.data \in Seq(Bytes) /\ Len(r.data) = 0 /\ Len(in) = 0
      BY <1>5, <2>1, EmptySeq
    <2>4. SubSeq(in, 0 + 1, 0) = <<>>
      BY <1>5
    <2>5. After(0) = conn
      <3>1. After(0) = [conn EXCEPT !.in = in]
        BY <1>4, <1>5, <2>3, <2>4
      <3> QED
        BY <1>1, <1>3, <3>1 DEF Conns
    <2>6. r.data \o conn.in = conn.in
      BY <1>3, <1>5, <2>1, ConcatEmptySeq
    <2>7. Len(r.data) <= n
      BY <2>3
    <2> QED
      BY <1>1, <1>3, <1>5, <2>1, <2>2, <2>3, <2>5, <2>6, <2>7 DEF AtEOF
  <1>6. CASE in # <<>>
    <2>1. Len(in) \in Nat /\ Len(in) > 0
      BY <1>6, EmptySeq
    <2>2. PICK k \in 1 .. Len(in) : k <= n /\ k = IF n < Len(in) THEN n ELSE Len(in)
      BY <2>1
    <2>3. /\ r.data = SubSeq(in, 1, k)
          /\ r.err = "nil" \/ (r.err = "EOF" /\ conn.tls /\ conn.ended = "eof" /\ Len(in) <= n)
      BY <1>3, <1>6, <2>2 DEF ReadUpTo
    <2>3a. /\ SubSeq(in, 1, k) \in Seq(Bytes) /\ Len(SubSeq(in, 1, k)) = k
          /\ SubSeq(in, k + 1, Len(in)) \in Seq(Bytes) /\ Len(SubSeq(in, k + 1, Len(in))) = Len(in) - k
          /\ SubSeq(in, 1, k) \o SubSeq(in, k + 1, Len(in)) = in
      <3>1. k \in 0 .. Len(in)
        BY <2>1, <2>2
      <3> QED
        BY <3>1, SplitSeq
    <2>4. PICK e \in Seq(Bytes) : e = r.data
      BY <2>3, <2>3a
    <2>5. PICK t \in Seq(Bytes) : t = SubSeq(in, k + 1, Len(in))
      BY <2>3a
    <2>6. Len(e) = k /\ e \o t = in
      BY <2>3, <2>4, <2>5, <2>3a
    <2>7. e # <<>>
      BY <2>1, <2>2, <2>6
    <2>8. After(k) = [conn EXCEPT !.in = t]
      BY <1>4, <2>5
    <2>9. /\ After(k) \in Conns /\ After(k).open = conn.open /\ After(k).tls = conn.tls
          /\ After(k).ended = conn.ended /\ After(k).in = t
      BY <1>1, <2>8 DEF Conns
    <2>10. conn # NoConn
      BY <1>3, <1>6 DEF NoConn
    <2>11. ~AtEOF
      BY <1>3, <1>6 DEF AtEOF
    <2>12. r.err # "nil" => t = <<>>
      <3>1. Len(in) <= n => k = Len(in)
        BY <2>1, <2>2
      <3>1a. Len(t) = Len(in) - k
        BY ONLY <2>3a, <2>5
      <3>2. Len(in) <= n => Len(t) = 0
        BY ONLY <2>1, <3>1, <3>1a
      <3> QED
        BY <2>3, <3>2, EmptySeq
    <2> QED
      BY <1>3, <2>2, <2>3, <2>4, <2>6, <2>7, <2>9, <2>10, <2>11, <2>12 DEF Errors
  <1> QED
    BY <1>5, <1>6

\* The stream of what has been read and what is to come is the same after a read.
LEMMA StreamStays ==
  ASSUME TypeOK, NEW n \in Nat \ {0}, NEW r, r \in ReadUpTo(n)
  PROVE  /\ buf \o r.data \in Seq(Bytes)
         /\ Len(buf \o r.data) = Len(buf) + Len(r.data)
         /\ After(Len(r.data)).in \o owed \in Seq(Bytes)
         /\ Rest \in Seq(Bytes)
         /\ r.data \o (After(Len(r.data)).in \o owed) = Rest
         /\ (buf \o r.data) \o (After(Len(r.data)).in \o owed) = buf \o Rest
  <1>1. buf \in Seq(Bytes) /\ owed \in Seq(Bytes)
    BY DEF TypeOK
  <1>2. PICK d \in Seq(Bytes) : d = r.data
    BY Reading
  <1>3. PICK t \in Seq(Bytes) : t = After(Len(r.data)).in
    BY Reading DEF Conns
  <1>4. d \o t = conn.in
    BY <1>2, <1>3, Reading
  <1>5. (d \o t) \o owed = d \o (t \o owed) /\ t \o owed \in Seq(Bytes) /\ d \o t \in Seq(Bytes)
    BY <1>1, ConcatAssociative, ConcatProperties, SMTT(30)
  <1>6. Rest = d \o (t \o owed) /\ Rest \in Seq(Bytes)
    BY <1>1, <1>4, <1>5, ConcatProperties DEF Rest
  <1>7. (buf \o d) \o (t \o owed) = buf \o Rest
    <2>1. PICK w \in Seq(Bytes) : w = t \o owed
      BY <1>5
    <2>2. PICK b \in Seq(Bytes) : b = buf
      BY <1>1
    <2>3. (b \o d) \o w = b \o (d \o w)
      BY ConcatAssociative, SMTT(30)
    <2> QED
      BY <1>6, <2>1, <2>2, <2>3
  <1>8. buf \o d \in Seq(Bytes) /\ Len(buf \o d) = Len(buf) + Len(d)
    BY <1>1, ConcatProperties
  <1> QED
    BY <1>2, <1>3, <1>5, <1>6, <1>7, <1>8

-----------------------------------------------------------------------------
(* Where Send is, and what it has then                                       *)

Steps ==
    /\ pc \in {"alive", "handshake", "write"} => conn.open
    /\ pc = "idle" <=> tries = 0
    /\ pc # "idle" => tries <= redirects + 1
    /\ pc = "idle" => res.of[1] = req
    /\ pc # "idle" => res.of[1] = req - 1
    /\ pc \in {"idle", "alive", "dial", "handshake"} => buf = <<>>
    /\ pc \notin {"read", "finish"} => over = 0 /\ frame = Unknown
    /\ pc = "read" => over < MaxResponse
    /\ over > 0 => Len(buf) = BufLen
    /\ frame = Unknown => got = 0
    /\ conn.ended # "no" => owed = <<>>

Base == TypeOK /\ Steps /\ RedirectsReset

\* Base holds of a new client.
LEMMA BaseInit == NewHTTPClient => Base
  <1> SUFFICES ASSUME NewHTTPClient PROVE Base
    OBVIOUS
  <1> USE HTTPClientAssumption DEF NewHTTPClient, HTTPClientAssumption
  <1>1. TypeOK
    <2>1. <<>> \in Seq(Bytes) /\ Len(<<>>) = 0
      BY EmptySeq
    <2>2. <<0, 0>> \in Request
      BY DEF Request
    <2>3. conn \in Conns
      BY <2>1 DEF Conns, NoConn
    <2>4. res \in Results
      BY <2>1, <2>2 DEF Results, Errors
    <2> QED
      BY <2>1, <2>3, <2>4 DEF TypeOK, Conns, Results, Errors, Frame, Unknown
  <1>2. Steps
    BY DEF Steps, NoConn
  <1>3. RedirectsReset
    BY DEF RedirectsReset
  <1> QED
    BY <1>1, <1>2, <1>3 DEF Base

\* The constants.
LEMMA Sizes ==
  /\ FollowRedirects \in Nat /\ MaxRequests \in Nat /\ MaxFaults \in Nat
  /\ BufLen \in Nat /\ BufLen > 0 /\ ChunkLen \in Nat /\ ChunkLen > 0
  /\ MaxResponse \in Nat /\ MaxResponse > 2
  BY HTTPClientAssumption DEF HTTPClientAssumption

\* A Send that returns leaves nothing of its reads.
LEMMA Returns ==
  ASSUME Base, pc # "idle", NEW kind \in {"nil", "payload", "520", "521", "524"},
         NEW payload \in Seq(Bytes), NEW e \in Errors, Return(kind, payload, e),
         conn' \in Conns, conn'.open \/ (conn' = NoConn /\ owed' = <<>>), owed' \in Seq(Bytes),
         conn'.ended # "no" => owed' = <<>>,
         redirects' \in 0 .. FollowRedirects, kind = "payload" => redirects' = 0,
         req' = req, answer' = answer, faults' \in 0 .. MaxFaults
  PROVE  Base'
  <1> USE Sizes
  <1>1. <<req, tries>> \in Request /\ <<req, tries>>[1] = req
    BY DEF Base, TypeOK, Request
  <1>2. <<>> \in Seq(Bytes) /\ Len(<<>>) = 0
    BY EmptySeq
  <1>3. res' \in Results
    BY <1>1 DEF Return, Results
  <1>4. TypeOK'
    <2>1. pc' = "idle" /\ tries' = 0 /\ buf' = <<>> /\ over' = 0 /\ frame' = Unknown /\ got' = 0 /\ err' = "nil"
      BY DEF Return
    <2>2. req \in 0 .. MaxRequests /\ answer \in Answer \cup {BadRequest, Silent}
      BY DEF Base, TypeOK
    <2> QED
      BY <1>2, <1>3, <2>1, <2>2 DEF TypeOK, Conns, Results, Errors, Frame, Unknown
  <1>5. Steps'
    <2>1. res'.of[1] = req
      BY <1>1 DEF Return
    <2> QED
      BY <2>1 DEF Return, Steps
  <1>6. RedirectsReset'
    BY DEF RedirectsReset, Return
  <1> QED
    BY <1>4, <1>5, <1>6 DEF Base

\* A new round of Send.
LEMMA Enters ==
  ASSUME Base, Enter, conn' = conn, owed' = owed, conn.open \/ conn = NoConn,
         res' \in Results,
         redirects' \in 0 .. FollowRedirects, tries <= redirects', res'.of[1] = req' - 1,
         req' \in 0 .. MaxRequests, answer' = answer, faults' = faults
  PROVE  Base'
  <1> USE Sizes
  <1>1. <<>> \in Seq(Bytes) /\ Len(<<>>) = 0
    BY EmptySeq
  <1>2. /\ tries \in Nat /\ tries' \in 0 .. FollowRedirects + 1
        /\ tries' # 0 /\ tries' <= redirects' + 1
    <2>1. PICK k \in Nat : k = tries
      BY DEF Base, TypeOK
    <2>2. PICK r \in 0 .. FollowRedirects : r = redirects'
      OBVIOUS
    <2>3. k <= r /\ tries' = k + 1
      BY <2>1, <2>2 DEF Enter
    <2>4. k + 1 \in 0 .. FollowRedirects + 1 /\ k + 1 # 0 /\ k + 1 <= r + 1
      BY <2>3
    <2> QED
      BY <2>1, <2>2, <2>3, <2>4
  <1>3. pc' \in {"alive", "dial"} /\ (pc' = "alive" => conn'.open)
    BY DEF Enter
  <1>4. TypeOK'
    BY <1>1, <1>2, <1>3 DEF Base, TypeOK, Results, Errors, Enter, Frame, Unknown
  <1>5. Steps'
    <2>2. conn'.ended # "no" => owed' = <<>>
      BY DEF Base, Steps
    <2>3. buf' = <<>> /\ over' = 0 /\ frame' = Unknown /\ got' = 0
      BY DEF Enter
    <2>4. ~(over' > 0)
      BY <2>3
    <2>5. pc' # "idle" /\ pc' \notin {"read", "handshake", "write"}
      BY <1>3
    <2> QED
      BY ONLY <1>2, <1>3, <2>2, <2>3, <2>4, <2>5, res'.of[1] = req' - 1, Zenon DEF Steps
  <1>6. RedirectsReset'
    BY <1>3 DEF RedirectsReset
  <1> QED
    BY <1>4, <1>5, <1>6 DEF Base

-----------------------------------------------------------------------------
(* The two reads                                                             *)

\* Names for what ReadBuffer decides once b is in the buffer, n parts of it new, when
\* the headers give the framing f.
Headers(b) == frame = Unknown /\ FirstEmptyLine(b) # 0

Bodyless(b, f) == Headers(b) /\ f # Chunked /\ StatusOf(b) \in {"204", "304"}

Done(b, n, f) == Bodyless(b, f) \/ Complete(f, BodyRead(b, n), b)

\* The connection c is kept, or it is closed because there was too much on it.
Leaves(tooMuch, c) == IF tooMuch THEN Disconnect ELSE conn' = c /\ UNCHANGED owed

Soaked(b, c) ==
    /\ Headers(b) /\ StatusOf(b) = "1xx" /\ Soak(b) /\ conn' = c
    /\ UNCHANGED <<pc, owed, over, frame, got, err>>

Buffered(b, n, e, f, c) ==
    /\ ~(Headers(b) /\ StatusOf(b) = "1xx")
    /\ f \in IF Headers(b) THEN Framings(b) ELSE {frame}
    /\ frame' = IF Bodyless(b, f) THEN 0 ELSE f
    /\ err' = IF ~Done(b, n, f) /\ e = "EOF" THEN "nil" ELSE e
    /\ Loop(Done(b, n, f), e, BodyRead(b, n), Len(b))
    /\ Leaves(~Bodyless(b, f) /\ WrongLength(f, BodyRead(b, n)), c)
    /\ buf' = b /\ UNCHANGED over

\* A read that gave the n parts d and the error e, and left c.
Took(d, n, e, c) ==
    /\ d \in Seq(Bytes) /\ n = Len(d) /\ e \in Errors
    /\ e = "nil" => n > 0
    /\ n > 0 => e = "nil" \/ (e = "EOF" /\ conn.tls)
    /\ e # "nil" => c.in = <<>>
    /\ e = "EOF" => conn.ended = "eof"
    /\ AtEOF => e = "EOF"
    /\ e = "error" => conn.ended # "no"
    /\ c \in Conns /\ c.open = conn.open /\ c.tls = conn.tls /\ c.ended = conn.ended
    /\ conn = NoConn => c = NoConn
    /\ d \o (c.in \o owed) = Rest /\ d \o c.in = conn.in

\* What a read takes, as one fact.
LEMMA Takes ==
  ASSUME TypeOK, NEW m \in Nat \ {0}, NEW r, r \in ReadUpTo(m), NEW d, NEW e, NEW c,
         d = r.data, e = r.err, c = After(Len(d))
  PROVE  Took(d, Len(d), e, c) /\ Len(d) <= m
  <1>1. /\ d \in Seq(Bytes) /\ Len(d) <= m /\ e \in Errors
        /\ e = "nil" => d # <<>>
        /\ d # <<>> => e = "nil" \/ (e = "EOF" /\ conn.tls)
        /\ e # "nil" => c.in = <<>>
        /\ e = "EOF" => conn.ended = "eof"
        /\ AtEOF => e = "EOF"
        /\ e = "error" => conn.ended # "no"
        /\ c \in Conns /\ c.open = conn.open /\ c.tls = conn.tls /\ c.ended = conn.ended
        /\ d \o c.in = conn.in
        /\ conn = NoConn => c = NoConn
    BY Reading
  <1>2. d \o (c.in \o owed) = Rest
    BY StreamStays
  <1>3. Len(d) > 0 <=> d # <<>>
    BY <1>1, EmptySeq
  <1> QED
    BY <1>1, <1>2, <1>3 DEF Took

\* ReadBuffer, in these terms.
LEMMA BufferRead ==
  ASSUME Base, ReadBuffer
  PROVE  /\ pc = "read" /\ over = 0 /\ over' = 0
         /\ UNCHANGED <<redirects, res, req, tries, answer, faults>>
         /\ \E d, n, e, c, b :
               /\ Took(d, n, e, c)
               /\ b = buf \o d /\ b \in Seq(Bytes) /\ n \in Nat /\ Len(b) = Len(buf) + n /\ Len(b) <= BufLen
               /\ Len(buf) < BufLen
               /\ b \o (c.in \o owed) = buf \o Rest
               /\ Soaked(b, c) \/ \E f : Buffered(b, n, e, f, c)
  <1>1. pc = "read" /\ over = 0 /\ Len(buf) < BufLen /\ UNCHANGED <<redirects, res, req, tries, answer, faults>>
    BY DEF ReadBuffer
  <1>2. TypeOK /\ buf \in Seq(Bytes) /\ Len(buf) \in Nat /\ owed \in Seq(Bytes)
    BY DEF Base, TypeOK
  <1>3. PICK m \in Nat \ {0} : m = BufLen - Len(buf)
    BY <1>1, <1>2, Sizes
  <1>3a. PICK r \in ReadUpTo(BufLen - Len(buf)) :
            \/ Soaked(buf \o r.data, After(Len(r.data)))
            \/ \E f : Buffered(buf \o r.data, Len(r.data), r.err, f, After(Len(r.data)))
    BY ZenonT(60) DEF ReadBuffer, Soaked, Buffered, Headers, Bodyless, Done, Leaves
  <1>3b. r \in ReadUpTo(m)
    BY <1>3
  <1>4. PICK d : d = r.data
    OBVIOUS
  <1>5. PICK e : e = r.err
    OBVIOUS
  <1>6. PICK c : c = After(Len(d))
    OBVIOUS
  <1>7. Took(d, Len(d), e, c) /\ Len(d) <= m
    BY <1>2, <1>3b, <1>4, <1>5, <1>6, Takes
  <1>8. d \in Seq(Bytes) /\ Len(d) \in Nat /\ c \in Conns /\ c.in \in Seq(Bytes)
    BY <1>7 DEF Took, Conns
  <1>9. PICK b \in Seq(Bytes) : b = buf \o d /\ Len(b) = Len(buf) + Len(d)
    BY <1>2, <1>8, ConcatProperties
  <1>10. Len(b) <= BufLen
    BY <1>2, <1>3, <1>7, <1>8, <1>9, Sizes
  <1>11. b \o (c.in \o owed) = buf \o Rest
    BY <1>2, <1>3b, <1>4, <1>6, <1>9, StreamStays
  <1>12. Soaked(b, c) \/ \E f : Buffered(b, Len(d), e, f, c)
    BY <1>3a, <1>4, <1>5, <1>6, <1>9, Zenon
  <1>13. over' = over
    BY <1>12 DEF Soaked, Buffered
  <1> QED
    BY <1>1, <1>7, <1>8, <1>9, <1>10, <1>11, <1>12, <1>13

\* ReadChunk, which throws away the n parts it reads, in the same terms.
Thrown(d, n, e, c) ==
    /\ over' = over + n /\ err' = e /\ UNCHANGED frame
    /\ Loop(frame = Unknown \/ Complete(frame, got + n, d), e, got + n, Len(buf) + over')
    /\ Leaves(frame = Unknown \/ WrongLength(frame, got + n), c)

\* A read into the chunk keeps the buffer, which is full.
LEMMA ChunkRead ==
  ASSUME Base, ReadChunk
  PROVE  /\ pc = "read" /\ Len(buf) = BufLen
         /\ UNCHANGED <<buf, redirects, res, req, tries, answer, faults>>
         /\ \E d, n, e, c :
               Took(d, n, e, c) /\ n \in Nat /\ n <= ChunkLen /\ Thrown(d, n, e, c)
  <1>1. pc = "read" /\ UNCHANGED <<buf, redirects, res, req, tries, answer, faults>>
    BY DEF ReadChunk
  <1>2. Len(buf) = BufLen
    BY DEF ReadChunk, Base, Steps
  <1>3. TypeOK
    BY DEF Base
  <1>3a. PICK r \in ReadUpTo(ChunkLen) : Thrown(r.data, Len(r.data), r.err, After(Len(r.data)))
    BY ZenonT(60) DEF ReadChunk, Thrown, Leaves
  <1>4. PICK d : d = r.data
    OBVIOUS
  <1>5. PICK e : e = r.err
    OBVIOUS
  <1>6. PICK c : c = After(Len(d))
    OBVIOUS
  <1>7. Took(d, Len(d), e, c) /\ Len(d) <= ChunkLen
    <2>1. ChunkLen \in Nat \ {0}
      BY Sizes
    <2> QED
      BY <1>3, <1>3a, <1>4, <1>5, <1>6, <2>1, Takes
  <1>8. Len(d) \in Nat
    BY <1>7 DEF Took
  <1>9. Thrown(d, Len(d), e, c)
    BY <1>3a, <1>4, <1>5, <1>6
  <1> QED
    BY <1>1, <1>2, <1>7, <1>8, <1>9

\* A framing that headers give.
LEMMA FramingType ==
  ASSUME NEW b \in Seq(Bytes), FirstEmptyLine(b) # 0, NEW f \in Framings(b)
  PROVE  f \in Frame
  <1>1. PICK k \in 1 .. Len(b) : k = FirstEmptyLine(b)
    BY FirstEmptyLineFinds
  <1>2. b[k] \in Bytes
    BY ElementOfSeq
  <1>3. b[k].answer.frame \in Frame
    BY <1>2, ReplyType DEF Bytes, Replies
  <1>4. Unknown \in Frame
    BY DEF Frame
  <1> QED
    BY <1>1, <1>3, <1>4 DEF Framings

\* What a read leaves of the connection.
LEMMA LeavesConn ==
  ASSUME Base, NEW d, NEW n, NEW e, NEW c, NEW tooMuch, Took(d, n, e, c), Leaves(tooMuch, c)
  PROVE  /\ conn' \in Conns /\ owed' \in Seq(Bytes)
         /\ conn'.open \/ (conn' = NoConn /\ owed' = <<>>)
         /\ conn'.ended # "no" => owed' = <<>>
         /\ conn'.open => conn.open /\ conn'.tls = conn.tls /\ conn'.ended = conn.ended
  <1>1. CASE tooMuch
    <2>1. conn' = NoConn /\ owed' = <<>>
      BY <1>1 DEF Leaves, Disconnect
    <2> QED
      BY <2>1, EmptySeq DEF NoConn, Conns
  <1>2. CASE ~tooMuch
    <2>1. conn' = c /\ owed' = owed
      BY <1>2 DEF Leaves
    <2>2. c \in Conns /\ c.open = conn.open /\ c.tls = conn.tls /\ c.ended = conn.ended /\ (conn = NoConn => c = NoConn)
      BY DEF Took
    <2>3. owed \in Seq(Bytes) /\ (conn.open \/ (conn = NoConn /\ owed = <<>>)) /\ (conn.ended # "no" => owed = <<>>)
      BY DEF Base, TypeOK, Steps
    <2> QED
      BY <2>1, <2>2, <2>3
  <1> QED
    BY <1>1, <1>2

\* What has been thrown away is bounded, since each read is and reading stops
\* at the largest response.
LEMMA BaseReadChunk == ASSUME Base, ReadChunk PROVE Base'
  <1> USE Sizes
  <1>1. /\ pc = "read" /\ Len(buf) = BufLen
        /\ UNCHANGED <<buf, redirects, res, req, tries, answer, faults>>
    BY ChunkRead
  <1>2. PICK d, n, e, c : Took(d, n, e, c) /\ n \in Nat /\ n <= ChunkLen /\ Thrown(d, n, e, c)
    BY ChunkRead
  <1>3. /\ conn' \in Conns /\ owed' \in Seq(Bytes)
        /\ conn'.open \/ (conn' = NoConn /\ owed' = <<>>)
        /\ conn'.ended # "no" => owed' = <<>>
    BY <1>2, LeavesConn DEF Thrown
  <1>4. over \in Nat /\ over < MaxResponse /\ got \in Nat /\ frame \in Frame
    BY <1>1 DEF Base, TypeOK, Steps
  <1>5. over' = over + n /\ over' \in 0 .. MaxResponse + ChunkLen
    BY <1>2, <1>4 DEF Thrown
  <1>6. e \in Errors /\ err' = e /\ frame' = frame
    BY <1>2 DEF Took, Thrown
  <1>7. pc' \in {"read", "finish"} /\ (pc' = "read" => ~(Len(buf) + over' >= MaxResponse))
    BY <1>2 DEF Thrown, Loop
  <1>8. got' \in Nat /\ (frame' = Unknown => got' = 0)
    <2>1. got' = IF frame' = Unknown THEN 0 ELSE got + n
      BY <1>2 DEF Thrown, Loop
    <2> QED
      BY <1>2, <1>4, <2>1
  <1>9. TypeOK'
    <2>1. /\ buf \in Seq(Bytes) /\ Len(buf) <= BufLen /\ redirects \in 0 .. FollowRedirects
          /\ res \in Results /\ req \in 0 .. MaxRequests /\ tries \in 0 .. FollowRedirects + 1
          /\ answer \in Answer \cup {BadRequest, Silent} /\ faults \in 0 .. MaxFaults
      BY DEF Base, TypeOK, Results, Errors
    <2> QED
      BY <1>1, <1>3, <1>4, <1>5, <1>6, <1>7, <1>8, <2>1 DEF TypeOK, Conns, Results, Errors
  <1>10. Steps'
    <2>1. pc' = "read" => over' < MaxResponse
      BY <1>1, <1>4, <1>5, <1>7
    <2>2. tries # 0 /\ tries <= redirects + 1 /\ res.of[1] = req - 1
      BY <1>1 DEF Base, Steps
    <2>3. pc' # "idle" /\ pc' \notin {"alive", "dial", "handshake", "write"}
      BY <1>7
    <2> QED
      BY <1>1, <1>3, <1>8, <2>1, <2>2, <2>3, <1>7, Zenon DEF Steps
  <1>11. RedirectsReset'
    BY <1>7 DEF RedirectsReset
  <1> QED
    BY <1>9, <1>10, <1>11 DEF Base

\* The buffer never holds more than its size.
LEMMA BaseReadBuffer == ASSUME Base, ReadBuffer PROVE Base'
  <1> USE Sizes
  <1>1. /\ pc = "read" /\ over = 0 /\ over' = 0
        /\ UNCHANGED <<redirects, res, req, tries, answer, faults>>
    BY BufferRead
  <1>2. PICK d, n, e, c, b :
           /\ Took(d, n, e, c)
           /\ b \in Seq(Bytes) /\ n \in Nat /\ Len(b) = Len(buf) + n /\ Len(b) <= BufLen
           /\ Soaked(b, c) \/ \E f : Buffered(b, n, e, f, c)
    BY BufferRead
  <1>3. /\ buf \in Seq(Bytes) /\ Len(buf) <= BufLen /\ redirects \in 0 .. FollowRedirects
        /\ res \in Results /\ req \in 0 .. MaxRequests /\ tries \in 0 .. FollowRedirects + 1
        /\ answer \in Answer \cup {BadRequest, Silent} /\ faults \in 0 .. MaxFaults
        /\ err \in Errors /\ frame \in Frame /\ got \in Nat
    BY DEF Base, TypeOK, Results, Errors
  <1>4. tries # 0 /\ tries <= redirects + 1 /\ res.of[1] = req - 1
    BY <1>1 DEF Base, Steps
  <1>5. PICK k \in 0 .. Len(b) : k = FirstEmptyLine(b)
    BY <1>2, FirstEmptyLineFinds
  <1>6. /\ pc' \in {"read", "finish"} /\ err' \in Errors
        /\ frame' \in Frame /\ got' \in Nat /\ (frame' = Unknown => got' = 0)
        /\ buf' \in Seq(Bytes) /\ Len(buf') <= BufLen
        /\ conn' \in Conns /\ owed' \in Seq(Bytes)
        /\ conn'.open \/ (conn' = NoConn /\ owed' = <<>>)
        /\ conn'.ended # "no" => owed' = <<>>
    <2>1. CASE Soaked(b, c)
      <3>1. buf' = SubSeq(b, k + 1, Len(b))
        BY <1>5, <2>1 DEF Soaked, Soak
      <3>2. buf' \in Seq(Bytes) /\ Len(buf') = Len(b) - k
        BY <1>2, <3>1, SplitSeq
      <3>3. Len(buf') <= BufLen
        BY <1>2, <1>5, <3>2
      <3>4. Leaves(FALSE, c)
        BY <2>1 DEF Soaked, Leaves
      <3>5. pc' = pc /\ frame' = frame /\ got' = got /\ err' = err
        BY <2>1 DEF Soaked
      <3>6. frame = Unknown => got = 0
        BY DEF Base, Steps
      <3>7. /\ conn' \in Conns /\ owed' \in Seq(Bytes)
            /\ conn'.open \/ (conn' = NoConn /\ owed' = <<>>)
            /\ conn'.ended # "no" => owed' = <<>>
        BY <1>2, <3>4, LeavesConn
      <3> QED
        BY <1>1, <1>3, <3>2, <3>3, <3>5, <3>6, <3>7
    <2>2. CASE \E f : Buffered(b, n, e, f, c)
      <3>1. PICK f : Buffered(b, n, e, f, c)
        BY <2>2
      <3>2. f \in Frame
        <4>1. CASE Headers(b)
          BY <1>2, <3>1, <4>1, FramingType DEF Buffered, Headers
        <4>2. CASE ~Headers(b)
          BY <1>3, <3>1, <4>2 DEF Buffered
        <4> QED
          BY <4>1, <4>2
      <3>3. frame' \in Frame
        BY <3>1, <3>2 DEF Buffered, Frame
      <3>4. BodyRead(b, n) \in Nat
        <4>1. BodyRead(b, n) = IF frame # Unknown THEN got + n
                               ELSE IF k = 0 THEN got ELSE got + Len(b) - k
          BY <1>5 DEF BodyRead
        <4> QED
          BY <1>2, <1>3, <1>5, <4>1
      <3>5. pc' \in {"read", "finish"} /\ got' \in Nat /\ (frame' = Unknown => got' = 0)
        BY <3>1, <3>4 DEF Buffered, Loop
      <3>6. err' \in Errors
        BY <1>2, <3>1 DEF Buffered, Took, Errors
      <3>7. buf' = b /\ Leaves(~Bodyless(b, f) /\ WrongLength(f, BodyRead(b, n)), c)
        BY <3>1 DEF Buffered
      <3>8. /\ conn' \in Conns /\ owed' \in Seq(Bytes)
            /\ conn'.open \/ (conn' = NoConn /\ owed' = <<>>)
            /\ conn'.ended # "no" => owed' = <<>>
        BY <1>2, <3>7, LeavesConn
      <3> QED
        BY <1>2, <3>3, <3>5, <3>6, <3>7, <3>8
    <2> QED
      BY <1>2, <2>1, <2>2
  <1>7. TypeOK'
    BY <1>1, <1>3, <1>6 DEF TypeOK, Conns, Results, Errors
  <1>8. Steps'
    <2>1. pc' # "idle" /\ pc' \notin {"alive", "dial", "handshake", "write"}
      BY <1>6
    <2>2. over' < MaxResponse /\ ~(over' > 0)
      BY <1>1
    <2> QED
      BY <1>1, <1>4, <1>6, <2>1, <2>2, Zenon DEF Steps
  <1>9. RedirectsReset'
    BY <1>6 DEF RedirectsReset
  <1> QED
    BY <1>7, <1>8, <1>9 DEF Base

-----------------------------------------------------------------------------
(* The other steps keep Base                                                 *)

\* Facts about the state that every step needs.
LEMMA BaseTypes ==
  ASSUME Base
  PROVE  /\ TypeOK /\ conn \in Conns /\ owed \in Seq(Bytes) /\ conn.in \in Seq(Bytes)
         /\ conn.open \in BOOLEAN /\ conn.tls \in BOOLEAN
         /\ conn.open \/ (conn = NoConn /\ owed = <<>>)
         /\ conn.ended # "no" => owed = <<>>
         /\ buf \in Seq(Bytes) /\ Len(buf) \in Nat /\ Len(buf) <= BufLen /\ over \in Nat
         /\ redirects \in 0 .. FollowRedirects /\ res \in Results /\ err \in Errors
         /\ req \in 0 .. MaxRequests /\ tries \in 0 .. FollowRedirects + 1
         /\ frame \in Frame /\ got \in Nat
         /\ answer \in Answer \cup {BadRequest, Silent} /\ faults \in 0 .. MaxFaults
         /\ <<req, tries>> \in Request
         /\ NoConn \in Conns /\ <<>> \in Seq(Bytes) /\ NoConn.ended = "no" /\ NoConn.in = <<>> /\ ~NoConn.open
  <1>1. TypeOK /\ conn \in Conns /\ owed \in Seq(Bytes)
        /\ (conn.open \/ (conn = NoConn /\ owed = <<>>))
        /\ buf \in Seq(Bytes) /\ Len(buf) <= BufLen
        /\ redirects \in 0 .. FollowRedirects /\ res \in Results /\ err \in Errors
        /\ req \in 0 .. MaxRequests /\ tries \in 0 .. FollowRedirects + 1
        /\ frame \in Frame /\ got \in Nat /\ over \in 0 .. MaxResponse + ChunkLen
        /\ answer \in Answer \cup {BadRequest, Silent} /\ faults \in 0 .. MaxFaults
    BY DEF Base, TypeOK, Conns, Results, Errors
  <1>2. conn.ended # "no" => owed = <<>>
    BY DEF Base, Steps
  <1>3. conn.in \in Seq(Bytes) /\ conn.open \in BOOLEAN /\ conn.tls \in BOOLEAN
    BY <1>1 DEF Conns
  <1>4. Len(buf) \in Nat /\ over \in Nat
    BY <1>1
  <1>5. <<req, tries>> \in Request
    BY <1>1 DEF Request
  <1>6. NoConn \in Conns /\ <<>> \in Seq(Bytes) /\ NoConn.ended = "no" /\ NoConn.in = <<>> /\ ~NoConn.open
    BY EmptySeq DEF NoConn, Conns
  <1> QED
    BY <1>1, <1>2, <1>3, <1>4, <1>5, <1>6

\* A call of Send starts with its first try.
LEMMA BaseSend == ASSUME Base, Send PROVE Base'
  <1>1. /\ pc = "idle" /\ req < MaxRequests /\ req' = req + 1
        /\ res' = [res EXCEPT !.payload = <<>>]
        /\ conn' = conn /\ owed' = owed /\ Enter
        /\ redirects' = redirects /\ answer' = answer /\ faults' = faults
    BY DEF Send, KeepConn
  <1>2. res' \in Results /\ res'.of = res.of
    BY <1>1, BaseTypes DEF Results
  <1>3. tries = 0 /\ res.of[1] = req
    BY <1>1 DEF Base, Steps
  <1>4. req \in Nat /\ req' \in 0 .. MaxRequests
    BY <1>1, BaseTypes, Sizes, SMTT(30)
  <1>5. res'.of[1] = req' - 1
    <2>1. req' - 1 = req
      BY <1>1, <1>4
    <2> QED
      BY <1>2, <1>3, <2>1
  <1>6. redirects' \in 0 .. FollowRedirects /\ tries <= redirects'
    BY <1>1, <1>3, BaseTypes, Sizes
  <1>7. conn.open \/ conn = NoConn
    BY BaseTypes
  <1> QED
    BY <1>1, <1>2, <1>4, <1>5, <1>6, <1>7, Enters, Zenon

\* isAlive reads at most one part.
LEMMA BaseIsAlive == ASSUME Base, isAlive PROVE Base'
  <1>1. /\ pc = "alive" /\ conn.open
        /\ owed' = owed /\ over' = over /\ frame' = frame /\ got' = got /\ err' = err /\ redirects' = redirects
        /\ res' = res /\ req' = req /\ tries' = tries /\ answer' = answer /\ faults' = faults
    BY DEF isAlive, Base, Steps
  <1>2. buf = <<>> /\ over = 0 /\ frame = Unknown /\ got = 0 /\ tries # 0 /\ tries <= redirects + 1 /\ res.of[1] = req - 1
    BY <1>1 DEF Base, Steps
  <1>3. PICK r \in ReadUpTo(1) :
           IF r.err = "EOF" THEN pc' = "dial" /\ UNCHANGED <<conn, buf>>
           ELSE pc' = "write" /\ buf' = r.data /\ conn' = After(Len(r.data))
    BY DEF isAlive
  <1>3a. PICK d : d = r.data
    OBVIOUS
  <1>4. Took(d, Len(d), r.err, After(Len(d))) /\ Len(d) <= 1
    BY <1>3a, Takes, BaseTypes
  <1>5. /\ pc' \in {"dial", "write"} /\ (pc' = "dial" => buf' = <<>>)
        /\ buf' \in Seq(Bytes) /\ Len(buf') <= BufLen
        /\ conn' \in Conns /\ conn'.open /\ conn'.ended = conn.ended
    <2>1. CASE r.err = "EOF"
      <3>1. pc' = "dial" /\ conn' = conn /\ buf' = buf
        BY <1>3, <2>1
      <3> QED
        BY <1>1, <1>2, <3>1, BaseTypes
    <2>2. CASE r.err # "EOF"
      <3>1. pc' = "write" /\ buf' = d /\ conn' = After(Len(d))
        BY <1>3, <1>3a, <2>2
      <3>2. d \in Seq(Bytes) /\ conn' \in Conns /\ conn'.open = conn.open /\ conn'.ended = conn.ended
        BY <1>4, <3>1 DEF Took
      <3>3. Len(d) <= BufLen
        BY <1>4, <3>2, Sizes
      <3> QED
        BY <1>1, <3>1, <3>2, <3>3
    <2> QED
      BY <2>1, <2>2
  <1>6. TypeOK'
    <2>1. over \in 0 .. MaxResponse + ChunkLen
      BY DEF Base, TypeOK
    <2> QED
      BY <1>1, <1>5, <2>1, BaseTypes DEF TypeOK, Conns, Results, Errors
  <1>7. Steps'
    <2>1. ~(over' > 0) /\ pc' # "idle" /\ pc' \notin {"alive", "handshake", "read"}
      BY <1>1, <1>2, <1>5
    <2>2. conn'.ended # "no" => owed' = <<>>
      BY <1>1, <1>5, BaseTypes
    <2> QED
      BY <1>1, <1>2, <1>5, <2>1, <2>2, Zenon DEF Steps
  <1>8. RedirectsReset'
    BY <1>5 DEF RedirectsReset
  <1> QED
    BY <1>6, <1>7, <1>8 DEF Base

\* A dial opens a new connection or reports its failure.
LEMMA BaseDial == ASSUME Base, Dial PROVE Base'
  <1>1. pc = "dial" /\ owed' = <<>>
    BY DEF Dial
  <1>2. buf = <<>> /\ over = 0 /\ frame = Unknown /\ got = 0 /\ tries # 0 /\ tries <= redirects + 1 /\ res.of[1] = req - 1
    BY <1>1 DEF Base, Steps
  <1>3. CASE /\ conn' = [NoConn EXCEPT !.open = TRUE] /\ pc' = "handshake"
             /\ UNCHANGED <<buf, over, frame, got, err, redirects, res, req, tries, answer, faults>>
    <2>1. conn' \in Conns /\ conn'.open /\ conn'.ended = "no"
      BY <1>3, EmptySeq DEF Conns, NoConn
    <2>2. TypeOK'
      BY <1>1, <1>3, <2>1, BaseTypes DEF Base, TypeOK, Conns
    <2>3. Steps'
      <3>1. ~(over' > 0)
        BY <1>2, <1>3
      <3>2. pc' # "idle" /\ pc' \notin {"alive", "dial", "write", "read", "finish"}
        BY <1>3
      <3> QED
        BY <1>1, <1>2, <1>3, <2>1, <3>1, <3>2, Zenon DEF Steps
    <2>4. RedirectsReset'
      BY <1>3 DEF RedirectsReset
    <2> QED
      BY <2>2, <2>3, <2>4 DEF Base
  <1>4. CASE /\ faults < MaxFaults /\ faults' = faults + 1 /\ conn' = NoConn
             /\ Return("521", <<>>, "error") /\ UNCHANGED <<redirects, req, answer>>
    <2>1. faults' \in 0 .. MaxFaults
      BY <1>4, BaseTypes, Sizes, SMTT(30)
    <2>2. "error" \in Errors /\ "521" \in {"nil", "payload", "520", "521", "524"} /\ "521" # "payload"
      BY DEF Errors
    <2>3. conn' \in Conns /\ owed' \in Seq(Bytes) /\ conn'.ended = "no"
      BY <1>1, <1>4, BaseTypes
    <2> QED
      BY <1>1, <1>4, <2>1, <2>2, <2>3, BaseTypes, Returns
  <1> QED
    BY <1>3, <1>4 DEF Dial

\* A handshake that fails leaves the connection open.
LEMMA BaseHandshake == ASSUME Base, Handshake PROVE Base'
  <1>1. pc = "handshake" /\ conn.open
    BY DEF Handshake, Base, Steps
  <1>2. buf = <<>> /\ over = 0 /\ frame = Unknown /\ got = 0 /\ tries # 0 /\ tries <= redirects + 1 /\ res.of[1] = req - 1
    BY <1>1 DEF Base, Steps
  <1>3. CASE /\ conn' = [conn EXCEPT !.tls = TRUE] /\ pc' = "write"
             /\ UNCHANGED <<owed, buf, over, frame, got, err, redirects, res, req, tries, answer, faults>>
    <2>1. conn' \in Conns /\ conn'.open /\ conn'.ended = conn.ended
      BY <1>1, <1>3, BaseTypes DEF Conns
    <2>2. TypeOK'
      BY <1>1, <1>3, <2>1, BaseTypes DEF Base, TypeOK, Conns
    <2>3. Steps'
      <3>1. ~(over' > 0)
        BY <1>2, <1>3
      <3>2. pc' # "idle" /\ pc' \notin {"alive", "dial", "handshake", "read", "finish"}
        BY <1>3
      <3>3. conn'.ended # "no" => owed' = <<>>
        BY <1>3, <2>1, BaseTypes
      <3> QED
        BY <1>1, <1>2, <1>3, <2>1, <3>1, <3>2, <3>3, Zenon DEF Steps
    <2>4. RedirectsReset'
      BY <1>3 DEF RedirectsReset
    <2> QED
      BY <2>2, <2>3, <2>4 DEF Base
  <1>4. CASE /\ faults < MaxFaults /\ faults' = faults + 1 /\ conn' = conn /\ owed' = owed
             /\ Return("521", <<>>, "error") /\ UNCHANGED <<redirects, req, answer>>
    <2>1. faults' \in 0 .. MaxFaults
      BY <1>4, BaseTypes, Sizes, SMTT(30)
    <2>2. "error" \in Errors /\ "521" \in {"nil", "payload", "520", "521", "524"} /\ "521" # "payload"
      BY DEF Errors
    <2> QED
      BY <1>1, <1>4, <2>1, <2>2, BaseTypes, Returns
  <1> QED
    BY <1>3, <1>4 DEF Handshake, KeepConn

\* The answer that the server owes for a request.
LEMMA Owes ==
  ASSUME NEW a \in Replies, NEW n \in Request, NEW s \in Seq(Bytes)
  PROVE  /\ Interim(a, n) \in Seq(Bytes) /\ Final(a, n) \in Seq(Bytes)
         /\ Interim(a, n) \o Final(a, n) \in Seq(Bytes)
         /\ s \o Interim(a, n) \o Final(a, n) = s \o (Interim(a, n) \o Final(a, n))
         /\ s \o Interim(a, n) \o Final(a, n) \in Seq(Bytes)
  <1>1. PICK I \in Seq(Bytes) : I = Interim(a, n)
    BY InterimParts
  <1>2. PICK F \in Seq(Bytes) : F = Final(a, n)
    BY FinalParts
  <1>3. s \o I \o F = s \o (I \o F)
    BY ConcatAssociative, SMTT(30)
  <1>4. I \o F \in Seq(Bytes)
    BY ConcatProperties
  <1>5. s \o (I \o F) \in Seq(Bytes)
    BY <1>4, ConcatProperties
  <1> QED
    BY <1>1, <1>2, <1>3, <1>4, <1>5

\* The server owes an answer, or the connection is closed.
LEMMA BaseWrite == ASSUME Base, Write PROVE Base'
  <1>1. pc = "write" /\ conn.open
    BY DEF Write, Base, Steps
  <1>2. over = 0 /\ frame = Unknown /\ got = 0 /\ tries # 0 /\ tries <= redirects + 1 /\ res.of[1] = req - 1
    BY <1>1 DEF Base, Steps
  <1>3. ASSUME NEW a \in ServerAnswers, answer' = a,
               owed' = IF a = Silent THEN owed
                       ELSE owed \o Interim(a, <<req, tries>>) \o Final(a, <<req, tries>>),
               pc' = "read",
               UNCHANGED <<conn, buf, over, frame, got, err, redirects, res, req, tries, faults>>
        PROVE  Base'
    <2>1. a \in Answer \cup {BadRequest, Silent} /\ (a # Silent => a \in Replies /\ conn.ended = "no")
      BY DEF ServerAnswers, Replies
    <2>2. owed' \in Seq(Bytes)
      <3>1. CASE a = Silent
        BY <1>3, <3>1, BaseTypes
      <3>2. CASE a # Silent
        BY <1>3, <2>1, <3>2, BaseTypes, Owes
      <3> QED
        BY <3>1, <3>2
    <2>3. conn'.ended # "no" => owed' = <<>>
      BY <1>3, <2>1, BaseTypes
    <2>4. TypeOK'
      <3>1. over \in 0 .. MaxResponse + ChunkLen
        BY DEF Base, TypeOK
      <3> QED
        BY <1>1, <1>3, <2>1, <2>2, <3>1, BaseTypes DEF TypeOK, Conns, Results, Errors
    <2>5. Steps'
      <3>1. ~(over' > 0) /\ over' < MaxResponse
        BY <1>2, <1>3, Sizes
      <3>2. pc' # "idle" /\ pc' \notin {"idle", "alive", "dial", "handshake", "write", "finish"}
        BY <1>3
      <3>3. got' = 0 /\ tries' # 0 /\ tries' <= redirects' + 1 /\ res'.of[1] = req' - 1
        BY <1>2, <1>3
      <3> QED
        BY <1>3, <2>3, <3>1, <3>2, <3>3, Zenon DEF Steps
    <2>6. RedirectsReset'
      BY <1>3 DEF RedirectsReset
    <2> QED
      BY <2>4, <2>5, <2>6 DEF Base
  <1>4. CASE /\ Disconnect /\ Return("524", <<>>, "error") /\ UNCHANGED <<redirects, req, answer, faults>>
    <2>1. conn' = NoConn /\ owed' = <<>>
      BY <1>4 DEF Disconnect
    <2>2. "error" \in Errors /\ "524" \in {"nil", "payload", "520", "521", "524"} /\ "524" # "payload"
      BY DEF Errors
    <2>3. conn' \in Conns /\ owed' \in Seq(Bytes) /\ conn'.ended = "no"
      BY <2>1, BaseTypes
    <2> QED
      BY <1>1, <1>4, <2>1, <2>2, <2>3, BaseTypes, Returns
  <1> QED
    BY <1>3, <1>4 DEF Write

\* Keeping or closing the connection.
LEMMA KeepsOrCloses ==
  ASSUME Base, KeepConn \/ Disconnect
  PROVE  /\ conn' \in Conns /\ owed' \in Seq(Bytes)
         /\ conn'.open \/ (conn' = NoConn /\ owed' = <<>>)
         /\ conn'.ended # "no" => owed' = <<>>
  <1>1. CASE KeepConn
    BY <1>1, BaseTypes DEF KeepConn
  <1>2. CASE Disconnect
    BY <1>2, BaseTypes DEF Disconnect
  <1> QED
    BY <1>1, <1>2

\* Every way to finish returns or follows a redirect.
LEMMA BaseFinish == ASSUME Base, Finish PROVE Base'
  <1>1. pc = "finish" /\ req' = req /\ answer' = answer /\ faults' = faults /\ faults \in 0 .. MaxFaults
    BY BaseTypes DEF Finish
  <1>2. "nil" \in Errors
    BY DEF Errors
  <1>3. CASE NoAnswer \/ UnknownAnswer \/ NoStatus
    <2>1. PICK k \in {"524", "520", "nil"}, e \in Errors : Return(k, <<>>, e)
      BY <1>2, <1>3, BaseTypes DEF NoAnswer, UnknownAnswer, NoStatus
    <2>2. redirects' = redirects /\ (KeepConn \/ Disconnect)
      BY <1>3 DEF NoAnswer, UnknownAnswer, NoStatus
    <2>3. k \in {"nil", "payload", "520", "521", "524"} /\ k # "payload"
      OBVIOUS
    <2>4. /\ conn' \in Conns /\ owed' \in Seq(Bytes)
          /\ conn'.open \/ (conn' = NoConn /\ owed' = <<>>)
          /\ conn'.ended # "no" => owed' = <<>>
      BY <2>2, KeepsOrCloses
    <2> QED
      BY <1>1, <2>1, <2>2, <2>3, <2>4, BaseTypes, Returns
  <1>4. CASE Redirect
    <2>1. redirects' = redirects + 1 /\ redirects < FollowRedirects /\ conn' = conn /\ owed' = owed /\ Enter /\ res' = res
      BY <1>4 DEF Redirect, IsRedirect, MayFollow, KeepConn
    <2>2. tries <= redirects + 1 /\ res.of[1] = req - 1
      BY <1>1 DEF Base, Steps
    <2>3. redirects' \in 0 .. FollowRedirects
      BY <2>1, BaseTypes, Sizes, SMTT(30)
    <2>4. tries <= redirects' /\ res'.of[1] = req' - 1
      BY <1>1, <2>1, <2>2
    <2>5. res' \in Results /\ req' \in 0 .. MaxRequests
      BY <1>1, <2>1, BaseTypes
    <2> QED
      BY <1>1, <2>1, <2>3, <2>4, <2>5, BaseTypes, Enters, Zenon
  <1>5. CASE Answered
    <2>1. Return("payload", buf, err) /\ redirects' = 0 /\ (KeepConn \/ Disconnect)
      BY <1>5 DEF Answered
    <2>2. 0 \in 0 .. FollowRedirects
      BY Sizes
    <2>3. /\ conn' \in Conns /\ owed' \in Seq(Bytes)
          /\ conn'.open \/ (conn' = NoConn /\ owed' = <<>>)
          /\ conn'.ended # "no" => owed' = <<>>
      BY <2>1, KeepsOrCloses
    <2> QED
      BY <1>1, <2>1, <2>2, <2>3, BaseTypes, Returns
  <1> QED
    BY <1>3, <1>4, <1>5 DEF Finish

\* What the server and the network do.
LEMMA BaseNetwork == ASSUME Base, Arrive \/ ServerEnds PROVE Base'
  <1>1. /\ UNCHANGED client /\ answer' = answer /\ faults' \in 0 .. MaxFaults
        /\ conn' \in Conns /\ owed' \in Seq(Bytes) /\ conn'.open
        /\ conn'.ended # "no" => owed' = <<>>
    <2>1. CASE Arrive
      <3>1. owed # <<>> /\ conn.ended = "no"
        BY <2>1, BaseTypes DEF Arrive
      <3>2. conn' = [conn EXCEPT !.in = Append(conn.in, Head(owed))] /\ owed' = Tail(owed)
        BY <2>1 DEF Arrive
      <3>3. Append(conn.in, Head(owed)) \in Seq(Bytes) /\ owed' \in Seq(Bytes)
        BY <3>1, <3>2, MoveOne, BaseTypes
      <3>4. conn' \in Conns /\ conn'.open = conn.open /\ conn'.ended = conn.ended
        BY <3>2, <3>3, BaseTypes DEF Conns
      <3>5. UNCHANGED client /\ answer' = answer /\ faults' = faults
        BY <2>1 DEF Arrive
      <3> QED
        BY <3>1, <3>3, <3>4, <3>5, BaseTypes
    <2>2. CASE ServerEnds
      <3>1. PICK e \in {"eof", "reset"} :
              conn' = [conn EXCEPT !.ended = e, !.in = IF e = "reset" THEN <<>> ELSE conn.in]
        BY <2>2 DEF ServerEnds
      <3>2. conn' \in Conns /\ conn'.open = conn.open
        BY <3>1, BaseTypes DEF Conns
      <3>3. faults' \in 0 .. MaxFaults
        BY <2>2, BaseTypes, Sizes, SMTT(30) DEF ServerEnds
      <3> QED
        BY <2>2, <3>2, <3>3, BaseTypes DEF ServerEnds
    <2> QED
      BY <2>1, <2>2
  <1>2. /\ pc' = pc /\ buf' = buf /\ over' = over /\ frame' = frame /\ got' = got /\ err' = err
        /\ redirects' = redirects /\ res' = res /\ req' = req /\ tries' = tries
    BY <1>1 DEF client
  <1>3. TypeOK'
    BY <1>1, <1>2 DEF Base, TypeOK, Conns
  <1>4. Steps'
    BY <1>1, <1>2, Zenon DEF Base, Steps
  <1>5. RedirectsReset'
    BY <1>2, Zenon DEF Base, RedirectsReset
  <1> QED
    BY <1>3, <1>4, <1>5 DEF Base

\* Base is inductive.
LEMMA BaseStep == Base /\ [Next]_vars => Base'
  <1> SUFFICES ASSUME Base, [Next]_vars PROVE Base'
    OBVIOUS
  <1>1. CASE UNCHANGED vars
    <2>1. /\ pc' = pc /\ buf' = buf /\ over' = over /\ frame' = frame /\ got' = got /\ err' = err
          /\ redirects' = redirects /\ res' = res /\ req' = req /\ tries' = tries
          /\ conn' = conn /\ owed' = owed /\ answer' = answer /\ faults' = faults
      BY <1>1 DEF vars, client
    <2>2. TypeOK'
      BY <2>1 DEF Base, TypeOK
    <2>3. Steps'
      BY <2>1, Zenon DEF Base, Steps
    <2>4. RedirectsReset'
      BY <2>1, Zenon DEF Base, RedirectsReset
    <2> QED
      BY <2>2, <2>3, <2>4 DEF Base
  <1>2. CASE Next
    BY <1>2, BaseSend, BaseIsAlive, BaseDial, BaseHandshake, BaseWrite, BaseReadBuffer,
       BaseReadChunk, BaseFinish, BaseNetwork, Zenon DEF Next, ClientStep
  <1> QED
    BY <1>1, <1>2

(***************************************************************************)
(* A Send leaves a well-formed client behind it, and a count of redirects   *)
(* that is zero unless it failed, for every set of answers and all bounds.  *)
(***************************************************************************)
THEOREM ClientWellFormed == Spec => []ClientInv
  <1>1. Base => ClientInv
    BY DEF Base, ClientInv
  <1> QED
    BY BaseInit, BaseStep, <1>1, PTL DEF Spec

-----------------------------------------------------------------------------
(* Whose answer is read                                                      *)

\* The request that Send is about.
Current == <<req, tries>>

\* The answer to it, while its interim answer is being read, and when that is over.
OwnInterim ==
    /\ answer.interim /\ over = 0 /\ frame = Unknown /\ Len(buf) <= 2
    /\ Begins(buf \o Rest, Interim(answer, Current) \o Final(answer, Current))

OwnFinal ==
    /\ Begins(buf, Final(answer, Current))
    /\ over = 0 => Begins(buf \o Rest, Final(answer, Current))
    /\ over > 0 => \A i \in 1 .. Len(Rest) : Rest[i].part # "H"

\* Between two requests no answer can begin on the connection, whatever is left on it;
\* so if one begins during a request, it is the answer to this request.
Streams ==
    /\ pc \notin {"read", "finish"} => NoStart(buf \o Rest)
    /\ pc \in {"read", "finish"} =>
          NoStart(buf \o Rest) \/ (answer # Silent /\ (OwnInterim \/ OwnFinal))

\* What Streams talks about.
LEMMA StreamTypes ==
  ASSUME Base
  PROVE  /\ Rest \in Seq(Bytes) /\ buf \o Rest \in Seq(Bytes) /\ Current \in Request
         /\ answer # Silent =>
              /\ answer \in Replies /\ Final(answer, Current) \in Seq(Bytes)
              /\ Interim(answer, Current) \o Final(answer, Current) \in Seq(Bytes)
  <1>1. Rest \in Seq(Bytes)
    BY BaseTypes, ConcatProperties DEF Rest
  <1>2. buf \o Rest \in Seq(Bytes)
    BY <1>1, BaseTypes, ConcatProperties
  <1>3. Current \in Request
    BY BaseTypes DEF Current
  <1>4. answer # Silent => answer \in Replies
    BY BaseTypes DEF Replies
  <1>5. answer \in Replies =>
          /\ Final(answer, Current) \in Seq(Bytes)
          /\ Interim(answer, Current) \o Final(answer, Current) \in Seq(Bytes)
    BY <1>3, Owes, EmptySeq
  <1> QED
    BY <1>1, <1>2, <1>3, <1>4, <1>5

\* Nothing is left.
LEMMA Emptied ==
  ASSUME Base', buf' = <<>>, conn'.in = <<>>, owed' = <<>>, pc' \notin {"read", "finish"}
  PROVE  Streams'
  <1>1. <<>> \o <<>> = <<>>
    BY EmptySeq, ConcatEmptySeq
  <1>2. NoStart(buf' \o Rest')
    BY <1>1 DEF NoStart, Rest
  <1> QED
    BY <1>2 DEF Streams

\* The network may take away the end of what is to come.
LEMMA StreamTrim ==
  ASSUME Base, Base', Streams, NEW t \in Seq(Bytes), Rest = Rest' \o t,
         UNCHANGED <<pc, buf, over, frame, req, tries, answer>>
  PROVE  Streams'
  <1>1. PICK r \in Seq(Bytes) : r = Rest'
    <2>1. conn'.in \in Seq(Bytes) /\ owed' \in Seq(Bytes)
      BY DEF Base, TypeOK
    <2> QED
      BY <2>1, ConcatProperties DEF Rest
  <1>2. PICK b \in Seq(Bytes) : b = buf /\ b = buf'
    BY BaseTypes
  <1>3. buf \o Rest = (b \o r) \o t
    BY <1>1, <1>2, ConcatAssociative, SMTT(30)
  <1>4. b \o r \in Seq(Bytes)
    BY ConcatProperties
  <1>5. Current' = Current /\ pc' = pc /\ over' = over /\ frame' = frame /\ answer' = answer
    BY DEF Current
  <1>6. NoStart(buf \o Rest) => NoStart((buf \o Rest)')
    BY <1>1, <1>2, <1>3, <1>4, Shorter
  <1>7. ASSUME answer # Silent, OwnInterim PROVE OwnInterim'
    <2>1. PICK w \in Seq(Bytes) : w = Interim(answer, Current) \o Final(answer, Current)
      BY <1>7, StreamTypes
    <2>2. Begins((b \o r) \o t, w)
      BY <1>3, <1>7, <2>1 DEF OwnInterim
    <2>3. Begins(b \o r, w)
      BY <1>4, <2>2, Shorter
    <2> QED
      BY <1>1, <1>2, <1>5, <1>7, <2>1, <2>3 DEF OwnInterim
  <1>8. ASSUME answer # Silent, OwnFinal PROVE OwnFinal'
    <2>1. PICK w \in Seq(Bytes) : w = Final(answer, Current)
      BY <1>8, StreamTypes
    <2>2. over = 0 => Begins(b \o r, w)
      BY <1>3, <1>4, <1>8, <2>1, Shorter DEF OwnFinal
    <2>3. over > 0 => \A i \in 1 .. Len(r) : r[i].part # "H"
      <3>1. PICK u \in Seq(Bytes) : u = Rest
        BY StreamTypes
      <3>2. \A i \in 1 .. Len(r) : i \in 1 .. Len(u) /\ r[i] = u[i]
        BY <1>1, <3>1
      <3> QED
        BY <1>8, <3>1, <3>2 DEF OwnFinal
    <2> QED
      BY <1>1, <1>2, <1>5, <1>8, <2>1, <2>2, <2>3 DEF OwnFinal
  <1> QED
    BY <1>5, <1>6, <1>7, <1>8 DEF Streams

\* An interim answer is removed whole, and what is read of the final one continues
\* the buffer.
LEMMA StreamsReadBuffer == ASSUME Base, Base', Streams, ReadBuffer PROVE Streams'
  <1>1. /\ pc = "read" /\ over = 0 /\ over' = 0 /\ req' = req /\ tries' = tries /\ answer' = answer
    BY BufferRead
  <1>2. PICK d, n, e, c, b :
           /\ Took(d, n, e, c) /\ b \in Seq(Bytes) /\ Len(b) = Len(buf) + n
           /\ b \o (c.in \o owed) = buf \o Rest
           /\ Soaked(b, c) \/ \E f : Buffered(b, n, e, f, c)
    BY BufferRead
  <1>3. PICK r \in Seq(Bytes) : r = c.in \o owed
    <2>1. c.in \in Seq(Bytes)
      BY <1>2 DEF Took, Conns
    <2> QED
      BY <2>1, BaseTypes, ConcatProperties
  <1>4. buf \o Rest = b \o r
    BY <1>2, <1>3
  <1>5. Current' = Current
    BY <1>1 DEF Current
  <1>6. NoStart(b \o r) \/ (answer # Silent /\ (OwnInterim \/ OwnFinal))
    BY <1>1, <1>4 DEF Streams
  <1>7. ASSUME answer # Silent
        PROVE  /\ answer \in Replies /\ Current \in Request /\ Final(answer, Current) \in Seq(Bytes)
               /\ Interim(answer, Current) \o Final(answer, Current) \in Seq(Bytes)
    BY <1>7, StreamTypes
  <1>8. CASE Soaked(b, c)
    <2>1. FirstEmptyLine(b) # 0 /\ StatusOf(b) = "1xx" /\ buf' = SubSeq(b, FirstEmptyLine(b) + 1, Len(b))
      BY <1>8 DEF Soaked, Soak, Headers
    <2>2. pc' = pc /\ conn' = c /\ owed' = owed
      BY <1>8 DEF Soaked
    <2>3. ~NoStart(b \o r)
      <3>1. Len(b) > 2 /\ b[1].part = "H"
        BY <2>1 DEF StatusOf, HasTitle
      <3>2. b # <<>>
        BY <3>1, EmptySeq
      <3>3. ~NoStart(b)
        BY <3>1, <3>2 DEF NoStart
      <3> QED
        BY <1>2, <3>3, Shorter
    <2>4. answer # Silent
      BY <1>6, <2>3
    <2>5. ~OwnFinal
      <3>1. ASSUME OwnFinal PROVE FALSE
        <4>1. Begins(b \o r, Final(answer, Current))
          BY <1>1, <1>4, <3>1 DEF OwnFinal
        <4>2. Begins(b, Final(answer, Current))
          BY <1>2, <1>7, <2>4, <4>1, Shorter
        <4> QED
          BY <1>2, <1>7, <2>1, <2>4, <4>2, FinalBegins
      <3> QED
        BY <3>1
    <2>6. answer.interim /\ Begins(b \o r, Interim(answer, Current) \o Final(answer, Current))
      BY <1>4, <1>6, <2>3, <2>5 DEF OwnInterim
    <2>7. Len(b) >= 3
      <3>1. Len(b) < 3 => FirstEmptyLine(b) = 0
        BY <1>2, <1>7, <2>4, <2>6, InterimBegins
      <3>2. Len(b) \in Nat
        BY <1>2
      <3> QED
        BY <2>1, <3>1, <3>2
    <2>8. /\ FirstEmptyLine(b) = 3 /\ SubSeq(b, 4, Len(b)) \in Seq(Bytes)
          /\ Begins(SubSeq(b, 4, Len(b)) \o r, Final(answer, Current))
      BY <1>2, <1>7, <2>4, <2>6, <2>7, InterimBegins
    <2>9. FirstEmptyLine(b) + 1 = 4
      BY <2>8
    <2>10. buf' \in Seq(Bytes) /\ Begins(buf' \o r, Final(answer, Current))
      BY <2>1, <2>8, <2>9
    <2>11. Begins(buf', Final(answer, Current))
      BY <1>7, <2>4, <2>10, Shorter
    <2>12. Rest' = r
      BY <1>3, <2>2 DEF Rest
    <2>13. OwnFinal'
      BY <1>1, <1>5, <2>10, <2>11, <2>12 DEF OwnFinal
    <2> QED
      BY <1>1, <2>2, <2>4, <2>13 DEF Streams
  <1>9. CASE \E f : Buffered(b, n, e, f, c)
    <2>1. PICK f : Buffered(b, n, e, f, c)
      BY <1>9
    <2>2. buf' = b /\ pc' \in {"read", "finish"}
      BY <2>1 DEF Buffered, Loop
    <2>3. PICK q \in Seq(Bytes) : q = Rest'
      <3>1. conn'.in \in Seq(Bytes) /\ owed' \in Seq(Bytes)
        BY DEF Base, TypeOK
      <3> QED
        BY <3>1, ConcatProperties DEF Rest
    <2>4. PICK t \in Seq(Bytes) : r = q \o t
      <3>1. CASE conn' = c /\ owed' = owed
        <4>1. q = r /\ <<>> \in Seq(Bytes)
          BY <1>3, <2>3, <3>1, EmptySeq DEF Rest
        <4> QED
          BY <4>1, ConcatEmptySeq
      <3>2. CASE Disconnect
        <4>1. conn'.in = <<>> /\ owed' = <<>>
          BY <3>2 DEF Disconnect, NoConn
        <4>2. q = <<>>
          BY <2>3, <4>1, EmptySeq, ConcatEmptySeq DEF Rest
        <4> QED
          BY <4>2, ConcatEmptySeq
      <3> QED
        BY <2>1, <3>1, <3>2 DEF Buffered, Leaves
    <2>5. b \o r = (b \o q) \o t /\ b \o q \in Seq(Bytes)
      <3>1. b \in Seq(Bytes)
        BY <1>2
      <3>2. (b \o q) \o t = b \o (q \o t)
        BY <3>1, ConcatAssociative, SMTT(30)
      <3>3. b \o q \in Seq(Bytes)
        BY <3>1, ConcatProperties
      <3> QED
        BY <2>4, <3>2, <3>3
    <2>6. NoStart(b \o r) => NoStart((buf \o Rest)')
      BY <2>2, <2>3, <2>5, Shorter
    <2>7. ASSUME answer # Silent, OwnInterim PROVE OwnInterim'
      <3>1. PICK w \in Seq(Bytes) : w = Interim(answer, Current) \o Final(answer, Current)
        BY <1>7, <2>7
      <3>2. answer.interim /\ frame = Unknown /\ Begins(b \o r, w)
        BY <1>4, <2>7, <3>1 DEF OwnInterim
      <3>3. Begins(b \o q, w)
        BY <2>5, <3>1, <3>2, Shorter
      <3>4. Len(b) < 3
        <4>1. Len(b) >= 3 => FirstEmptyLine(b) = 3 /\ StatusOf(b) = "1xx"
          BY <1>2, <1>7, <2>7, <3>1, <3>2, InterimBegins
        <4>2. ~(FirstEmptyLine(b) = 3 /\ StatusOf(b) = "1xx")
          BY <2>1, <3>2 DEF Buffered, Headers
        <4> QED
          BY <1>2, <4>1, <4>2
      <3>5. FirstEmptyLine(b) = 0
        BY <1>2, <1>7, <2>7, <3>1, <3>2, <3>4, InterimBegins
      <3>6. frame' = Unknown
        BY <2>1, <3>2, <3>5 DEF Buffered, Headers, Bodyless
      <3>7. Len(b) <= 2
        BY <1>2, <3>4
      <3> QED
        BY <1>1, <1>5, <2>2, <2>3, <3>1, <3>2, <3>3, <3>6, <3>7 DEF OwnInterim
    <2>8. ASSUME answer # Silent, OwnFinal PROVE OwnFinal'
      <3>1. PICK w \in Seq(Bytes) : w = Final(answer, Current)
        BY <1>7, <2>8
      <3>2. Begins(b \o r, w)
        BY <1>1, <1>4, <2>8, <3>1 DEF OwnFinal
      <3>3. Begins(b \o q, w)
        BY <2>5, <3>1, <3>2, Shorter
      <3>4. Begins(b, w)
        BY <1>2, <3>1, <3>3, Shorter
      <3> QED
        BY <1>1, <1>5, <2>2, <2>3, <3>1, <3>3, <3>4 DEF OwnFinal
    <2> QED
      BY <1>1, <1>6, <2>2, <2>6, <2>7, <2>8 DEF Streams
  <1> QED
    BY <1>2, <1>8, <1>9

\* Concatenation of parts, with a name that the provers do not expand.
Cat(s, t) == s \o t

\* It is associative.
LEMMA CatAssociative ==
  /\ \A s, t \in Seq(Bytes) : Cat(s, t) \in Seq(Bytes)
  /\ \A s, t, u \in Seq(Bytes) : Cat(Cat(s, t), u) = Cat(s, Cat(t, u))
  BY ConcatAssociative, ConcatProperties DEF Cat

\* What is thrown away belongs to an answer that has begun before.
LEMMA StreamsReadChunk == ASSUME Base, Base', Streams, ReadChunk PROVE Streams'
  <1>1. /\ pc = "read" /\ Len(buf) = BufLen /\ buf' = buf
        /\ req' = req /\ tries' = tries /\ answer' = answer
    BY ChunkRead
  <1>2. PICK d, n, e, c : Took(d, n, e, c) /\ n \in Nat /\ Thrown(d, n, e, c)
    BY ChunkRead
  <1>3. Current' = Current /\ pc' \in {"read", "finish"} /\ over' = over + n
    BY <1>1, <1>2 DEF Current, Thrown, Loop
  <1>4. PICK b \in Seq(Bytes) : b = buf /\ b # <<>> /\ Len(b) >= 1
    <2>1. Len(buf) >= 1 /\ buf # <<>>
      BY <1>1, BaseTypes, Sizes, EmptySeq
    <2> QED
      BY <2>1, BaseTypes
  <1>5. PICK r \in Seq(Bytes) : r = Rest
    BY StreamTypes
  <1>6. PICK q \in Seq(Bytes) : q = Rest'
    <2>1. conn'.in \in Seq(Bytes) /\ owed' \in Seq(Bytes)
      BY DEF Base, TypeOK
    <2> QED
      BY <2>1, ConcatProperties DEF Rest
  <1>7. /\ q = <<>> \/ \E v \in Seq(Bytes) : r = v \o q
        /\ n = 0 => q = <<>> \/ q = r
        /\ frame = Unknown => q = <<>>
    <2>1. CASE conn' = c /\ owed' = owed /\ frame # Unknown
      <3>1. d \in Seq(Bytes) /\ d \o q = r /\ n = Len(d)
        BY <1>2, <1>5, <1>6, <2>1 DEF Took, Rest
      <3>2. n = 0 => d = <<>>
        BY <3>1, EmptySeq
      <3>3. d = <<>> => q = r
        BY <3>1, ConcatEmptySeq
      <3> QED
        BY <2>1, <3>1, <3>2, <3>3
    <2>2. CASE Disconnect
      <3>1. conn'.in = <<>> /\ owed' = <<>>
        BY <2>2 DEF Disconnect, NoConn
      <3> QED
        BY <1>6, <3>1, EmptySeq, ConcatEmptySeq DEF Rest
    <2> QED
      BY <1>2, <2>1, <2>2 DEF Thrown, Leaves
  <1>8. NoStart(b \o r) => NoStart(b \o q)
    <2>1. NoStart(b \o r) => NoStart(b)
      BY Shorter
    <2>2. PICK u \in Seq(Bytes) : u = b \o q
      BY ConcatProperties
    <2>3. u[1] = b[1]
      <3>1. 1 \in 1 .. Len(b)
        BY <1>4
      <3> QED
        BY <2>2, <3>1
    <2> QED
      BY <1>4, <2>1, <2>2, <2>3 DEF NoStart
  <1>9. ASSUME answer # Silent, OwnInterim \/ OwnFinal PROVE OwnFinal'
    <2>1. answer \in Replies /\ Current \in Request
      BY <1>9, StreamTypes
    <2>2. PICK F \in Seq(Bytes) : F = Final(answer, Current)
      BY <1>9, StreamTypes
    <2>3. Begins(b, F)
      <3>1. CASE OwnInterim
        <4>1. answer.interim /\ Len(b) < 3 /\ Begins(b \o r, Interim(answer, Current) \o Final(answer, Current))
          BY <1>4, <1>5, <3>1 DEF OwnInterim
        <4> QED
          BY <2>1, <2>2, <4>1, InterimBegins
      <3>2. CASE OwnFinal
        BY <1>4, <2>2, <3>2 DEF OwnFinal
      <3> QED
        BY <1>9, <3>1, <3>2
    <2>4. over' = 0 => Begins(b \o q, F)
      <3> SUFFICES ASSUME over' = 0 PROVE Begins(b \o q, F)
        OBVIOUS
      <3>1. over = 0 /\ n = 0
        BY <1>2, <1>3, BaseTypes, SMTT(30)
      <3>2. CASE q = <<>>
        <4>1. b \o q = b
          BY <3>2, ConcatEmptySeq
        <4> QED
          BY <2>3, <4>1
      <3>3. CASE q # <<>>
        <4>1. q = r /\ frame # Unknown
          BY <1>7, <3>1, <3>3
        <4>2. OwnFinal
          BY <1>9, <4>1 DEF OwnInterim
        <4> QED
          BY <1>4, <1>5, <2>2, <3>1, <4>1, <4>2 DEF OwnFinal
      <3> QED
        BY <3>2, <3>3
    <2>5. \A i \in 1 .. Len(q) : q[i].part # "H"
      <3>1. CASE q = <<>>
        BY <3>1, EmptySeq
      <3>2. CASE q # <<>>
        <4>1. frame # Unknown
          BY <1>7, <3>2
        <4>2. OwnFinal
          BY <1>9, <4>1 DEF OwnInterim
        <4>3. \A i \in 1 .. Len(r) : r[i].part # "H"
          <5>1. CASE over > 0
            BY <1>5, <4>2, <5>1 DEF OwnFinal
          <5>2. CASE ~(over > 0)
            <6>1. over = 0
              BY <5>2, BaseTypes
            <6>2. Begins(b \o r, F)
              BY <1>4, <1>5, <2>2, <4>2, <6>1 DEF OwnFinal
            <6>3. Len(b) + Len(r) <= Len(F) /\ \A i \in 1 .. Len(r) : r[i] = F[Len(b) + i]
              BY <6>2, Continues
            <6>4. Begins(F, F)
              BY DEF Begins
            <6>5. \A i \in 2 .. Len(F) : F[i].part # "H"
              BY <2>1, <2>2, <6>4, FinalBegins
            <6>6. \A i \in 1 .. Len(r) : Len(b) + i \in 2 .. Len(F)
              BY <1>4, <6>3
            <6> QED
              BY <6>3, <6>5, <6>6
          <5> QED
            BY <5>1, <5>2
        <4>4. PICK v \in Seq(Bytes) : r = v \o q
          BY <1>7, <3>2
        <4>5. \A i \in 1 .. Len(q) : Len(v) + i \in 1 .. Len(r) /\ q[i] = r[Len(v) + i]
          BY <4>4
        <4> QED
          BY <4>3, <4>5
      <3> QED
        BY <3>1, <3>2
    <2> QED
      BY <1>1, <1>3, <1>4, <1>6, <2>2, <2>3, <2>4, <2>5 DEF OwnFinal
  <1> QED
    BY <1>1, <1>3, <1>4, <1>5, <1>6, <1>8, <1>9 DEF Streams

\* What is written goes to the end of the stream.
LEMMA Written ==
  ASSUME Base, NEW a \in Replies
  PROVE  buf \o (conn.in \o (owed \o Interim(a, Current) \o Final(a, Current)))
           = (buf \o (conn.in \o owed)) \o (Interim(a, Current) \o Final(a, Current))
  <1>1. PICK F \in Seq(Bytes) : F = Final(a, Current)
    BY FinalParts, StreamTypes
  <1>2. PICK I \in Seq(Bytes) : I = Interim(a, Current)
    BY InterimParts, StreamTypes
  <1>3. PICK b \in Seq(Bytes) : b = buf
    BY BaseTypes
  <1>4. PICK i \in Seq(Bytes) : i = conn.in
    BY BaseTypes
  <1>5. PICK o \in Seq(Bytes) : o = owed
    BY BaseTypes
  <1>6. Cat(b, Cat(i, Cat(Cat(o, I), F))) = Cat(Cat(b, Cat(i, o)), Cat(I, F))
    <2>1. PICK w \in Seq(Bytes) : w = Cat(I, F)
      BY CatAssociative
    <2>2. PICK v \in Seq(Bytes) : v = Cat(i, o)
      BY CatAssociative
    <2>3. Cat(Cat(o, I), F) = Cat(o, w)
      BY <2>1, CatAssociative
    <2>4. Cat(i, Cat(o, w)) = Cat(v, w)
      BY <2>2, CatAssociative
    <2>5. Cat(b, Cat(v, w)) = Cat(Cat(b, v), w)
      BY CatAssociative
    <2> QED
      BY <2>1, <2>2, <2>3, <2>4, <2>5, Zenon
  <1> QED
    BY <1>1, <1>2, <1>3, <1>4, <1>5, <1>6, Zenon DEF Cat

\* An empty stream has empty parts.
LEMMA EmptyParts ==
  ASSUME NEW b \in Seq(Bytes), NEW r \in Seq(Bytes), b \o r = <<>>
  PROVE  b = <<>> /\ r = <<>>
  <1>1. PICK u \in Seq(Bytes) : u = b \o r /\ Len(u) = Len(b) + Len(r)
    BY ConcatProperties
  <1>2. Len(u) = 0 /\ Len(b) \in Nat /\ Len(r) \in Nat
    BY <1>1, EmptySeq
  <1>3. Len(b) = 0 /\ Len(r) = 0
    BY <1>1, <1>2
  <1> QED
    BY <1>3, EmptySeq

\* The answer comes behind what was left on the connection: it begins the stream
\* only if nothing was.
LEMMA StreamsWrite == ASSUME Base, Base', Streams, Write PROVE Streams'
  <1>1. pc = "write" /\ over = 0 /\ frame = Unknown
    BY DEF Write, Base, Steps
  <1>2. ASSUME NEW a \in ServerAnswers, answer' = a,
               owed' = IF a = Silent THEN owed
                       ELSE owed \o Interim(a, <<req, tries>>) \o Final(a, <<req, tries>>),
               pc' = "read",
               UNCHANGED <<conn, buf, over, frame, got, err, redirects, res, req, tries, faults>>
        PROVE  Streams'
    <2>1. PICK b \in Seq(Bytes) : b = buf /\ b = buf'
      BY <1>2, BaseTypes
    <2>2. PICK r \in Seq(Bytes) : r = Rest
      BY StreamTypes
    <2>3. NoStart(b \o r)
      BY <1>1, <2>1, <2>2 DEF Streams
    <2>4. CASE a = Silent
      <3>1. Rest' = Rest
        BY <1>2, <2>4 DEF Rest
      <3>2. NoStart((buf \o Rest)')
        BY <2>1, <2>2, <2>3, <3>1
      <3> QED
        BY <1>2, <3>2 DEF Streams
    <2>5. CASE a # Silent
      <3>1. a \in Replies /\ Current \in Request
        BY <2>5, StreamTypes DEF ServerAnswers, Replies
      <3>2. PICK F \in Seq(Bytes) : F = Final(a, Current)
        BY <3>1, FinalParts
      <3>3. PICK w \in Seq(Bytes) : w = Interim(a, Current) \o F
        BY <3>1, <3>2, InterimParts, ConcatProperties
      <3>4. PICK u \in Seq(Bytes) : u = b \o r
        BY ConcatProperties
      <3>8. (buf \o Rest)' = u \o w
        <4>1. owed' = owed \o Interim(a, Current) \o Final(a, Current)
          BY <1>2, <2>5 DEF Current
        <4>2. (buf \o Rest)' = buf \o (conn.in \o owed')
          BY <1>2 DEF Rest
        <4>3. buf \o (conn.in \o (owed \o Interim(a, Current) \o Final(a, Current)))
                = (buf \o (conn.in \o owed)) \o (Interim(a, Current) \o Final(a, Current))
          BY <3>1, Written
        <4> QED
          BY <2>1, <2>2, <3>2, <3>3, <3>4, <4>1, <4>2, <4>3 DEF Rest
      <3>9. CASE u # <<>>
        <4>1. u[1].part # "H" /\ Len(u) >= 1
          BY <2>3, <3>4, <3>9, EmptySeq DEF NoStart
        <4>2. PICK x \in Seq(Bytes) : x = u \o w
          BY ConcatProperties
        <4>3. x[1] = u[1]
          BY <4>1, <4>2
        <4>4. NoStart(x)
          BY <4>1, <4>3 DEF NoStart
        <4> QED
          BY <1>2, <3>8, <4>2, <4>4 DEF Streams
      <3>10. CASE u = <<>>
        <4>1. (buf \o Rest)' = w
          BY <3>8, <3>10, ConcatEmptySeq
        <4>2. b = <<>>
          BY <3>4, <3>10, EmptyParts
        <4>3. Len(b) = 0
          BY <4>2, EmptySeq
        <4>4. Current' = Current /\ over' = 0 /\ frame' = Unknown
          BY <1>1, <1>2 DEF Current
        <4>5. CASE a.interim
          <5>1. Begins(w, w)
            BY DEF Begins
          <5>2. OwnInterim'
            BY <1>2, <2>1, <3>2, <3>3, <4>1, <4>3, <4>4, <4>5, <5>1 DEF OwnInterim
          <5> QED
            BY <1>2, <2>5, <5>2 DEF Streams
        <4>6. CASE ~a.interim
          <5>1. w = F
            BY <3>1, <3>3, <4>6, InterimParts, ConcatEmptySeq
          <5>2. Begins(F, F) /\ Begins(b, F)
            BY <4>3 DEF Begins
          <5>3. OwnFinal'
            BY <1>2, <2>1, <3>2, <4>1, <4>4, <5>1, <5>2 DEF OwnFinal
          <5> QED
            BY <1>2, <2>5, <5>3 DEF Streams
        <4> QED
          BY <4>5, <4>6
      <3> QED
        BY <3>9, <3>10
    <2> QED
      BY <2>4, <2>5
  <1>3. CASE Disconnect /\ Return("524", <<>>, "error")
    <2>1. conn'.in = <<>> /\ owed' = <<>> /\ buf' = <<>> /\ pc' = "idle"
      BY <1>3 DEF Disconnect, NoConn, Return
    <2> QED
      BY <2>1, Emptied
  <1> QED
    BY <1>2, <1>3 DEF Write

\* When something that begins like an answer has been read, it is the answer to the
\* current request, and nothing that is left on the connection begins like one.
LEMMA OwnAnswerRead ==
  ASSUME Base, Streams, pc \in {"read", "finish"}, buf # <<>>, buf[1].part = "H"
  PROVE  /\ answer # Silent /\ answer \in Replies /\ (OwnInterim \/ OwnFinal)
         /\ Begins(buf, Final(answer, Current)) /\ NoStart(Rest)
  <1>1. PICK b \in Seq(Bytes) : b = buf /\ Len(b) >= 1
    BY BaseTypes, EmptySeq
  <1>2. PICK r \in Seq(Bytes) : r = Rest
    BY StreamTypes
  <1>3. ~NoStart(b \o r)
    <2>1. ~NoStart(b)
      BY <1>1 DEF NoStart
    <2> QED
      BY <2>1, Shorter
  <1>4. answer # Silent /\ (OwnInterim \/ OwnFinal)
    BY <1>1, <1>2, <1>3 DEF Streams
  <1>5. answer \in Replies /\ Current \in Request
    BY <1>4, StreamTypes
  <1>6. PICK F \in Seq(Bytes) : F = Final(answer, Current)
    BY <1>4, StreamTypes
  <1>7. CASE OwnInterim
    <2>1. answer.interim /\ Len(b) <= 2 /\ Begins(b \o r, Interim(answer, Current) \o Final(answer, Current))
      BY <1>1, <1>2, <1>7 DEF OwnInterim
    <2>2. Len(b) < 3 /\ b # <<>>
      BY <1>1, <2>1
    <2>3. Begins(b, F) /\ NoStart(r)
      BY <1>5, <1>6, <2>1, <2>2, InterimBegins
    <2> QED
      BY <1>1, <1>2, <1>4, <1>5, <1>6, <2>3
  <1>8. CASE OwnFinal
    <2>1. Begins(b, F)
      BY <1>1, <1>6, <1>8 DEF OwnFinal
    <2>2. ASSUME r # <<>> PROVE r[1].part # "H"
      <3>1. 1 \in 1 .. Len(r)
        BY <2>2, EmptySeq
      <3>2. CASE over > 0
        BY <1>2, <1>8, <3>1, <3>2 DEF OwnFinal
      <3>3. CASE ~(over > 0)
        <4>1. over = 0
          BY <3>3, BaseTypes
        <4>2. Begins(b \o r, F)
          BY <1>1, <1>2, <1>6, <1>8, <4>1 DEF OwnFinal
        <4>3. Len(b) + Len(r) <= Len(F) /\ r[1] = F[Len(b) + 1]
          BY <3>1, <4>2, Continues
        <4>4. Len(b) + 1 \in 2 .. Len(F)
          BY <1>1, <3>1, <4>3
        <4>5. Begins(F, F)
          BY DEF Begins
        <4>6. \A i \in 2 .. Len(F) : F[i].part # "H"
          BY <1>5, <1>6, <4>5, FinalBegins
        <4> QED
          BY <4>3, <4>4, <4>6
      <3> QED
        BY <3>2, <3>3
    <2>3. NoStart(r)
      BY <2>2 DEF NoStart
    <2> QED
      BY <1>1, <1>2, <1>4, <1>5, <1>6, <2>1, <2>3
  <1> QED
    BY <1>4, <1>7, <1>8

\* Finish with an answer.
LEMMA FinishedOwn ==
  ASSUME Base, Streams, pc = "finish", IsHTTP
  PROVE  answer \in Replies /\ Begins(buf, Final(answer, Current)) /\ NoStart(Rest)
  <1>1. Len(buf) > 1 /\ buf[1].part = "H"
    BY DEF IsHTTP
  <1>2. buf # <<>>
    BY <1>1, EmptySeq
  <1> QED
    BY <1>1, <1>2, OwnAnswerRead

\* Only an answer that has begun is returned or followed with the connection kept.
LEMMA StreamsFinish == ASSUME Base, Base', Streams, Finish PROVE Streams'
  <1>1. pc = "finish"
    BY DEF Finish
  <1>2. CASE NoAnswer \/ UnknownAnswer
    <2>1. conn'.in = <<>> /\ owed' = <<>> /\ buf' = <<>> /\ pc' = "idle"
      BY <1>2 DEF NoAnswer, UnknownAnswer, Disconnect, NoConn, Return
    <2> QED
      BY <2>1, Emptied
  <1>3. ASSUME IsHTTP, KeepConn, buf' = <<>>, pc' \notin {"read", "finish"} PROVE Streams'
    <2>1. NoStart(Rest) /\ Rest' = Rest
      BY <1>1, <1>3, FinishedOwn DEF KeepConn, Rest
    <2>2. Rest \in Seq(Bytes)
      BY StreamTypes
    <2>3. <<>> \o Rest = Rest
      BY <2>2, ConcatEmptySeq
    <2>4. NoStart(buf' \o Rest')
      BY <1>3, <2>1, <2>3
    <2> QED
      BY <1>3, <2>4 DEF Streams
  <1>4. CASE NoStatus \/ Redirect
    BY <1>3, <1>4 DEF NoStatus, Redirect, IsRedirect, Return, Enter
  <1>5. CASE Answered
    <2>1. CASE KeepConn
      BY <1>3, <1>5, <2>1 DEF Answered, Return
    <2>2. CASE Disconnect
      <3>1. conn'.in = <<>> /\ owed' = <<>> /\ buf' = <<>> /\ pc' = "idle"
        BY <1>5, <2>2 DEF Answered, Disconnect, NoConn, Return
      <3> QED
        BY <3>1, Emptied
    <2> QED
      BY <1>5, <2>1, <2>2 DEF Answered
  <1> QED
    BY <1>2, <1>4, <1>5 DEF Finish

\* The network neither adds to the stream nor reorders it.
LEMMA StreamsNetwork == ASSUME Base, Base', Streams, Arrive \/ ServerEnds PROVE Streams'
  <1>1. UNCHANGED <<pc, buf, over, frame, req, tries, answer>>
    BY DEF Arrive, ServerEnds, client
  <1>2. PICK i \in Seq(Bytes) : i = conn.in
    BY BaseTypes
  <1>3. PICK o \in Seq(Bytes) : o = owed
    BY BaseTypes
  <1>4. CASE Arrive
    <2>1. o # <<>> /\ conn' = [conn EXCEPT !.in = Append(i, Head(o))] /\ owed' = Tail(o)
      BY <1>2, <1>3, <1>4 DEF Arrive
    <2>2. conn'.in = Append(i, Head(o))
      BY <2>1, BaseTypes DEF Conns
    <2>3. Append(i, Head(o)) \o Tail(o) = i \o o
      BY <2>1, MoveOne
    <2>4. Rest' = Rest
      BY <1>2, <1>3, <2>1, <2>2, <2>3 DEF Rest
    <2>5. Rest = Rest' \o <<>> /\ <<>> \in Seq(Bytes)
      BY <2>4, StreamTypes, ConcatEmptySeq, EmptySeq
    <2> QED
      BY <1>1, <2>5, StreamTrim
  <1>5. CASE ServerEnds
    <2>1. PICK e \in {"eof", "reset"} :
             conn' = [conn EXCEPT !.ended = e, !.in = IF e = "reset" THEN <<>> ELSE i]
      BY <1>2, <1>5 DEF ServerEnds
    <2>2. conn'.in = IF e = "reset" THEN <<>> ELSE i
      BY <2>1, BaseTypes DEF Conns
    <2>3. owed' = <<>>
      BY <1>5 DEF ServerEnds
    <2>4. CASE e = "reset"
      <3>1. Rest' = <<>>
        BY <2>2, <2>3, <2>4, EmptySeq, ConcatEmptySeq DEF Rest
      <3>2. Rest = Rest' \o Rest /\ Rest \in Seq(Bytes)
        BY <3>1, StreamTypes, ConcatEmptySeq
      <3> QED
        BY <1>1, <3>2, StreamTrim
    <2>5. CASE e # "reset"
      <3>1. Rest' = i
        BY <2>2, <2>3, <2>5, ConcatEmptySeq DEF Rest
      <3>2. Rest = Rest' \o o
        BY <1>2, <1>3, <3>1 DEF Rest
      <3> QED
        BY <1>1, <3>2, StreamTrim
    <2> QED
      BY <2>4, <2>5
  <1> QED
    BY <1>4, <1>5

\* The steps before a request is written.
LEMMA StreamsBefore ==
  ASSUME Base, Base', Streams, Send \/ isAlive \/ Dial \/ Handshake
  PROVE  Streams'
  <1>1. pc \in {"idle", "alive", "dial", "handshake"}
    BY DEF Send, isAlive, Dial, Handshake
  <1>2. buf = <<>>
    BY <1>1 DEF Base, Steps
  <1>3. NoStart(buf \o Rest)
    BY <1>1 DEF Streams
  <1>4. ASSUME buf' \o Rest' = buf \o Rest, pc' \notin {"read", "finish"} PROVE Streams'
    BY <1>3, <1>4 DEF Streams
  <1>5. CASE Send
    <2>1. buf' = <<>> /\ Rest' = Rest /\ pc' \in {"alive", "dial"}
      BY <1>5 DEF Send, Enter, KeepConn, Rest
    <2> QED
      BY <1>2, <1>4, <2>1
  <1>6. CASE isAlive
    <2>1. owed' = owed
      BY <1>6 DEF isAlive
    <2>1a. PICK r \in ReadUpTo(1) :
              IF r.err = "EOF" THEN pc' = "dial" /\ UNCHANGED <<conn, buf>>
              ELSE pc' = "write" /\ buf' = r.data /\ conn' = After(Len(r.data))
      BY <1>6 DEF isAlive
    <2>2. CASE r.err = "EOF"
      <3>1. pc' = "dial" /\ conn' = conn /\ buf' = buf
        BY <2>1a, <2>2
      <3> QED
        BY <1>4, <2>1, <3>1 DEF Rest
    <2>3. CASE r.err # "EOF"
      <3>1. PICK d : d = r.data
        OBVIOUS
      <3>2. pc' = "write" /\ buf' = d /\ conn' = After(Len(d))
        BY <2>1a, <2>3, <3>1
      <3>3. Took(d, Len(d), r.err, After(Len(d)))
        BY <3>1, Takes, BaseTypes
      <3>4. buf' \o Rest' = Rest
        BY <2>1, <3>2, <3>3 DEF Took, Rest
      <3>5. <<>> \o Rest = Rest
        BY StreamTypes, ConcatEmptySeq
      <3> QED
        BY <1>2, <1>4, <3>2, <3>4, <3>5
    <2> QED
      BY <2>2, <2>3
  <1>7. CASE Dial
    <2>1. conn'.in = <<>> /\ owed' = <<>>
      BY <1>7 DEF Dial, NoConn
    <2>2. buf' = <<>> /\ pc' \in {"handshake", "idle"}
      BY <1>2, <1>7 DEF Dial, Return
    <2> QED
      BY <2>1, <2>2, Emptied
  <1>8. CASE Handshake
    <2>1. conn'.in = conn.in /\ owed' = owed
      BY <1>8, BaseTypes DEF Handshake, KeepConn, Conns
    <2>2. buf' = <<>> /\ pc' \in {"write", "idle"}
      BY <1>2, <1>8 DEF Handshake, Return
    <2>3. Rest' = Rest
      BY <2>1 DEF Rest
    <2> QED
      BY <1>2, <1>4, <2>2, <2>3
  <1> QED
    BY <1>5, <1>6, <1>7, <1>8

\* Streams is inductive relative to Base.
LEMMA StreamsStep == Base /\ Streams /\ [Next]_vars => Streams'
  <1> SUFFICES ASSUME Base, Streams, [Next]_vars PROVE Streams'
    OBVIOUS
  <1>1. Base'
    BY BaseStep
  <1>2. CASE UNCHANGED vars
    <2>1. UNCHANGED <<pc, buf, over, frame, req, tries, answer>> /\ Rest' = Rest
      BY <1>2 DEF vars, client, Rest
    <2>2. Rest = Rest' \o <<>> /\ <<>> \in Seq(Bytes)
      BY <2>1, StreamTypes, ConcatEmptySeq, EmptySeq
    <2> QED
      BY <1>1, <2>1, <2>2, StreamTrim
  <1>3. CASE Next
    BY <1>1, <1>3, StreamsBefore, StreamsWrite, StreamsReadBuffer, StreamsReadChunk,
       StreamsFinish, StreamsNetwork, Zenon DEF Next, ClientStep
  <1> QED
    BY <1>2, <1>3

\* Streams holds of a new client.
LEMMA StreamsInit == NewHTTPClient => Streams
  <1> SUFFICES ASSUME NewHTTPClient PROVE Streams
    OBVIOUS
  <1>1. <<>> \o <<>> = <<>>
    BY EmptySeq, ConcatEmptySeq
  <1>2. buf \o Rest = <<>> /\ pc = "idle"
    BY <1>1 DEF NewHTTPClient, NoConn, Rest
  <1> QED
    BY <1>2 DEF Streams, NoStart

\* An answer is returned by the step that ends a Send and is not touched until the next.
LEMMA OwnAnswerStep == Base /\ Streams /\ OwnAnswer /\ [Next]_vars => OwnAnswer'
  <1> SUFFICES ASSUME Base, Streams, OwnAnswer, [Next]_vars, pc' = "idle", res'.kind = "payload"
               PROVE  IsPrefix(res'.payload, Final(answer', res'.of))
    BY DEF OwnAnswer
  <1>1. CASE pc' = pc /\ res' = res /\ answer' = answer
    BY <1>1, Zenon DEF OwnAnswer
  <1>2. CASE Finish
    <2>1. Answered
      BY <1>2 DEF Finish, NoAnswer, UnknownAnswer, NoStatus, Redirect, Return, Enter
    <2>2. IsHTTP /\ res'.payload = buf /\ res'.of = Current /\ answer' = answer /\ pc = "finish"
      BY <1>2, <2>1 DEF Answered, Return, Finish, Current
    <2>3. Begins(buf, Final(answer, Current)) /\ answer \in Replies
      BY <2>2, FinishedOwn
    <2>4. Final(answer, Current) \in Seq(Bytes) /\ buf \in Seq(Bytes)
      BY <2>3, StreamTypes, BaseTypes, FinalParts
    <2>5. IsPrefix(buf, Final(answer, Current))
      BY <2>3, <2>4, BeginsIsPrefix
    <2> QED
      BY <2>2, <2>5
  <1>3. CASE Send \/ isAlive \/ ReadBuffer \/ ReadChunk
    <2>1. CASE ReadBuffer
      <3>1. pc = "read" /\ \E d, n, e, c, b : Soaked(b, c) \/ \E f : Buffered(b, n, e, f, c)
        BY <2>1, BufferRead
      <3> QED
        BY <3>1 DEF Soaked, Buffered, Loop
    <2>2. CASE ReadChunk
      <3>1. \E d, n, e, c : Thrown(d, n, e, c)
        BY <2>2, ChunkRead
      <3> QED
        BY <3>1 DEF Thrown, Loop
    <2>3. CASE Send \/ isAlive
      BY <2>3 DEF Send, isAlive, Enter
    <2> QED
      BY <1>3, <2>1, <2>2, <2>3
  <1>4. CASE Dial \/ Handshake \/ Write
    BY <1>4 DEF Dial, Handshake, Write, Return
  <1>5. CASE Arrive \/ ServerEnds \/ UNCHANGED vars
    <2>1. pc' = pc /\ res' = res /\ answer' = answer
      BY <1>5 DEF Arrive, ServerEnds, vars, client
    <2> QED
      BY <1>1, <2>1
  <1> QED
    BY <1>2, <1>3, <1>4, <1>5 DEF Next, ClientStep

(***************************************************************************)
(* An answer that Send returns is the one to its own request, from its      *)
(* first byte on, whatever the server answers, whatever timeouts, full      *)
(* buffers and interrupted answers have left on the connection.             *)
(***************************************************************************)
THEOREM AnswersAreOwn == Spec => []OwnAnswer
  <1>1. NewHTTPClient => OwnAnswer
    BY DEF NewHTTPClient, OwnAnswer
  <1> QED
    BY BaseInit, BaseStep, StreamsInit, StreamsStep, OwnAnswerStep, <1>1, PTL DEF Spec

-----------------------------------------------------------------------------
(* How much of an answer is read                                             *)

\* A framing comes from headers.
Framed == frame # Unknown => buf # <<>>

\* The buffer begins with an answer.
Mine == pc \in {"read", "finish"} /\ buf # <<>> /\ buf[1].part = "H"

\* got is what has been read behind the headers, and frame what they say.
Counted ==
    Mine /\ frame # Unknown =>
        /\ Len(buf) >= 3 /\ got + 3 = Len(buf) + over
        /\ \/ frame = answer.frame
           \/ frame = 0 /\ answer.status \in {"204", "304"} /\ pc = "finish"

\* The framing is reset with the buffer.
LEMMA FramedStep == Base /\ Framed /\ [Next]_vars => Framed'
  <1> SUFFICES ASSUME Base, Framed, [Next]_vars, frame' # Unknown PROVE buf' # <<>>
    BY DEF Framed
  <1>1. Base'
    BY BaseStep
  <1>2. pc' \in {"read", "finish"}
    BY <1>1 DEF Base, Steps
  <1>3. CASE ReadBuffer
    <2>1. PICK d, n, e, c, b :
             /\ b \in Seq(Bytes) /\ n \in Nat /\ Len(b) = Len(buf) + n
             /\ Soaked(b, c) \/ \E f : Buffered(b, n, e, f, c)
      BY <1>3, BufferRead
    <2>2. PICK f : Buffered(b, n, e, f, c)
      BY <2>1 DEF Soaked, Headers
    <2>3. buf' = b
      BY <2>2 DEF Buffered
    <2>4. Len(b) # 0
      <3>1. CASE Headers(b)
        <4>1. FirstEmptyLine(b) \in 0 .. Len(b) /\ FirstEmptyLine(b) # 0
          BY <2>1, <3>1, FirstEmptyLineFinds DEF Headers
        <4> QED
          BY <2>1, <4>1
      <3>2. CASE ~Headers(b)
        <4>1. frame # Unknown
          BY <2>2, <3>2 DEF Buffered, Bodyless
        <4>2. Len(buf) # 0 /\ Len(buf) \in Nat
          BY <4>1, BaseTypes, EmptySeq DEF Framed
        <4> QED
          BY <2>1, <4>2
      <3> QED
        BY <3>1, <3>2
    <2> QED
      BY <2>3, <2>4, EmptySeq
  <1>4. CASE ReadChunk
    <2>1. buf' = buf /\ \E d, n, e, c : Thrown(d, n, e, c)
      BY <1>4, ChunkRead
    <2> QED
      BY <2>1 DEF Thrown, Framed
  <1>5. CASE Write
    <2>1. frame = Unknown
      BY <1>5 DEF Write, Base, Steps
    <2> QED
      BY <1>5, <2>1 DEF Write, Return
  <1>6. CASE Arrive \/ ServerEnds \/ UNCHANGED vars
    <2>1. buf' = buf /\ frame' = frame
      BY <1>6 DEF Arrive, ServerEnds, vars, client
    <2> QED
      BY <2>1 DEF Framed
  <1>7. CASE Send \/ isAlive \/ Dial \/ Handshake \/ Finish
    BY <1>2, <1>7 DEF Send, isAlive, Dial, Handshake, Finish, NoAnswer, UnknownAnswer, NoStatus,
                      Redirect, Answered, Return, Enter
  <1> QED
    BY <1>3, <1>4, <1>5, <1>6, <1>7 DEF Next, ClientStep

\* The steps after which an answer is being read.
LEMMA MineSteps ==
  ASSUME Base, Streams, [Next]_vars, Mine'
  PROVE  ReadBuffer \/ ReadChunk \/ Arrive \/ ServerEnds \/ UNCHANGED vars
  <1>1. pc' \in {"read", "finish"} /\ buf' # <<>> /\ buf'[1].part = "H"
    BY DEF Mine
  <1>2. ~Write
    <2> SUFFICES ASSUME Write PROVE FALSE
      OBVIOUS
    <2>1. pc = "write" /\ buf' = buf
      BY <1>1 DEF Write, Return
    <2>2. NoStart(buf \o Rest)
      BY <2>1 DEF Streams
    <2>3. NoStart(buf)
      BY <2>2, BaseTypes, StreamTypes, Shorter
    <2> QED
      BY <1>1, <2>1, <2>3 DEF NoStart
  <1>3. ~(Send \/ isAlive \/ Dial \/ Handshake \/ Finish)
    BY <1>1 DEF Send, isAlive, Dial, Handshake, Finish, NoAnswer, UnknownAnswer, NoStatus,
                Redirect, Answered, Return, Enter
  <1> QED
    BY <1>2, <1>3 DEF Next, ClientStep

\* What ReadBuffer has then read is the beginning of the answer to the current request.
LEMMA BufferOwn ==
  ASSUME Base, Streams, ReadBuffer, NEW b \in Seq(Bytes), NEW r \in Seq(Bytes),
         b \o r = buf \o Rest, b # <<>>, b[1].part = "H"
  PROVE  /\ answer # Silent /\ answer \in Replies /\ Current \in Request
         /\ \/ Begins(b, Final(answer, Current))
            \/ answer.interim /\ Headers(b) /\ StatusOf(b) = "1xx"
  <1>1. pc = "read" /\ over = 0
    BY DEF ReadBuffer
  <1>2. ~NoStart(b \o r)
    <2>1. ~NoStart(b)
      BY DEF NoStart
    <2> QED
      BY <2>1, Shorter
  <1>3. answer # Silent /\ (OwnInterim \/ OwnFinal)
    BY <1>1, <1>2 DEF Streams
  <1>4. answer \in Replies /\ Current \in Request
    BY <1>3, StreamTypes
  <1>5. CASE OwnFinal
    <2>1. Begins(b \o r, Final(answer, Current))
      BY <1>1, <1>5 DEF OwnFinal
    <2>2. Begins(b, Final(answer, Current))
      BY <1>3, <2>1, StreamTypes, Shorter
    <2> QED
      BY <1>3, <1>4, <2>2
  <1>6. CASE OwnInterim
    <2>1. /\ answer.interim /\ frame = Unknown
          /\ Begins(b \o r, Interim(answer, Current) \o Final(answer, Current))
      BY <1>6 DEF OwnInterim
    <2>2. CASE Len(b) < 3
      BY <1>3, <1>4, <2>1, <2>2, InterimBegins
    <2>3. CASE Len(b) >= 3
      <3>1. FirstEmptyLine(b) = 3 /\ StatusOf(b) = "1xx"
        BY <1>4, <2>1, <2>3, InterimBegins
      <3>2. Headers(b)
        BY <2>1, <3>1 DEF Headers
      <3> QED
        BY <1>3, <1>4, <2>1, <3>1, <3>2
    <2>4. Len(b) < 3 \/ Len(b) >= 3
      OBVIOUS
    <2> QED
      BY <2>2, <2>3, <2>4
  <1> QED
    BY <1>3, <1>5, <1>6

\* ReadBuffer, when an answer is in the buffer afterwards.
LEMMA BufferMine ==
  ASSUME Base, Streams, Framed, Counted, ReadBuffer, Mine', pc' = "finish" \/ ~answer.interim \/ frame' # Unknown
  PROVE  \E d, n, e, c, b, f :
            /\ Took(d, n, e, c) /\ Buffered(b, n, e, f, c) /\ buf' = b
            /\ b = buf \o d /\ b \in Seq(Bytes) /\ n \in Nat /\ Len(b) = Len(buf) + n /\ Len(b) \in Nat
            /\ answer \in Replies /\ Current \in Request /\ Begins(b, Final(answer, Current))
            /\ f # Unknown => Len(b) >= 3 /\ f = answer.frame /\ BodyRead(b, n) = Len(b) - 3
            /\ Headers(b) => Len(b) >= 3 /\ f = answer.frame /\ StatusOf(b) = answer.status
            /\ frame = Unknown /\ Len(b) >= 3 => Headers(b)
            /\ frame # Unknown => f = frame /\ Mine /\ Len(buf) >= 3 /\ ~Headers(b)
  <1>1. PICK d, n, e, c, b :
           /\ Took(d, n, e, c)
           /\ b = buf \o d /\ b \in Seq(Bytes) /\ n \in Nat /\ Len(b) = Len(buf) + n
           /\ b \o (c.in \o owed) = buf \o Rest
           /\ Soaked(b, c) \/ \E f : Buffered(b, n, e, f, c)
    BY BufferRead
  <1>2. PICK r \in Seq(Bytes) : r = c.in \o owed
    <2>1. c.in \in Seq(Bytes)
      BY <1>1 DEF Took, Conns
    <2> QED
      BY <2>1, BaseTypes, ConcatProperties
  <1>3. d \in Seq(Bytes) /\ b \in Seq(Bytes) /\ n \in Nat /\ b = buf \o d /\ b \o r = buf \o Rest /\ Len(b) = Len(buf) + n
    BY <1>1, <1>2 DEF Took
  <1>4. pc = "read"
    BY DEF ReadBuffer
  <1>5. ~Soaked(b, c)
    <2> SUFFICES ASSUME Soaked(b, c) PROVE FALSE
      OBVIOUS
    <2>1. pc' = pc /\ frame' = frame /\ frame = Unknown /\ StatusOf(b) = "1xx"
      BY DEF Soaked, Headers
    <2>2. Len(b) > 2 /\ b[1].part = "H"
      BY <2>1 DEF StatusOf, HasTitle
    <2>3. b # <<>>
      BY <2>2, EmptySeq
    <2>4. answer.interim
      <3>1. \/ answer.interim
            \/ answer \in Replies /\ Current \in Request /\ Begins(b, Final(answer, Current))
        BY <1>3, <2>2, <2>3, BufferOwn
      <3>2. CASE answer \in Replies /\ Current \in Request /\ Begins(b, Final(answer, Current))
        <4>1. PICK a \in Replies, m \in Request : Begins(b, Final(a, m))
          BY <3>2
        <4>2. b \in Seq(Bytes)
          BY <1>3
        <4>3. StatusOf(b) # "1xx"
          BY <4>1, <4>2, FinalBegins
        <4> QED
          BY <2>1, <4>3
      <3> QED
        BY <3>1, <3>2
    <2> QED
      BY <1>4, <2>1, <2>4
  <1>6. PICK f : Buffered(b, n, e, f, c)
    BY <1>1, <1>5
  <1>7. buf' = b /\ b # <<>> /\ b[1].part = "H"
    BY <1>6 DEF Buffered, Mine
  <1>8. /\ answer \in Replies /\ Begins(b, Final(answer, Current))
        /\ f # Unknown => Len(b) >= 3 /\ f = answer.frame /\ BodyRead(b, n) = Len(b) - 3
        /\ Headers(b) => Len(b) >= 3 /\ f = answer.frame /\ StatusOf(b) = answer.status
        /\ frame = Unknown /\ Len(b) >= 3 => Headers(b)
        /\ frame # Unknown => f = frame /\ Mine /\ Len(buf) >= 3 /\ ~Headers(b)
    <2>1. /\ answer \in Replies /\ Current \in Request /\ Begins(b, Final(answer, Current))
      BY <1>3, <1>6, <1>7, BufferOwn DEF Buffered
    <2>2. /\ Len(b) < 3 => FirstEmptyLine(b) = 0
          /\ Len(b) >= 3 => /\ FirstEmptyLine(b) = 3 /\ b[3].part = "head" /\ b[3].answer = answer
                           /\ StatusOf(b) = answer.status
      <3>1. PICK a \in Replies, m \in Request : a = answer /\ m = Current
        BY <2>1
      <3>2. Begins(b, Final(a, m)) /\ b \in Seq(Bytes)
        BY <1>3, <2>1, <3>1
      <3>3. /\ Len(b) < 3 => FirstEmptyLine(b) = 0
            /\ Len(b) >= 3 => FirstEmptyLine(b) = 3 /\ b[3].part = "head" /\ b[3].answer = a
                             /\ StatusOf(b) = a.status
        BY <3>2, FinalBegins
      <3> QED
        BY <3>1, <3>3
    <2>3. pc = "read" /\ over = 0 /\ Len(b) \in Nat /\ Len(buf) \in Nat /\ got \in Nat /\ (frame = Unknown => got = 0)
      BY BaseTypes DEF ReadBuffer, Base, Steps
    <2>4. CASE frame = Unknown
      <3>1. CASE Len(b) < 3
        <4>1. ~Headers(b)
          BY <2>2, <3>1 DEF Headers
        <4>2. f = Unknown
          BY <1>6, <2>4, <4>1 DEF Buffered
        <4> QED
          BY <2>1, <2>3, <2>4, <3>1, <4>1, <4>2
      <3>2. CASE Len(b) >= 3
        <4>1. Headers(b)
          BY <2>2, <2>4, <3>2 DEF Headers
        <4>2. f \in Framings(b)
          BY <1>6, <4>1 DEF Buffered
        <4>3. Head(b) = b[1]
          OBVIOUS
        <4>4. Framings(b) = {answer.frame}
          BY <1>7, <2>2, <3>2, <4>3 DEF Framings
        <4>5. BodyRead(b, n) = Len(b) - 3
          <5>1. BodyRead(b, n) = got + Len(b) - 3 /\ got = 0
            BY <2>2, <2>3, <2>4, <3>2 DEF BodyRead
          <5> QED
            BY <2>3, <5>1
        <4> QED
          BY <2>1, <2>2, <2>4, <3>2, <4>1, <4>2, <4>4, <4>5
      <3>3. Len(b) < 3 \/ Len(b) >= 3
        BY <2>3
      <3> QED
        BY <3>1, <3>2, <3>3
    <2>5. CASE frame # Unknown
      <3>1. buf # <<>> /\ buf \in Seq(Bytes)
        BY <2>5, BaseTypes DEF Framed
      <3>2. buf[1] = b[1]
        <4>1. PICK x \in Seq(Bytes) : x = buf
          BY <3>1
        <4>2. 1 \in 1 .. Len(x) /\ b = x \o d
          BY <1>3, <3>1, <4>1, EmptySeq
        <4>3. b[1] = x[1]
          BY <4>2
        <4> QED
          BY <4>1, <4>3
      <3>3. Mine
        BY <1>7, <2>3, <3>1, <3>2 DEF Mine
      <3>4. Len(buf) >= 3 /\ got + 3 = Len(buf) /\ frame = answer.frame
        BY <2>3, <2>5, <3>3 DEF Counted
      <3>5. ~Headers(b) /\ f = frame
        BY <1>6, <2>5 DEF Headers, Buffered
      <3>6. BodyRead(b, n) = got + n
        BY <2>5 DEF BodyRead
      <3>7. Len(b) >= 3 /\ BodyRead(b, n) = Len(b) - 3
        BY <1>3, <2>3, <3>4, <3>6
      <3> QED
        BY <2>1, <2>5, <3>3, <3>4, <3>5, <3>7
    <2> QED
      BY <2>4, <2>5
  <1>9. Current \in Request /\ Len(b) \in Nat
    BY <1>3, StreamTypes
  <1> QED
    BY <1>1, <1>3, <1>6, <1>7, <1>8, <1>9

\* Every read counts what it brought, in the buffer or beyond it.
LEMMA CountedStep == Base /\ Streams /\ Framed /\ Counted /\ [Next]_vars => Counted'
  <1> SUFFICES ASSUME Base, Streams, Framed, Counted, [Next]_vars, Mine', frame' # Unknown
               PROVE  /\ Len(buf') >= 3 /\ got' + 3 = Len(buf') + over'
                      /\ \/ frame' = answer'.frame
                         \/ frame' = 0 /\ answer'.status \in {"204", "304"} /\ pc' = "finish"
    BY DEF Counted
  <1>1. CASE ReadBuffer
    <2>1. PICK d, n, e, c, b, f :
            /\ Buffered(b, n, e, f, c) /\ buf' = b /\ Len(b) \in Nat
            /\ answer \in Replies
            /\ f # Unknown => Len(b) >= 3 /\ f = answer.frame /\ BodyRead(b, n) = Len(b) - 3
            /\ Headers(b) => Len(b) >= 3 /\ f = answer.frame /\ StatusOf(b) = answer.status
      BY <1>1, BufferMine
    <2>2. over' = 0 /\ answer' = answer
      BY <1>1, BufferRead
    <2>3. frame' = IF Bodyless(b, f) THEN 0 ELSE f
      BY <2>1 DEF Buffered
    <2>4. got' = BodyRead(b, n)
      BY <2>1 DEF Buffered, Loop
    <2>5. BodyRead(b, n) = Len(b) - 3 /\ Len(b) >= 3
      <3>1. CASE f # Unknown
        BY <2>1, <3>1
      <3>2. CASE f = Unknown
        <4>1. Headers(b)
          BY <2>3, <3>2 DEF Bodyless
        <4>2. BodyRead(b, n) = got + Len(b) - 3 /\ got = 0
          <5>1. frame = Unknown /\ got = 0 /\ FirstEmptyLine(b) # 0
            BY <4>1 DEF Headers, Base, Steps
          <5>2. FirstEmptyLine(b) = 3
            <6>1. PICK d2, n2, e2, c2, b2, f2 :
                    /\ buf' = b2 /\ b2 \in Seq(Bytes) /\ Len(b2) >= 0
                    /\ answer \in Replies /\ Current \in Request /\ Begins(b2, Final(answer, Current))
              BY <1>1, BufferMine
            <6> QED
              BY <2>1, <4>1, <6>1, FinalBegins
          <5> QED
            BY <5>1, <5>2 DEF BodyRead
        <4> QED
          BY <2>1, <4>1, <4>2
      <3> QED
        BY <3>1, <3>2
    <2>6. CASE Bodyless(b, f)
      <3>1. answer.status \in {"204", "304"}
        BY <2>1, <2>6 DEF Bodyless
      <3>2. pc' = "finish"
        BY <2>1, <2>6 DEF Buffered, Done, Loop
      <3> QED
        BY <2>1, <2>2, <2>3, <2>4, <2>5, <2>6, <3>1, <3>2
    <2>7. CASE ~Bodyless(b, f)
      BY <2>1, <2>2, <2>3, <2>4, <2>5, <2>7
    <2> QED
      BY <2>6, <2>7
  <1>2. CASE ReadChunk
    <2>1. pc = "read" /\ buf' = buf /\ answer' = answer
      BY <1>2, ChunkRead
    <2>2. PICK d, n, e, c : n \in Nat /\ Thrown(d, n, e, c)
      BY <1>2, ChunkRead
    <2>3. frame' = frame /\ over' = over + n /\ got' = got + n
      BY <2>2 DEF Thrown, Loop
    <2>4. Mine
      BY <2>1 DEF Mine
    <2>5. Len(buf) >= 3 /\ got + 3 = Len(buf) + over /\ frame = answer.frame
      BY <2>1, <2>3, <2>4 DEF Counted
    <2>6. got' + 3 = Len(buf) + over'
      <3>1. PICK g \in Nat, o \in Nat, l \in Nat : g = got /\ o = over /\ l = Len(buf)
        BY BaseTypes
      <3>2. (g + n) + 3 = l + (o + n)
        BY <2>2, <2>5, <3>1
      <3> QED
        BY <2>3, <3>1, <3>2
    <2> QED
      BY <2>1, <2>3, <2>5, <2>6
  <1>3. CASE Arrive \/ ServerEnds \/ UNCHANGED vars
    <2>1. buf' = buf /\ frame' = frame /\ got' = got /\ over' = over /\ pc' = pc /\ answer' = answer
      BY <1>3 DEF Arrive, ServerEnds, vars, client
    <2>2. Mine
      BY <2>1 DEF Mine
    <2> QED
      BY <2>1, <2>2, Zenon DEF Counted
  <1> QED
    BY <1>1, <1>2, <1>3, MineSteps

-----------------------------------------------------------------------------
(* Clear text                                                                *)

\* A connection without TLS.
Plain == conn.open /\ ~conn.tls

\* The last Send failed, or was cut off in an answer.
Failed == res.kind \in {"521", "nil"} \/ (res.kind = "payload" /\ res.err # "nil")

\* Where such a connection comes from.  An answer on it has status 400, and ends it
\* when the status has been read, unless the server has ended it first.
ClearText ==
    /\ Plain /\ pc \in {"read", "finish"} => answer \in {BadRequest, Silent}
    /\ Plain /\ pc \in {"idle", "alive"} => Failed \/ AtEOF
    /\ Plain /\ pc \in {"write", "read", "finish"} => Failed

\* An answer that ends before its headers, without an error.
NoHeaders ==
    pc = "finish" /\ Mine /\ err = "nil" /\ conn.open => Len(buf) >= 3 \/ AtEOF

\* Reading stops without an error and without the headers only at the end of the stream.
LEMMA NoHeadersStep ==
  Base /\ Streams /\ Framed /\ Counted /\ NoHeaders /\ [Next]_vars => NoHeaders'
  <1> SUFFICES ASSUME Base, Streams, Framed, Counted, NoHeaders, [Next]_vars,
                      pc' = "finish", Mine', err' = "nil", conn'.open
               PROVE  Len(buf') >= 3 \/ AtEOF'
    BY DEF NoHeaders
  <1>1. CASE ReadBuffer
    <2>1. PICK d, n, e, c, b, f :
            /\ Took(d, n, e, c) /\ Buffered(b, n, e, f, c) /\ buf' = b
            /\ b \in Seq(Bytes) /\ n \in Nat /\ Len(b) \in Nat
            /\ f # Unknown => Len(b) >= 3
            /\ Headers(b) => Len(b) >= 3
      BY <1>1, BufferMine
    <2>2. Done(b, n, f) \/ e # "nil" \/ Len(b) >= MaxResponse
      BY <2>1 DEF Buffered, Loop
    <2>3. Done(b, n, f) => Len(b) >= 3
      <3>1. Complete(f, BodyRead(b, n), b) => f # Unknown
        BY DEF Complete, Unknown, Chunked
      <3> QED
        BY <2>1, <3>1 DEF Done, Bodyless
    <2>4. Len(b) >= MaxResponse => Len(b) >= 3
      BY <2>1, Sizes
    <2>5. e # "nil" /\ ~Done(b, n, f) => AtEOF'
      <3> SUFFICES ASSUME e # "nil", ~Done(b, n, f) PROVE AtEOF'
        OBVIOUS
      <3>1. e = "EOF"
        BY <2>1 DEF Buffered
      <3>2. c.in = <<>> /\ c.ended = "eof"
        BY <2>1, <3>1 DEF Took
      <3>3. conn' = c
        BY <2>1 DEF Buffered, Leaves, Disconnect, NoConn
      <3> QED
        BY <3>2, <3>3 DEF AtEOF
    <2> QED
      BY <2>1, <2>2, <2>3, <2>4, <2>5
  <1>2. CASE ReadChunk
    <2>1. pc = "read" /\ buf' = buf
      BY <1>2, ChunkRead
    <2>2. PICK d, n, e, c : Thrown(d, n, e, c)
      BY <1>2, ChunkRead
    <2>3. frame # Unknown
      BY <2>2 DEF Thrown, Leaves, Disconnect, NoConn
    <2>4. Mine
      BY <2>1 DEF Mine
    <2> QED
      BY <2>1, <2>3, <2>4 DEF Counted
  <1>3. CASE Arrive \/ ServerEnds \/ UNCHANGED vars
    <2>1. buf' = buf /\ pc' = pc /\ err' = err
      BY <1>3 DEF Arrive, ServerEnds, vars, client
    <2>2. Mine
      BY <2>1 DEF Mine
    <2>3. conn.open
      BY <1>3, BaseTypes DEF Arrive, ServerEnds, vars, NoConn
    <2>4. Len(buf) >= 3 \/ AtEOF
      BY <2>1, <2>2, <2>3 DEF NoHeaders
    <2>5. AtEOF => AtEOF'
      BY <1>3, BaseTypes DEF Arrive, ServerEnds, AtEOF, vars
    <2> QED
      BY <2>1, <2>4, <2>5
  <1> QED
    BY <1>1, <1>2, <1>3, MineSteps

\* A connection without TLS is left behind by a failed Send only.
LEMMA ClearTextStep ==
  Base /\ Streams /\ NoHeaders /\ ClearText /\ [Next]_vars => ClearText'
  <1> SUFFICES ASSUME Base, Streams, NoHeaders, ClearText, [Next]_vars, Plain'
               PROVE  /\ pc' \in {"read", "finish"} => answer' \in {BadRequest, Silent}
                      /\ pc' \in {"idle", "alive"} => Failed' \/ AtEOF'
                      /\ pc' \in {"write", "read", "finish"} => Failed'
    BY DEF ClearText
  <1>0. conn'.open /\ ~conn'.tls
    BY DEF Plain
  <1>1. CASE Send
    <2>1. /\ pc = "idle" /\ conn' = conn /\ res' = [res EXCEPT !.payload = <<>>] /\ pc' \in {"alive", "dial"}
      BY <1>1 DEF Send, KeepConn, Enter
    <2>2. Failed \/ AtEOF
      BY <1>0, <2>1 DEF ClearText, Plain
    <2>3. res'.kind = res.kind /\ res'.err = res.err
      BY <2>1, BaseTypes DEF Results
    <2>4. Failed' \/ AtEOF'
      BY <2>1, <2>2, <2>3 DEF Failed, AtEOF
    <2> QED
      BY <2>1, <2>4
  <1>2. CASE isAlive
    <2>1. pc = "alive" /\ res' = res
      BY <1>2 DEF isAlive
    <2>1a. PICK r \in ReadUpTo(1) :
              IF r.err = "EOF" THEN pc' = "dial" /\ UNCHANGED <<conn, buf>>
              ELSE pc' = "write" /\ buf' = r.data /\ conn' = After(Len(r.data))
      BY <1>2 DEF isAlive
    <2>2. CASE r.err = "EOF"
      BY <2>1a, <2>2
    <2>3. CASE r.err # "EOF"
      <3>1. PICK d : d = r.data
        OBVIOUS
      <3>2. pc' = "write" /\ conn' = After(Len(d))
        BY <2>1a, <2>3, <3>1
      <3>3. Took(d, Len(d), r.err, After(Len(d)))
        BY <3>1, Takes, BaseTypes
      <3>4. Plain
        BY <1>0, <3>2, <3>3 DEF Took, Plain
      <3>5. ~AtEOF
        BY <2>3, <3>3 DEF Took
      <3>6. Failed'
        BY <2>1, <3>4, <3>5 DEF ClearText, Failed
      <3> QED
        BY <3>2, <3>6
    <2> QED
      BY <2>2, <2>3
  <1>3. CASE Dial
    BY <1>0, <1>3 DEF Dial, NoConn
  <1>4. CASE Handshake
    <2>1. pc' = "idle" /\ res'.kind = "521"
      BY <1>0, <1>4, BaseTypes DEF Handshake, Return, Conns
    <2> QED
      BY <2>1 DEF Failed
  <1>5. CASE Write
    <2>1. conn' = conn /\ pc' = "read" /\ res' = res /\ answer' \in ServerAnswers /\ pc = "write"
      BY <1>0, <1>5 DEF Write, Disconnect, NoConn
    <2>2. Plain
      BY <1>0, <2>1 DEF Plain
    <2>3. answer' \in {BadRequest, Silent}
      BY <1>0, <2>1 DEF ServerAnswers
    <2>4. Failed'
      BY <2>1, <2>2 DEF ClearText, Failed
    <2> QED
      BY <2>1, <2>3, <2>4
  <1>6. CASE ReadBuffer \/ ReadChunk
    <2>1. pc = "read" /\ answer' = answer /\ res' = res
      BY <1>6 DEF ReadBuffer, ReadChunk
    <2>2. Plain /\ pc' \in {"read", "finish"}
      <3>1. CASE ReadBuffer
        <4>1. PICK d, n, e, c, b : Took(d, n, e, c) /\ (Soaked(b, c) \/ \E f : Buffered(b, n, e, f, c))
          BY <3>1, BufferRead
        <4>2. \E t : Leaves(t, c)
          <5>1. CASE Soaked(b, c)
            <6>1. Leaves(FALSE, c)
              BY <5>1 DEF Soaked, Leaves
            <6> QED
              BY <6>1
          <5>2. CASE \E f : Buffered(b, n, e, f, c)
            BY <5>2 DEF Buffered
          <5> QED
            BY <4>1, <5>1, <5>2
        <4>3. pc' \in {"read", "finish"}
          BY <2>1, <4>1 DEF Soaked, Buffered, Loop
        <4>4. conn.open /\ conn'.tls = conn.tls
          BY <1>0, <4>1, <4>2, LeavesConn
        <4> QED
          BY <1>0, <4>3, <4>4 DEF Plain
      <3>2. CASE ReadChunk
        <4>1. PICK d, n, e, c : Took(d, n, e, c) /\ Thrown(d, n, e, c)
          BY <3>2, ChunkRead
        <4>2. \E t : Leaves(t, c)
          BY <4>1 DEF Thrown
        <4>3. pc' \in {"read", "finish"}
          BY <4>1 DEF Thrown, Loop
        <4>4. conn.open /\ conn'.tls = conn.tls
          BY <1>0, <4>1, <4>2, LeavesConn
        <4> QED
          BY <1>0, <4>3, <4>4 DEF Plain
      <3> QED
        BY <1>6, <3>1, <3>2
    <2>3. Failed /\ answer \in {BadRequest, Silent}
      BY <2>1, <2>2 DEF ClearText
    <2> QED
      BY <2>1, <2>2, <2>3 DEF Failed
  <1>7. CASE Finish
    <2>1. pc = "finish" /\ answer' = answer
      BY <1>7 DEF Finish
    <2>2. CASE NoAnswer \/ UnknownAnswer
      BY <1>0, <2>2 DEF NoAnswer, UnknownAnswer, Disconnect, NoConn
    <2>3. CASE NoStatus
      <3>1. pc' = "idle" /\ res'.kind = "nil"
        BY <2>3 DEF NoStatus, Return
      <3> QED
        BY <3>1 DEF Failed
    <2>4. ASSUME IsHTTP, KeepConn
          PROVE  /\ answer = BadRequest /\ Failed
                 /\ Len(buf) >= 3 => StatusOf(buf) = "400" /\ buf[3].answer = BadRequest
      <3>1. Plain
        BY <1>0, <2>4 DEF KeepConn, Plain
      <3>2. answer \in Replies /\ Begins(buf, Final(answer, Current)) /\ Current \in Request
        BY <2>1, <2>4, FinishedOwn, StreamTypes
      <3>3. answer = BadRequest /\ Failed
        BY <2>1, <3>1, <3>2, ReplyType DEF ClearText
      <3>4. Len(buf) >= 3 => StatusOf(buf) = answer.status /\ buf[3].answer = answer
        BY <3>2, BaseTypes, FinalBegins
      <3>5. BadRequest.status = "400"
        BY DEF BadRequest
      <3> QED
        BY <3>3, <3>4, <3>5
    <2>5. CASE Redirect
      <3>1. IsHTTP /\ KeepConn /\ Len(buf) > 2 /\ buf[3].answer.status \in {"302", "304"}
        BY <2>5 DEF Redirect, IsRedirect
      <3>2. buf[3].answer.status = "400"
        BY <2>4, <3>1, BaseTypes DEF BadRequest
      <3> QED
        BY <3>1, <3>2
    <2>6. CASE Answered
      <3>1. IsHTTP /\ KeepConn /\ StatusOf(buf) # "400" /\ Return("payload", buf, err)
        BY <1>0, <2>6 DEF Answered, Disconnect, NoConn
      <3>2. ~(Len(buf) >= 3)
        BY <2>4, <3>1
      <3>3. pc' = "idle" /\ res'.kind = "payload" /\ res'.err = err
        BY <3>1 DEF Return
      <3>4. CASE err # "nil"
        BY <3>3, <3>4 DEF Failed
      <3>5. CASE err = "nil"
        <4>1. buf # <<>> /\ buf[1].part = "H"
          BY <3>1, EmptySeq DEF IsHTTP
        <4>2. conn' = conn
          BY <3>1 DEF KeepConn
        <4>3. AtEOF
          BY <1>0, <2>1, <3>2, <3>5, <4>1, <4>2 DEF NoHeaders, Mine
        <4>4. AtEOF'
          BY <4>2, <4>3 DEF AtEOF
        <4> QED
          BY <3>3, <4>4
      <3> QED
        BY <3>4, <3>5
    <2> QED
      BY <1>7, <2>2, <2>3, <2>5, <2>6 DEF Finish
  <1>8. CASE Arrive \/ ServerEnds \/ UNCHANGED vars
    <2>1. pc' = pc /\ answer' = answer /\ res' = res
      BY <1>8 DEF Arrive, ServerEnds, vars, client
    <2>2. Plain /\ (AtEOF => AtEOF')
      BY <1>0, <1>8, BaseTypes DEF Arrive, ServerEnds, AtEOF, vars, Plain, Conns
    <2>3. Failed' = Failed
      BY <2>1 DEF Failed
    <2> QED
      BY <2>1, <2>2, <2>3 DEF ClearText
  <1> QED
    BY <1>1, <1>2, <1>3, <1>4, <1>5, <1>6, <1>7, <1>8 DEF Next, ClientStep

(***************************************************************************)
(* A request goes out in clear text only after a Send that reported the     *)
(* failed handshake, or one that was cut off in such a request's answer.    *)
(***************************************************************************)
THEOREM ClearTextIsReported == Spec => []ClearTextAfterFailure
  <1>1. NewHTTPClient => Framed /\ Counted /\ NoHeaders /\ ClearText
    BY DEF NewHTTPClient, Framed, Counted, NoHeaders, ClearText, Mine, Plain, NoConn
  <1>2. Base /\ ClearText => ClearTextAfterFailure
    <2> SUFFICES ASSUME Base, ClearText, pc \in {"write", "read", "finish"}, Plain
                 PROVE  res.of[1] = req - 1 /\ Failed
      BY DEF ClearTextAfterFailure, Plain, Failed
    <2>1. res.of[1] = req - 1
      BY DEF Base, Steps
    <2> QED
      BY <2>1 DEF ClearText
  <1> QED
    BY BaseInit, BaseStep, StreamsInit, StreamsStep, FramedStep, CountedStep, NoHeadersStep,
       ClearTextStep, <1>1, <1>2, PTL DEF Spec

-----------------------------------------------------------------------------
(* Where an answer ends                                                      *)

Framing == \A a \in Answer : WellFramed(a)

\* Reading stopped without an error: the buffer is full, or holds the whole answer or
\* what reads like one, or the server has ended the connection.
EndSeen ==
    pc = "finish" /\ Mine /\ err = "nil" =>
        \/ Len(buf) >= BufLen
        \/ Len(buf) = Len(Final(answer, Current))
        \/ answer.frame = Chunked /\ HasChunkedSuffix(buf)
        \/ conn.ended # "no"

\* Reading goes on, or has failed, with the whole answer in the buffer.
EndMissed ==
    Mine /\ (pc = "read" \/ err # "nil") /\ buf = Final(answer, Current) =>
        \/ answer.frame = Unknown /\ answer.status \notin {"204", "304"}
        \/ answer.interim
        \/ pc = "finish" /\ err = "EOF" /\ conn.ended # "no"

\* How long a well-framed answer is.
LEMMA WholeLength ==
  ASSUME Framing, NEW a \in Replies, NEW n \in Request
  PROVE  /\ Len(Final(a, n)) \in Nat /\ Len(Final(a, n)) >= 3
         /\ a.status \in {"204", "304"} /\ a.frame # Chunked => Len(Final(a, n)) = 3
         /\ a.status \notin {"204", "304"} /\ a.frame >= 0 /\ a.frame # Unknown /\ a.frame # Chunked
              => Len(Final(a, n)) = 3 + a.frame
  <1>1. WellFramed(a)
    <2>1. WellFramed(BadRequest)
      BY DEF WellFramed, BadRequest
    <2> QED
      BY <2>1 DEF Framing, Replies
  <1>2. /\ Len(Final(a, n)) = 3 + Len(a.body) + Tails(a) /\ Len(a.body) \in Nat
        /\ a.frame \in Frame
    BY FinalParts, ReplyType, LenProperties
  <1>3. Tails(a) \in Nat /\ (a.frame # Chunked => Tails(a) = 0)
    BY DEF Tails
  <1>4. a.status \in {"204", "304"} => Len(a.body) = 0
    BY <1>1, EmptySeq DEF WellFramed
  <1>5. a.status \notin {"204", "304"} /\ a.frame >= 0 => Len(a.body) = a.frame
    BY <1>1 DEF WellFramed
  <1> QED
    BY <1>2, <1>3, <1>4, <1>5

\* The framing of the answer says that it ends with b when it does, and otherwise only
\* behind what reads like the last chunk.
LEMMA EndKnown ==
  ASSUME Framing, NEW a \in Replies, NEW n \in Request, NEW b \in Seq(Bytes),
         Begins(b, Final(a, n)), Len(b) >= 3
  PROVE  /\ Complete(a.frame, Len(b) - 3, b) =>
               Len(b) = Len(Final(a, n)) \/ (a.frame = Chunked /\ HasChunkedSuffix(b))
         /\ a.status \in {"204", "304"} /\ a.frame # Chunked => b = Final(a, n)
         /\ b = Final(a, n) /\ a.status \notin {"204", "304"} /\ a.frame # Unknown
              => Complete(a.frame, Len(b) - 3, b)
         /\ b = Final(a, n) /\ a.frame = Chunked => Complete(a.frame, Len(b) - 3, b)
  <1>1. PICK F \in Seq(Bytes) : F = Final(a, n)
    BY FinalParts
  <1>2. PICK m \in Nat : m = Len(b) /\ m >= 3
    OBVIOUS
  <1>3. m <= Len(F) /\ \A i \in 1 .. m : b[i] = F[i]
    BY <1>1, <1>2 DEF Begins
  <1>4. /\ Len(F) \in Nat /\ Len(F) >= 3
        /\ a.status \in {"204", "304"} /\ a.frame # Chunked => Len(F) = 3
        /\ a.status \notin {"204", "304"} /\ a.frame >= 0 /\ a.frame # Unknown /\ a.frame # Chunked
             => Len(F) = 3 + a.frame
    BY <1>1, WholeLength
  <1>5. a.frame = Chunked => F[Len(F)].part = "end" /\ F[Len(F) - 1].part = "zero"
    BY <1>1, FinalParts
  <1>6. a.frame \in Nat \/ a.frame = Chunked \/ a.frame = Unknown
    BY ReplyType DEF Frame
  <1>7. a.frame \in Nat => a.frame # Chunked /\ a.frame # Unknown /\ a.frame >= 0
    BY DEF Chunked, Unknown
  <1>8. Unknown # Chunked /\ ~(Unknown >= 0)
    BY DEF Chunked, Unknown
  <1>9. ASSUME Complete(a.frame, m - 3, b)
        PROVE  m = Len(F) \/ (a.frame = Chunked /\ HasChunkedSuffix(b))
    <2>1. CASE a.frame = Chunked
      BY <1>9, <2>1 DEF Complete
    <2>2. CASE a.frame \in Nat
      <3>1. m - 3 >= a.frame
        BY <1>7, <1>9, <2>2 DEF Complete
      <3>2. Len(F) = 3 \/ Len(F) = 3 + a.frame
        BY <1>4, <1>7, <2>2
      <3> QED
        BY <1>2, <1>3, <1>4, <2>2, <3>1, <3>2
    <2>3. CASE a.frame = Unknown
      BY <1>8, <1>9, <2>3 DEF Complete
    <2> QED
      BY <1>6, <2>1, <2>2, <2>3
  <1>10. a.status \in {"204", "304"} /\ a.frame # Chunked => b = F
    <2> SUFFICES ASSUME a.status \in {"204", "304"}, a.frame # Chunked PROVE b = F
      OBVIOUS
    <2>1. m = Len(F)
      BY <1>2, <1>3, <1>4
    <2> QED
      BY <1>2, <1>3, <2>1, SeqEqual
  <1>11. ASSUME b = F, a.frame = Chunked PROVE Complete(a.frame, m - 3, b)
    BY <1>2, <1>5, <1>11 DEF Complete, HasChunkedSuffix
  <1>12. ASSUME b = F, a.frame \in Nat, a.status \notin {"204", "304"} PROVE Complete(a.frame, m - 3, b)
    <2>1. m = 3 + a.frame
      BY <1>2, <1>4, <1>7, <1>12
    <2> QED
      BY <1>7, <1>12, <2>1 DEF Complete
  <1> QED
    BY <1>1, <1>2, <1>6, <1>9, <1>10, <1>11, <1>12

\* An answer that is complete by its framing has been read whole.
LEMMA EndSeenStep ==
  ASSUME Framing, BufLen <= MaxResponse
  PROVE  Base /\ Streams /\ Framed /\ Counted /\ EndSeen /\ [Next]_vars => EndSeen'
  <1> SUFFICES ASSUME Base, Streams, Framed, Counted, EndSeen, [Next]_vars,
                      pc' = "finish", Mine', err' = "nil"
               PROVE  \/ Len(buf') >= BufLen
                      \/ Len(buf') = Len(Final(answer', Current'))
                      \/ answer'.frame = Chunked /\ HasChunkedSuffix(buf')
                      \/ conn'.ended # "no"
    BY DEF EndSeen
  <1>1. CASE ReadBuffer
    <2>1. PICK d, n, e, c, b, f :
            /\ Took(d, n, e, c) /\ Buffered(b, n, e, f, c) /\ buf' = b
            /\ b \in Seq(Bytes) /\ Len(b) \in Nat
            /\ answer \in Replies /\ Current \in Request /\ Begins(b, Final(answer, Current))
            /\ f # Unknown => Len(b) >= 3 /\ f = answer.frame /\ BodyRead(b, n) = Len(b) - 3
            /\ Headers(b) => Len(b) >= 3 /\ f = answer.frame /\ StatusOf(b) = answer.status
      BY <1>1, BufferMine
    <2>2. answer' = answer /\ Current' = Current
      BY <1>1, BufferRead DEF Current
    <2>3. Done(b, n, f) \/ e # "nil" \/ Len(b) >= MaxResponse
      BY <2>1 DEF Buffered, Loop
    <2>4. Len(b) >= MaxResponse => Len(b) >= BufLen
      BY <2>1, Sizes
    <2>5. ASSUME Done(b, n, f)
          PROVE  \/ Len(b) = Len(Final(answer, Current))
                 \/ answer.frame = Chunked /\ HasChunkedSuffix(b)
      <3>1. CASE Bodyless(b, f)
        <4>1. answer.status \in {"204", "304"} /\ answer.frame # Chunked /\ Len(b) >= 3
          BY <2>1, <3>1 DEF Bodyless
        <4>2. b = Final(answer, Current)
          BY <2>1, <4>1, EndKnown
        <4> QED
          BY <4>2
      <3>2. CASE Complete(f, BodyRead(b, n), b)
        <4>1. f # Unknown
          BY <3>2 DEF Complete, Unknown, Chunked
        <4>2. Len(b) >= 3 /\ Complete(answer.frame, Len(b) - 3, b)
          BY <2>1, <3>2, <4>1
        <4> QED
          BY <2>1, <4>2, EndKnown
      <3> QED
        BY <2>5, <3>1, <3>2 DEF Done
    <2>6. ASSUME e # "nil", ~Done(b, n, f) PROVE conn'.ended # "no"
      <3>1. e = "EOF"
        BY <2>1, <2>6 DEF Buffered
      <3>2. conn.ended = "eof" /\ c.ended = conn.ended
        BY <2>1, <3>1 DEF Took
      <3>3. ~WrongLength(f, BodyRead(b, n))
        <4> SUFFICES ASSUME WrongLength(f, BodyRead(b, n)) PROVE Complete(f, BodyRead(b, n), b)
          BY <2>6 DEF Done
        <4>1. f >= 0 /\ BodyRead(b, n) > f
          BY DEF WrongLength
        <4>2. f # Unknown
          BY <4>1 DEF Unknown
        <4>3. f \in Nat /\ f # Chunked
          BY <2>1, <4>1, <4>2, ReplyType DEF Frame, Chunked
        <4>4. BodyRead(b, n) \in Int
          BY <2>1, <4>2
        <4> QED
          BY <4>1, <4>3, <4>4 DEF Complete
      <3>4. conn' = c
        BY <2>1, <3>3 DEF Buffered, Leaves
      <3> QED
        BY <3>2, <3>4
    <2> QED
      BY <2>1, <2>2, <2>3, <2>4, <2>5, <2>6
  <1>2. CASE ReadChunk
    <2>1. buf' = buf /\ Len(buf) = BufLen
      BY <1>2, ChunkRead
    <2> QED
      BY <2>1, Sizes
  <1>3. CASE Arrive \/ ServerEnds \/ UNCHANGED vars
    <2>1. buf' = buf /\ pc' = pc /\ err' = err /\ answer' = answer /\ req' = req /\ tries' = tries
      BY <1>3 DEF Arrive, ServerEnds, vars, client
    <2>2. Mine
      BY <2>1 DEF Mine
    <2>3. conn.ended # "no" => conn'.ended # "no"
      BY <1>3, BaseTypes DEF Arrive, ServerEnds, vars, Conns
    <2>4. Current' = Current
      BY <2>1 DEF Current
    <2> QED
      BY <2>1, <2>2, <2>3, <2>4, Zenon DEF EndSeen
  <1> QED
    BY <1>1, <1>2, <1>3, MineSteps

\* An answer that has been read whole is complete by its framing, if it has one.
LEMMA EndMissedStep ==
  ASSUME Framing
  PROVE  Base /\ Streams /\ Framed /\ Counted /\ EndMissed /\ [Next]_vars => EndMissed'
  <1> SUFFICES ASSUME Base, Streams, Framed, Counted, EndMissed, [Next]_vars,
                      Mine', pc' = "read" \/ err' # "nil", buf' = Final(answer', Current'),
                      ~answer'.interim
               PROVE  \/ answer'.frame = Unknown /\ answer'.status \notin {"204", "304"}
                      \/ pc' = "finish" /\ err' = "EOF" /\ conn'.ended # "no"
    BY DEF EndMissed
  <1>1. CASE ReadBuffer
    <2>1. pc = "read" /\ over = 0 /\ answer' = answer /\ Current' = Current
      BY <1>1, BufferRead DEF Current
    <2>2. PICK d, n, e, c, b, f :
            /\ Took(d, n, e, c) /\ Buffered(b, n, e, f, c) /\ buf' = b
            /\ b = buf \o d /\ b \in Seq(Bytes) /\ n \in Nat /\ Len(b) = Len(buf) + n /\ Len(b) \in Nat
            /\ answer \in Replies /\ Current \in Request /\ Begins(b, Final(answer, Current))
            /\ f # Unknown => Len(b) >= 3 /\ f = answer.frame /\ BodyRead(b, n) = Len(b) - 3
            /\ Headers(b) => Len(b) >= 3 /\ f = answer.frame /\ StatusOf(b) = answer.status
            /\ frame = Unknown /\ Len(b) >= 3 => Headers(b)
            /\ frame # Unknown => f = frame /\ Mine /\ Len(buf) >= 3 /\ ~Headers(b)
      BY <1>1, <2>1, BufferMine
    <2>3. b = Final(answer, Current) /\ Len(b) >= 3
      BY <2>1, <2>2, WholeLength
    <2>4. CASE b = buf
      <3>1. Mine
        BY <2>1, <2>2, <2>4 DEF Mine
      <3> QED
        BY <2>1, <2>3, <2>4, <3>1 DEF EndMissed
    <2>4a. b # buf => d # <<>>
      BY <2>2, BaseTypes, ConcatEmptySeq
    <2>4b. b # buf /\ e # "nil" => e = "EOF"
      BY <2>2, <2>4a, EmptySeq DEF Took
    <2>6. CASE e = "EOF"
      <3>1. pc' = "finish" /\ err' \in {"nil", "EOF"}
        BY <2>2, <2>6 DEF Buffered, Loop
      <3>2. err' = "EOF"
        BY <3>1
      <3>3. c.ended # "no"
        BY <2>2, <2>6 DEF Took
      <3>4. conn' = c
        <4>1. ~(~Bodyless(b, f) /\ WrongLength(f, BodyRead(b, n)))
          <5> SUFFICES ASSUME WrongLength(f, BodyRead(b, n)), ~Bodyless(b, f) PROVE FALSE
            OBVIOUS
          <5>1. f >= 0 /\ BodyRead(b, n) > f
            BY DEF WrongLength
          <5>2. f # Unknown /\ f = answer.frame /\ BodyRead(b, n) = Len(b) - 3
            BY <2>2, <5>1 DEF Unknown
          <5>3. f \in Nat /\ f # Chunked
            BY <5>1, <5>2, <2>2, ReplyType DEF Frame, Chunked
          <5>4. PICK m \in Nat : m = Len(b) /\ m - 3 > f
            BY <2>2, <5>1, <5>2
          <5>5. answer.frame >= 0 /\ answer.frame # Unknown /\ answer.frame # Chunked
            BY <5>1, <5>2, <5>3
          <5>6. Len(Final(answer, Current)) = 3 \/ Len(Final(answer, Current)) = 3 + answer.frame
            BY <2>2, <5>5, WholeLength
          <5>7. m = 3 \/ m = 3 + f
            BY <2>3, <5>2, <5>4, <5>6
          <5> QED
            BY ONLY <5>3, <5>4, <5>7
        <4> QED
          BY <2>2, <4>1 DEF Buffered, Leaves
      <3> QED
        BY <3>1, <3>2, <3>3, <3>4
    <2>5. CASE b # buf /\ e = "nil"
      <3>1. e = "nil"
        BY <2>5
      <3>2. ~Done(b, n, f)
        <4>1. Done(b, n, f) => pc' = "finish" /\ err' = "nil"
          BY <2>2, <3>1 DEF Buffered, Loop
        <4> QED
          BY <4>1
      <3>3. f = answer.frame
        <4>1. CASE frame = Unknown
          BY <2>2, <2>3, <4>1
        <4>2. CASE frame # Unknown
          BY <2>2, <4>2
        <4> QED
          BY <4>1, <4>2
      <3>4. answer.frame # Unknown => ~Complete(answer.frame, Len(b) - 3, b)
        BY <2>2, <3>2, <3>3 DEF Done
      <3>5. answer.frame # Chunked
        <4>1. Chunked # Unknown
          BY DEF Chunked, Unknown
        <4> QED
          BY <2>2, <2>3, <3>4, <4>1, EndKnown
      <3>6. answer.status \notin {"204", "304"}
        <4> SUFFICES ASSUME answer.status \in {"204", "304"} PROVE FALSE
          OBVIOUS
        <4>1. CASE frame = Unknown
          <5>1. Bodyless(b, f)
            BY <2>2, <2>3, <3>3, <3>5, <4>1 DEF Bodyless
          <5> QED
            BY <3>2, <5>1 DEF Done
        <4>2. CASE frame # Unknown
          <5>1. Len(b) = 3
            BY <2>2, <2>3, <3>5, WholeLength
          <5>2. n = 0
            <6>1. PICK l \in Nat : l = Len(buf)
              BY BaseTypes
            <6>2. l >= 3 /\ n \in Nat /\ l + n = 3
              BY <2>2, <4>2, <5>1, <6>1
            <6> QED
              BY <6>2
          <5>3. d = <<>>
            BY <2>2, <5>2, EmptySeq DEF Took
          <5>4. b = buf
            BY <2>2, <5>3, BaseTypes, ConcatEmptySeq
          <5> QED
            BY <2>5, <5>4
        <4> QED
          BY <4>1, <4>2
      <3>7. answer.frame = Unknown
        BY <2>2, <2>3, <3>4, <3>6, EndKnown
      <3> QED
        BY <2>1, <3>6, <3>7
    <2> QED
      BY <2>4, <2>4b, <2>5, <2>6
  <1>2. CASE ReadChunk
    <2>1. pc = "read" /\ buf' = buf /\ answer' = answer /\ Current' = Current
      BY <1>2, ChunkRead DEF Current
    <2>2. Mine
      BY <2>1 DEF Mine
    <2> QED
      BY <2>1, <2>2 DEF EndMissed
  <1>3. CASE Arrive \/ ServerEnds \/ UNCHANGED vars
    <2>1. buf' = buf /\ pc' = pc /\ err' = err /\ answer' = answer /\ Current' = Current
      BY <1>3 DEF Arrive, ServerEnds, vars, client, Current
    <2>2. Mine
      BY <2>1 DEF Mine
    <2>3. conn.ended # "no" => conn'.ended # "no"
      BY <1>3, BaseTypes DEF Arrive, ServerEnds, vars, Conns
    <2> QED
      BY <2>1, <2>2, <2>3 DEF EndMissed
  <1> QED
    BY <1>1, <1>2, <1>3, MineSteps

\* What Send returns, and when.
LEMMA Outcome ==
  ASSUME Base, [Next]_vars, pc' = "idle", res'.kind = "payload"
  PROVE  \/ pc = "idle" /\ res' = res /\ answer' = answer
         \/ /\ pc = "finish" /\ Mine /\ res'.payload = buf /\ res'.err = err /\ res'.of = Current
            /\ res'.ended = (conn.ended # "no") /\ answer' = answer
  <1>1. CASE Finish
    <2>1. Answered
      BY <1>1 DEF Finish, NoAnswer, UnknownAnswer, NoStatus, Redirect, Return, Enter
    <2>2. /\ IsHTTP /\ res'.payload = buf /\ res'.err = err /\ res'.of = Current
          /\ res'.ended = (conn.ended # "no") /\ answer' = answer /\ pc = "finish"
      BY <1>1, <2>1 DEF Answered, Return, Finish, Current
    <2>3. Mine
      BY <2>2, EmptySeq DEF IsHTTP, Mine
    <2> QED
      BY <2>2, <2>3
  <1>2. CASE ReadBuffer
    <2>1. pc = "read" /\ \E d, n, e, c, b : Soaked(b, c) \/ \E f : Buffered(b, n, e, f, c)
      BY <1>2, BufferRead
    <2> QED
      BY <2>1 DEF Soaked, Buffered, Loop
  <1>3. CASE ReadChunk
    <2>1. \E d, n, e, c : Thrown(d, n, e, c)
      BY <1>3, ChunkRead
    <2> QED
      BY <2>1 DEF Thrown, Loop
  <1>4. CASE Send \/ isAlive \/ Dial \/ Handshake \/ Write
    BY <1>4 DEF Send, isAlive, Enter, Dial, Handshake, Write, Return
  <1>5. CASE Arrive \/ ServerEnds \/ UNCHANGED vars
    BY <1>5 DEF Arrive, ServerEnds, vars, client
  <1> QED
    BY <1>1, <1>2, <1>3, <1>4, <1>5 DEF Next, ClientStep

\* Send returns what the read loop left.
LEMMA TruncationStep ==
  Base /\ EndSeen /\ TruncationReported /\ [Next]_vars => TruncationReported'
  <1> SUFFICES ASSUME Base, EndSeen, TruncationReported, [Next]_vars,
                      pc' = "idle", res'.kind = "payload", res'.err = "nil", ~res'.ended
               PROVE  \/ Len(res'.payload) >= BufLen
                      \/ Len(res'.payload) = Len(Final(answer', res'.of))
                      \/ answer'.frame = Chunked /\ HasChunkedSuffix(res'.payload)
    BY DEF TruncationReported
  <1>1. CASE pc = "idle" /\ res' = res /\ answer' = answer
    BY <1>1, Zenon DEF TruncationReported
  <1>2. CASE /\ pc = "finish" /\ Mine /\ res'.payload = buf /\ res'.err = err /\ res'.of = Current
             /\ res'.ended = (conn.ended # "no") /\ answer' = answer
    <2>1. err = "nil" /\ conn.ended = "no"
      BY <1>2
    <2>2. \/ Len(buf) >= BufLen \/ Len(buf) = Len(Final(answer, Current))
          \/ answer.frame = Chunked /\ HasChunkedSuffix(buf)
      BY <1>2, <2>1 DEF EndSeen
    <2> QED
      BY <1>2, <2>2, Zenon
  <1> QED
    BY <1>1, <1>2, Outcome

\* The same for a whole answer.
LEMMA WholeStep ==
  Base /\ EndMissed /\ WholeIsNoError /\ [Next]_vars => WholeIsNoError'
  <1> SUFFICES ASSUME Base, EndMissed, WholeIsNoError, [Next]_vars,
                      pc' = "idle", res'.kind = "payload", res'.payload = Final(answer', res'.of)
               PROVE  \/ res'.err = "nil"
                      \/ answer'.frame = Unknown /\ answer'.status \notin {"204", "304"}
                      \/ answer'.interim
                      \/ res'.err = "EOF" /\ res'.ended
    BY DEF WholeIsNoError
  <1>1. CASE pc = "idle" /\ res' = res /\ answer' = answer
    BY <1>1, Zenon DEF WholeIsNoError
  <1>2. CASE /\ pc = "finish" /\ Mine /\ res'.payload = buf /\ res'.err = err /\ res'.of = Current
             /\ res'.ended = (conn.ended # "no") /\ answer' = answer
    BY <1>2, Zenon DEF EndMissed
  <1> QED
    BY <1>1, <1>2, Outcome

(***************************************************************************)
(* An answer with less than the server sent, as far as the buffer could     *)
(* hold it, comes with an error, unless the server ended the connection or  *)
(* the answer is cut behind what reads like the last chunk: for servers     *)
(* that send as much as they say, whatever their bodies and headers read    *)
(* like, and a buffer that is not larger than the largest response.         *)
(***************************************************************************)
THEOREM TruncationIsReported ==
  ASSUME \A a \in Answer : WellFramed(a), BufLen <= MaxResponse
  PROVE  Spec => []TruncationReported
  <1>1. NewHTTPClient => Framed /\ Counted /\ EndSeen /\ TruncationReported
    BY DEF NewHTTPClient, Framed, Counted, EndSeen, Mine, TruncationReported
  <1>2. Base /\ Streams /\ Framed /\ Counted /\ EndSeen /\ [Next]_vars => EndSeen'
    BY EndSeenStep DEF Framing
  <1> QED
    BY BaseInit, BaseStep, StreamsInit, StreamsStep, FramedStep, CountedStep, TruncationStep,
       <1>1, <1>2, PTL DEF Spec

(***************************************************************************)
(* A whole answer that fits into the buffer comes with an error only where  *)
(* its end is hard to see or came with the end of the stream, for servers   *)
(* that send as much as they say.                                           *)
(***************************************************************************)
THEOREM WholeAnswersAreNoErrors ==
  ASSUME \A a \in Answer : WellFramed(a)
  PROVE  Spec => []WholeIsNoError
  <1>1. NewHTTPClient => Framed /\ Counted /\ EndMissed /\ WholeIsNoError
    BY DEF NewHTTPClient, Framed, Counted, EndMissed, Mine, WholeIsNoError
  <1>2. Base /\ Streams /\ Framed /\ Counted /\ EndMissed /\ [Next]_vars => EndMissed'
    BY EndMissedStep DEF Framing
  <1> QED
    BY BaseInit, BaseStep, StreamsInit, StreamsStep, FramedStep, CountedStep, WholeStep,
       <1>1, <1>2, PTL DEF Spec
=============================================================================
