-------------------------- MODULE TCPTransportProofs -----------------------
(***************************************************************************)
(* TCPOutput and TCPInput, for any number of workers, sessions and breaks  *)
(* and buffers of any size: an accepted payload is in one place at a time, *)
(* a sticky session keeps its order until a connection breaks, a buffer    *)
(* whose workers all wait to put back a payload is lost, and the pair      *)
(* implements PayloadTransport.                                            *)
(***************************************************************************)
EXTENDS TCPTransport, SequenceTheorems, TLAPS

-----------------------------------------------------------------------------
(* Sequences                                                                 *)

\* The indices of a sequence, and what it holds.
LEMMA SeqRange ==
  ASSUME NEW S, NEW s \in Seq(S)
  PROVE  /\ Len(s) \in Nat /\ DOMAIN s = 1 .. Len(s)
         /\ Range(s) \subseteq S
         /\ \A i \in 1 .. Len(s) : s[i] \in Range(s)
         /\ \A x \in Range(s) : \E i \in 1 .. Len(s) : x = s[i]
  BY LenProperties DEF Range

\* What Append adds.
LEMMA AppendRange ==
  ASSUME NEW S, NEW s \in Seq(S), NEW x \in S
  PROVE  /\ Append(s, x) \in Seq(S)
         /\ Len(s) \in Nat /\ DOMAIN s = 1 .. Len(s)
         /\ Len(Append(s, x)) = Len(s) + 1
         /\ DOMAIN Append(s, x) = 1 .. Len(s) + 1
         /\ \A i \in 1 .. Len(s) : Append(s, x)[i] = s[i]
         /\ Append(s, x)[Len(s) + 1] = x
         /\ Range(Append(s, x)) = Range(s) \cup {x}
  <1>1. /\ Append(s, x) \in Seq(S) /\ Len(Append(s, x)) = Len(s) + 1
        /\ \A i \in 1 .. Len(s) : Append(s, x)[i] = s[i]
        /\ Append(s, x)[Len(s) + 1] = x
    BY AppendProperties
  <1>2. Len(s) \in Nat /\ DOMAIN s = 1 .. Len(s)
    BY LenProperties
  <1>3. DOMAIN Append(s, x) = 1 .. Len(s) + 1
    BY <1>1, LenProperties
  <1>4. 1 .. Len(s) + 1 = 1 .. Len(s) \cup {Len(s) + 1}
    BY <1>2
  <1>5. Range(Append(s, x)) = Range(s) \cup {x}
    BY <1>1, <1>2, <1>3, <1>4 DEF Range
  <1> QED
    BY <1>1, <1>2, <1>3, <1>5

\* What Tail takes away.
LEMMA TailRange ==
  ASSUME NEW S, NEW s \in Seq(S), s # <<>>
  PROVE  /\ Tail(s) \in Seq(S) /\ Head(s) \in S /\ Head(s) = s[1]
         /\ Len(s) \in Nat \ {0} /\ DOMAIN s = 1 .. Len(s)
         /\ Len(Tail(s)) = Len(s) - 1
         /\ DOMAIN Tail(s) = 1 .. Len(s) - 1
         /\ \A i \in 1 .. Len(s) - 1 : Tail(s)[i] = s[i + 1]
         /\ Range(s) = Range(Tail(s)) \cup {Head(s)}
  <1>1. /\ Tail(s) \in Seq(S) /\ Head(s) \in S /\ Len(Tail(s)) = Len(s) - 1
        /\ \A i \in 1 .. Len(Tail(s)) : Tail(s)[i] = s[i + 1]
    BY HeadTailProperties
  <1>2. Len(s) \in Nat \ {0} /\ DOMAIN s = 1 .. Len(s)
    BY EmptySeq, LenProperties
  <1>3. Head(s) = s[1]
    BY <1>2
  <1>4. DOMAIN Tail(s) = 1 .. Len(s) - 1
    BY <1>1, LenProperties
  <1>5. \A i \in 1 .. Len(s) : i = 1 \/ (i - 1 \in 1 .. Len(s) - 1 /\ s[i] = Tail(s)[i - 1])
    BY <1>1, <1>2
  <1>6. \A i \in 1 .. Len(s) - 1 : i + 1 \in 1 .. Len(s) /\ s[i + 1] = Tail(s)[i]
    BY <1>1, <1>2
  <1>7. 1 \in 1 .. Len(s)
    BY <1>2
  <1>8. Range(s) = Range(Tail(s)) \cup {Head(s)}
    <2>1. Range(s) \subseteq Range(Tail(s)) \cup {Head(s)}
      <3> SUFFICES ASSUME NEW i \in 1 .. Len(s)
                   PROVE  s[i] \in Range(Tail(s)) \cup {Head(s)}
        BY <1>2 DEF Range
      <3>1. CASE i = 1
        BY <1>3, <3>1
      <3>2. CASE i # 1
        BY <1>4, <1>5, <3>2 DEF Range
      <3> QED
        BY <3>1, <3>2
    <2>2. Range(Tail(s)) \subseteq Range(s)
      BY <1>2, <1>4, <1>6 DEF Range
    <2>3. Head(s) \in Range(s)
      BY <1>2, <1>3, <1>7 DEF Range
    <2> QED
      BY <2>1, <2>2, <2>3
  <1> QED
    BY <1>1, <1>2, <1>3, <1>4, <1>8

\* Appending something new keeps a sequence free of repetitions.
LEMMA AppendNew ==
  ASSUME NEW S, NEW s \in Seq(S), NEW x \in S, IsInjective(s), x \notin Range(s)
  PROVE  IsInjective(Append(s, x))
  <1>1. /\ Len(s) \in Nat /\ DOMAIN s = 1 .. Len(s) /\ DOMAIN Append(s, x) = 1 .. Len(s) + 1
        /\ \A i \in 1 .. Len(s) : Append(s, x)[i] = s[i]
        /\ Append(s, x)[Len(s) + 1] = x
    BY AppendRange
  <1>2. \A i \in 1 .. Len(s) : s[i] # x
    BY SeqRange
  <1>3. \A i \in 1 .. Len(s) + 1 : i \in 1 .. Len(s) \/ i = Len(s) + 1
    BY <1>1
  <1> QED
    BY <1>1, <1>2, <1>3 DEF IsInjective

\* The tail has no repetition either, and does not hold the head again.
LEMMA TailNew ==
  ASSUME NEW S, NEW s \in Seq(S), s # <<>>, IsInjective(s)
  PROVE  IsInjective(Tail(s)) /\ Head(s) \notin Range(Tail(s))
  <1>1. /\ Len(s) \in Nat \ {0} /\ DOMAIN s = 1 .. Len(s) /\ DOMAIN Tail(s) = 1 .. Len(s) - 1
        /\ \A i \in 1 .. Len(s) - 1 : Tail(s)[i] = s[i + 1]
        /\ Head(s) = s[1]
    BY TailRange
  <1>2. IsInjective(Tail(s))
    BY <1>1 DEF IsInjective
  <1>3. \A i \in 1 .. Len(s) - 1 : Tail(s)[i] # s[1]
    BY <1>1 DEF IsInjective
  <1> QED
    BY <1>1, <1>2, <1>3 DEF Range

-----------------------------------------------------------------------------
(* The lines of a connection                                                 *)

Text == Payload \cup {Sep}

\* A payload on a connection waits for its separator.
LEMMA PayloadSent ==
  ASSUME NEW l \in Seq(Text), Alternates(l), l = <<>> \/ EndsWith(l, Sep), NEW x \in Payload
  PROVE  /\ Alternates(Append(l, x)) /\ EndsWith(Append(l, x), x)
         /\ Whole(Append(l, x)) = Whole(l)
         /\ SealedOnce(l) => SealedOnce(Append(l, x))
  <1> DEFINE m == Append(l, x)
  <1>1. /\ Len(l) \in Nat /\ DOMAIN l = 1 .. Len(l) /\ DOMAIN m = 1 .. Len(l) + 1
        /\ Len(m) = Len(l) + 1 /\ m # <<>>
        /\ \A i \in 1 .. Len(l) : m[i] = l[i]
        /\ m[Len(l) + 1] = x
    <2>1. x \in Text
      BY DEF Text
    <2> QED
      BY <2>1, AppendRange, AppendProperties
  <1>2. x # Sep
    BY SepAssumption DEF SepAssumption
  <1>3. l = <<>> => Len(l) = 0
    BY EmptySeq
  <1> HIDE DEF m
  <1>4. Alternates(m)
    <2>1. m[1] # Sep
      BY <1>1, <1>2, <1>3 DEF Alternates, EndsWith
    <2>2. ASSUME NEW i \in 1 .. Len(l) + 1, i + 1 \in 1 .. Len(l) + 1
          PROVE  m[i] = Sep <=> m[i + 1] # Sep
      <3>1. CASE i = Len(l)
        BY <1>1, <1>2, <1>3, <3>1 DEF EndsWith
      <3>2. CASE i # Len(l)
        <4>1. i \in 1 .. Len(l) /\ i + 1 \in 1 .. Len(l)
          <5>1. Len(l) \in Nat
            BY <1>1
          <5> QED
            BY <2>2, <3>2, <5>1
        <4> QED
          BY <1>1, <4>1 DEF Alternates
      <3> QED
        BY <3>1, <3>2
    <2> QED
      BY <1>1, <2>1, <2>2 DEF Alternates
  <1>5. Sealed(m) = Sealed(l)
    BY <1>1, <1>2 DEF Sealed
  <1>6. \A i \in Sealed(l) : m[i] = l[i]
    BY <1>1 DEF Sealed
  <1>7. Whole(m) = Whole(l) /\ (SealedOnce(l) => SealedOnce(m))
    BY <1>5, <1>6 DEF Whole, SealedOnce
  <1> QED
    BY <1>1, <1>4, <1>7 DEF EndsWith, m

\* The separator makes the payload before it count.
LEMMA SeparatorSent ==
  ASSUME NEW l \in Seq(Text), Alternates(l), NEW x \in Payload, EndsWith(l, x)
  PROVE  /\ Alternates(Append(l, Sep)) /\ EndsWith(Append(l, Sep), Sep)
         /\ Whole(Append(l, Sep)) = Whole(l) \cup {x}
         /\ SealedOnce(l) /\ x \notin Whole(l) => SealedOnce(Append(l, Sep))
  <1> DEFINE m == Append(l, Sep)
  <1>1. /\ Len(l) \in Nat /\ DOMAIN l = 1 .. Len(l) /\ DOMAIN m = 1 .. Len(l) + 1
        /\ Len(m) = Len(l) + 1 /\ m # <<>>
        /\ \A i \in 1 .. Len(l) : m[i] = l[i]
        /\ m[Len(l) + 1] = Sep
    BY AppendRange, AppendProperties DEF Text
  <1>2. x # Sep
    BY SepAssumption DEF SepAssumption
  <1>3. Len(l) \in Nat \ {0} /\ l[Len(l)] = x
    BY EmptySeq DEF EndsWith
  <1> HIDE DEF m
  <1>4. Alternates(m)
    <2>1. m[1] # Sep
      BY <1>1, <1>3 DEF Alternates, EndsWith
    <2>2. ASSUME NEW i \in 1 .. Len(l) + 1, i + 1 \in 1 .. Len(l) + 1
          PROVE  m[i] = Sep <=> m[i + 1] # Sep
      <3>1. CASE i = Len(l)
        BY <1>1, <1>2, <1>3, <3>1
      <3>2. CASE i # Len(l)
        <4>1. i \in 1 .. Len(l) /\ i + 1 \in 1 .. Len(l)
          <5>1. Len(l) \in Nat
            BY <1>1
          <5> QED
            BY <2>2, <3>2, <5>1
        <4> QED
          BY <1>1, <4>1, ZenonT(60) DEF Alternates
      <3> QED
        BY <3>1, <3>2
    <2> QED
      BY <1>1, <2>1, <2>2 DEF Alternates
  <1>5. Sealed(m) = Sealed(l) \cup {Len(l)}
    BY <1>1, <1>3 DEF Sealed
  <1>6. (\A i \in Sealed(l) : m[i] = l[i]) /\ m[Len(l)] = x
    BY <1>1, <1>3 DEF Sealed
  <1>7. Whole(m) = Whole(l) \cup {x}
    BY <1>5, <1>6 DEF Whole
  <1>8. SealedOnce(l) /\ x \notin Whole(l) => SealedOnce(m)
    BY <1>5, <1>6 DEF Whole, SealedOnce
  <1> QED
    BY <1>1, <1>4, <1>7, <1>8 DEF EndsWith, m

\* What a break leaves is a prefix.
LEMMA LinePrefix ==
  ASSUME NEW l \in Seq(Text), NEW m \in Seq(Text), Len(m) <= Len(l),
         \A i \in 1 .. Len(m) : m[i] = l[i], Alternates(l)
  PROVE  /\ Alternates(m) /\ Whole(m) \subseteq Whole(l) /\ Range(m) \subseteq Range(l)
         /\ SealedOnce(l) => SealedOnce(m)
  <1>1. /\ Len(l) \in Nat /\ DOMAIN l = 1 .. Len(l)
        /\ Len(m) \in Nat /\ DOMAIN m = 1 .. Len(m) /\ 1 .. Len(m) \subseteq 1 .. Len(l)
    BY LenProperties
  <1>2. m # <<>> => 1 \in 1 .. Len(m) /\ l # <<>>
    BY <1>1, EmptySeq
  <1>3. Alternates(m)
    BY <1>1, <1>2 DEF Alternates
  <1>4. Sealed(m) \subseteq Sealed(l) /\ \A i \in Sealed(m) : m[i] = l[i]
    BY <1>1 DEF Sealed
  <1>5. Whole(m) \subseteq Whole(l) /\ (SealedOnce(l) => SealedOnce(m))
    BY <1>4 DEF Whole, SealedOnce
  <1>6. Range(m) \subseteq Range(l)
    BY <1>1 DEF Range
  <1> QED
    BY <1>3, <1>5, <1>6

\* What is left when a payload and its separator go.
LEMMA LineRest ==
  ASSUME NEW l \in Seq(Text), NEW m \in Seq(Text), Len(l) = Len(m) + 2, l[2] = Sep,
         \A i \in 1 .. Len(m) : m[i] = l[i + 2], Alternates(l)
  PROVE  /\ Alternates(m) /\ Range(m) \subseteq Range(l)
         /\ l[1] \in Whole(l) /\ Whole(l) = Whole(m) \cup {l[1]}
         /\ SealedOnce(l) => SealedOnce(m) /\ l[1] \notin Whole(m)
         /\ InOrder(l) => InOrder(m) /\ \A q \in Range(m) \ {Sep} : Before(l[1], q)
         /\ \A x : EndsWith(l, x) => m = <<>> \/ EndsWith(m, x)
  <1>1. /\ Len(l) \in Nat /\ DOMAIN l = 1 .. Len(m) + 2
        /\ Len(m) \in Nat /\ DOMAIN m = 1 .. Len(m)
    BY LenProperties
  <1>2. l[1] # Sep /\ 1 \in DOMAIN l /\ 2 \in DOMAIN l
    BY <1>1, EmptySeq DEF Alternates
  <1>3. \A i \in 1 .. Len(m) : i + 2 \in DOMAIN l
    BY <1>1
  <1>0. 3 \in DOMAIN l => l[3] # Sep
    <2>1. 2 + 1 \in DOMAIN l => (l[2] = Sep <=> l[2 + 1] # Sep)
      BY <1>2 DEF Alternates
    <2> QED
      BY <2>1
  <1>4. Alternates(m)
    <2>1. m # <<>> => m[1] # Sep
      <3>1. m # <<>> => 1 \in 1 .. Len(m) /\ 3 \in DOMAIN l /\ m[1] = l[3]
        BY <1>1, EmptySeq
      <3> QED
        BY <1>0, <3>1
    <2>2. ASSUME NEW i \in 1 .. Len(m), i + 1 \in 1 .. Len(m)
          PROVE  m[i] = Sep <=> m[i + 1] # Sep
      <3>1. /\ i + 2 \in DOMAIN l /\ (i + 2) + 1 \in DOMAIN l
            /\ m[i] = l[i + 2] /\ m[i + 1] = l[(i + 2) + 1]
        BY <1>1, <2>2
      <3> QED
        BY <3>1 DEF Alternates
    <2> QED
      BY <1>1, <2>1, <2>2 DEF Alternates
  <1>5. Range(m) \subseteq Range(l)
    BY <1>1, <1>3 DEF Range
  <1>6. \A i \in DOMAIN l : i \in Sealed(l) <=> i = 1 \/ i - 2 \in Sealed(m)
    <2> SUFFICES ASSUME NEW i \in 1 .. Len(m) + 2
                 PROVE  i \in Sealed(l) <=> i = 1 \/ i - 2 \in Sealed(m)
      BY <1>1
    <2>1. CASE i = 1
      BY <1>1, <1>2, <2>1 DEF Sealed
    <2>2. CASE i = 2
      BY <1>0, <1>1, <2>2 DEF Sealed
    <2>3. CASE i > 2
      <3>1. i - 2 \in 1 .. Len(m)
        BY <1>1, <2>3
      <3>2. i + 1 \in 1 .. Len(m) + 2 <=> (i - 2) + 1 \in 1 .. Len(m)
        BY <1>1, <2>3
      <3>3. (i - 2) + 1 \in 1 .. Len(m) => m[(i - 2) + 1] = l[i + 1]
        BY <1>1, <2>3
      <3> QED
        BY <1>1, <2>3, <3>1, <3>2, <3>3 DEF Sealed
    <2> QED
      BY <2>1, <2>2, <2>3
  <1>7. \A i \in Sealed(m) : i + 2 \in Sealed(l) /\ l[i + 2] = m[i] /\ i \in Nat
    <2> SUFFICES ASSUME NEW i \in Sealed(m)
                 PROVE  i + 2 \in Sealed(l) /\ l[i + 2] = m[i] /\ i \in Nat
      OBVIOUS
    <2>1. i \in 1 .. Len(m)
      BY <1>1 DEF Sealed
    <2>2. (i + 2) - 2 = i
      BY <1>1, <2>1
    <2> QED
      BY <1>3, <1>6, <2>1, <2>2, SMTT(30)
  <1>8. 1 \in Sealed(l)
    BY <1>2, <1>6
  <1>9. \A i \in Sealed(l) : i = 1 \/ (i - 2 \in Sealed(m) /\ m[i - 2] = l[i])
    <2> SUFFICES ASSUME NEW i \in Sealed(l), i # 1
                 PROVE  i - 2 \in Sealed(m) /\ m[i - 2] = l[i]
      OBVIOUS
    <2>1. i \in 1 .. Len(m) + 2 /\ i - 2 \in Sealed(m)
      BY <1>1, <1>6 DEF Sealed
    <2>2. (i - 2) + 2 = i
      BY <1>1, <2>1
    <2> QED
      BY <1>7, <2>1, <2>2
  <1>10. l[1] \in Whole(l) /\ Whole(l) = Whole(m) \cup {l[1]}
    <2>1. l[1] \in Whole(l)
      BY <1>8 DEF Whole
    <2>2. Whole(l) \subseteq Whole(m) \cup {l[1]}
      BY <1>9 DEF Whole
    <2>3. Whole(m) \subseteq Whole(l)
      BY <1>7 DEF Whole
    <2> QED
      BY <2>1, <2>2, <2>3
  <1>11. ASSUME SealedOnce(l)
         PROVE  SealedOnce(m) /\ l[1] \notin Whole(m)
    <2>1. SealedOnce(m)
      BY <1>7, <1>11 DEF SealedOnce
    <2>2. \A i \in Sealed(m) : m[i] # l[1]
      BY <1>7, <1>8, <1>11 DEF SealedOnce
    <2> QED
      BY <2>1, <2>2 DEF Whole
  <1>12. ASSUME InOrder(l)
         PROVE  InOrder(m) /\ \A q \in Range(m) \ {Sep} : Before(l[1], q)
    <2>1. InOrder(m)
      BY <1>1, <1>3, <1>12, SMTT(30) DEF InOrder
    <2>2. \A i \in 1 .. Len(m) : m[i] # Sep => Before(l[1], m[i])
      <3> SUFFICES ASSUME NEW i \in 1 .. Len(m), m[i] # Sep PROVE Before(l[1], m[i])
        OBVIOUS
      <3>1. i + 2 \in DOMAIN l /\ 1 < i + 2 /\ l[i + 2] = m[i]
        BY <1>3
      <3> QED
        BY <1>2, <1>12, <3>1 DEF InOrder
    <2> QED
      BY <1>1, <2>1, <2>2 DEF Range
  <1>13. \A x : EndsWith(l, x) => m = <<>> \/ EndsWith(m, x)
    <2>1. m # <<>> => m[Len(m)] = l[Len(l)]
      <3>1. m # <<>> => Len(m) \in 1 .. Len(m)
        BY <1>1, EmptySeq
      <3> QED
        BY <1>1, <3>1
    <2> QED
      BY <2>1 DEF EndsWith
  <1> QED
    BY <1>4, <1>5, <1>10, <1>11, <1>12, <1>13

\* The part of Line(c) that the handler has taken off the wire.
Front(c) == buffer[c] \o (IF handler[c] = "push" THEN <<Sep>> ELSE <<>>)

\* Line(c) in two parts.
LEMMA LineParts ==
  ASSUME TypeOK, NEW c \in Conn
  PROVE  /\ buffer[c] \in Seq(Text) /\ wire[c] \in Seq(Text)
         /\ Front(c) \in Seq(Text) /\ Line(c) \in Seq(Text)
         /\ Line(c) = Front(c) \o wire[c]
         /\ handler[c] # "push" => Front(c) = buffer[c]
         /\ handler[c] = "push" => Front(c) = buffer[c] \o <<Sep>>
  <1>1. buffer[c] \in Seq(Payload) /\ wire[c] \in Seq(Text)
    BY DEF TypeOK, ConnTypeOK, InputTypeOK, Text
  <1>2. buffer[c] \in Seq(Text)
    BY <1>1 DEF Text
  <1>3. <<Sep>> \in Seq(Text) /\ <<>> \in Seq(Text)
    BY DEF Text
  <1>4. Front(c) \in Seq(Text)
    BY <1>2, <1>3, ConcatProperties DEF Front
  <1>5. Front(c) \o wire[c] \in Seq(Text)
    BY <1>1, <1>4, ConcatProperties
  <1>6. handler[c] # "push" => Front(c) = buffer[c]
    BY <1>2, ConcatEmptySeq DEF Front
  <1>7. Line(c) = Front(c) \o wire[c]
    BY DEF Line, Front
  <1> QED
    BY <1>1, <1>2, <1>4, <1>5, <1>6, <1>7 DEF Front

\* Appending to the second of two parts.
LEMMA AppendAfter ==
  ASSUME NEW S, NEW f \in Seq(S), NEW w \in Seq(S), NEW x \in S
  PROVE  f \o Append(w, x) = Append(f \o w, x)
  OBVIOUS

\* A write adds a line to its connection only.
LEMMA LineSend ==
  ASSUME TypeOK, NEW c \in Conn, NEW x \in Text, Send(c, x), UNCHANGED <<handler, buffer>>
  PROVE  Line(c)' = Append(Line(c), x) /\ \A d \in Conn \ {c} : Line(d)' = Line(d)
  <1>1. wire'[c] = Append(wire[c], x) /\ \A d \in Conn \ {c} : wire'[d] = wire[d]
    BY DEF Send, TypeOK, ConnTypeOK
  <1>2. \A d \in Conn \ {c} : Line(d)' = Line(d)
    BY <1>1 DEF Line
  <1>3. Line(c)' = Front(c) \o Append(wire[c], x)
    BY <1>1 DEF Line, Front
  <1>4. Front(c) \in Seq(Text) /\ wire[c] \in Seq(Text) /\ Line(c) = Front(c) \o wire[c]
    BY LineParts
  <1>5. Front(c) \o Append(wire[c], x) = Append(Front(c) \o wire[c], x)
    BY <1>4, AppendAfter
  <1> QED
    BY <1>2, <1>3, <1>4, <1>5, Zenon

\* A sequence is its head and its tail.
LEMMA HeadAndTail ==
  ASSUME NEW S, NEW s \in Seq(S), s # <<>>
  PROVE  s = <<Head(s)>> \o Tail(s)
  <1>1. /\ Tail(s) \in Seq(S) /\ Head(s) \in S /\ Head(s) = s[1]
        /\ Len(s) \in Nat \ {0} /\ Len(Tail(s)) = Len(s) - 1
        /\ \A i \in 1 .. Len(s) - 1 : Tail(s)[i] = s[i + 1]
    BY TailRange
  <1>2. <<Head(s)>> \in Seq(S) /\ Len(<<Head(s)>>) = 1 /\ <<Head(s)>>[1] = s[1]
    BY <1>1
  <1>3. /\ <<Head(s)>> \o Tail(s) \in Seq(S)
        /\ Len(<<Head(s)>> \o Tail(s)) = 1 + Len(Tail(s))
        /\ \A i \in 1 .. 1 + Len(Tail(s)) : (<<Head(s)>> \o Tail(s))[i] =
              IF i <= 1 THEN <<Head(s)>>[i] ELSE Tail(s)[i - 1]
    BY <1>1, <1>2, ConcatProperties
  <1>4. \A i \in 1 .. Len(s) : s[i] = (<<Head(s)>> \o Tail(s))[i]
    <2> SUFFICES ASSUME NEW i \in 1 .. Len(s)
                 PROVE  s[i] = (<<Head(s)>> \o Tail(s))[i]
      OBVIOUS
    <2>1. CASE i = 1
      BY <1>1, <1>2, <1>3, <2>1
    <2>2. CASE i # 1
      <3>1. i - 1 \in 1 .. Len(s) - 1 /\ (i - 1) + 1 = i
        BY <1>1, <2>2
      <3> QED
        BY <1>1, <1>3, <2>2, <3>1
    <2> QED
      BY <2>1, <2>2
  <1>5. Len(s) = Len(<<Head(s)>> \o Tail(s))
    BY <1>1, <1>3
  <1> QED
    BY <1>3, <1>4, <1>5, SeqEqual

\* The head of the second of two parts may as well end the first.
LEMMA HeadMoves ==
  ASSUME NEW S, NEW f \in Seq(S), NEW w \in Seq(S), w # <<>>
  PROVE  f \o w = (f \o <<Head(w)>>) \o Tail(w)
  <1>1. Tail(w) \in Seq(S) /\ Head(w) \in S
    BY HeadTailProperties
  <1>2. <<Head(w)>> \in Seq(S)
    BY <1>1
  <1>3. w = <<Head(w)>> \o Tail(w)
    BY HeadAndTail
  <1>4. (f \o <<Head(w)>>) \o Tail(w) = f \o (<<Head(w)>> \o Tail(w))
    BY <1>1, <1>2, ConcatAssociative
  <1> QED
    BY <1>3, <1>4

\* Reading a line takes it off the wire, and Line(c) stays as it is.
LEMMA LineReadLine ==
  ASSUME TypeOK, NEW c \in Conn, ReadLine(c)
  PROVE  \A d \in Conn : Line(d)' = Line(d)
  <1> DEFINE h == Head(wire[c])
  <1>1. /\ wire'[c] = Tail(wire[c]) /\ wire[c] # <<>> /\ handler[c] = "read"
        /\ \A d \in Conn \ {c} : wire'[d] = wire[d]
    BY DEF ReadLine, Receive, TypeOK, ConnTypeOK
  <1>2. \A d \in Conn \ {c} : buffer'[d] = buffer[d] /\ handler'[d] = handler[d]
    BY DEF ReadLine, TypeOK, InputTypeOK
  <1>3. \A d \in Conn \ {c} : Line(d)' = Line(d)
    BY <1>1, <1>2 DEF Line
  <1>4. /\ buffer[c] \in Seq(Text) /\ wire[c] \in Seq(Text)
        /\ Line(c) = buffer[c] \o wire[c]
    BY <1>1, LineParts
  <1>5. h \in Text /\ Tail(wire[c]) \in Seq(Text)
    BY <1>1, <1>4, HeadTailProperties
  <1>7. Line(c) = (buffer[c] \o <<h>>) \o Tail(wire[c])
    BY <1>1, <1>4, HeadMoves, Zenon
  <1>8. Line(c)' = Line(c)
    <2>1. CASE h = Sep
      <3>1. handler'[c] = "push" /\ buffer'[c] = buffer[c]
        BY <2>1 DEF ReadLine, TypeOK, InputTypeOK
      <3>2. Line(c)' = (buffer[c] \o <<Sep>>) \o Tail(wire[c])
        BY <1>1, <3>1 DEF Line
      <3> QED
        BY <1>7, <2>1, <3>2
    <2>2. CASE h # Sep
      <3>1. handler'[c] = "read" /\ buffer'[c] = Append(buffer[c], h)
        BY <1>1, <2>2 DEF ReadLine, TypeOK, InputTypeOK
      <3>2. Line(c)' = (Append(buffer[c], h) \o <<>>) \o Tail(wire[c])
        BY <1>1, <3>1 DEF Line
      <3>3. Append(buffer[c], h) \in Seq(Text) /\ Append(buffer[c], h) = buffer[c] \o <<h>>
        BY <1>4, <1>5, AppendProperties, AppendIsConcat
      <3>4. Append(buffer[c], h) \o <<>> = Append(buffer[c], h)
        BY <3>3, ConcatEmptySeq
      <3> QED
        BY <1>7, <3>2, <3>3, <3>4
    <2> QED
      BY <2>1, <2>2
  <1> QED
    BY <1>3, <1>8

\* Pushing takes the first payload and its separator.
LEMMA LinePush ==
  ASSUME TypeOK, Framed, NEW c \in Conn, Push(c)
  PROVE  /\ \A d \in Conn \ {c} : Line(d)' = Line(d)
         /\ Line(c) \in Seq(Text) /\ Line(c)' \in Seq(Text)
         /\ Len(Line(c)) = Len(Line(c)') + 2
         /\ Line(c)[1] \in Payload /\ Line(c)[2] = Sep
         /\ buffer[c] = <<Line(c)[1]>>
         /\ \A i \in 1 .. Len(Line(c)') : Line(c)'[i] = Line(c)[i + 2]
  <1>1. /\ handler[c] = "push" /\ handler'[c] = "read" /\ buffer'[c] = <<>> /\ wire' = wire
        /\ \A d \in Conn \ {c} : buffer'[d] = buffer[d] /\ handler'[d] = handler[d]
    BY DEF Push, TypeOK, InputTypeOK, connVars
  <1>2. \A d \in Conn \ {c} : Line(d)' = Line(d)
    BY <1>1 DEF Line
  <1>3. /\ buffer[c] \in Seq(Text) /\ wire[c] \in Seq(Text)
        /\ Front(c) = buffer[c] \o <<Sep>> /\ Line(c) = Front(c) \o wire[c]
        /\ Front(c) \in Seq(Text) /\ Line(c) \in Seq(Text)
    BY <1>1, LineParts
  <1>4. buffer[c] \in Seq(Payload) /\ Len(buffer[c]) = 1
    BY <1>1 DEF TypeOK, InputTypeOK, Framed
  <1>5. Line(c)' = wire[c]
    <2>1. Line(c)' = (<<>> \o <<>>) \o wire[c]
      BY <1>1 DEF Line
    <2> QED
      BY <1>3, <2>1, ConcatEmptySeq
  <1>6. <<Sep>> \in Seq(Text) /\ Len(<<Sep>>) = 1 /\ <<Sep>>[1] = Sep
    BY DEF Text
  <1>7. /\ Len(Front(c)) = 2 /\ Front(c)[1] = buffer[c][1] /\ Front(c)[2] = Sep
    <2>1. /\ Len(buffer[c] \o <<Sep>>) = 2
          /\ \A i \in 1 .. 1 + 1 : (buffer[c] \o <<Sep>>)[i] =
                IF i <= 1 THEN buffer[c][i] ELSE <<Sep>>[i - 1]
      BY <1>3, <1>4, <1>6, ConcatProperties
    <2> QED
      BY <1>3, <1>6, <2>1
  <1>8. /\ Len(Line(c)) = 2 + Len(wire[c]) /\ Len(wire[c]) \in Nat
        /\ \A i \in 1 .. 2 + Len(wire[c]) : Line(c)[i] =
              IF i <= 2 THEN Front(c)[i] ELSE wire[c][i - 2]
    <2>1. /\ Len(Front(c) \o wire[c]) = Len(Front(c)) + Len(wire[c])
          /\ \A i \in 1 .. Len(Front(c)) + Len(wire[c]) : (Front(c) \o wire[c])[i] =
                IF i <= Len(Front(c)) THEN Front(c)[i] ELSE wire[c][i - Len(Front(c))]
      BY <1>3, ConcatProperties, Zenon
    <2>2. Len(wire[c]) \in Nat
      BY <1>3, LenProperties
    <2> QED
      BY <1>3, <1>7, <2>1, <2>2, Zenon
  <1>9. Line(c)[1] = buffer[c][1] /\ Line(c)[2] = Sep
    BY <1>7, <1>8
  <1>10. buffer[c][1] \in Payload
    BY <1>4, LenProperties
  <1>11. buffer[c] = <<buffer[c][1]>>
    <2>1. /\ <<buffer[c][1]>> \in Seq(Payload) /\ Len(<<buffer[c][1]>>) = 1
          /\ <<buffer[c][1]>>[1] = buffer[c][1]
      BY <1>10
    <2>2. \A i \in 1 .. Len(buffer[c]) : buffer[c][i] = <<buffer[c][1]>>[i]
      BY <1>4, <2>1
    <2> QED
      BY <1>4, <2>1, <2>2, SeqEqual
  <1>12. \A i \in 1 .. Len(wire[c]) : wire[c][i] = Line(c)[i + 2]
    <2> SUFFICES ASSUME NEW i \in 1 .. Len(wire[c]) PROVE wire[c][i] = Line(c)[i + 2]
      OBVIOUS
    <2>1. i + 2 \in 1 .. 2 + Len(wire[c]) /\ ~(i + 2 <= 2) /\ (i + 2) - 2 = i
      BY <1>8
    <2> QED
      BY <1>8, <2>1
  <1>13. Len(Line(c)) = Len(Line(c)') + 2
    BY <1>5, <1>8
  <1>14. \A i \in 1 .. Len(Line(c)') : Line(c)'[i] = Line(c)[i + 2]
    BY <1>5, <1>12, Zenon
  <1>15. Line(c) \in Seq(Text) /\ Line(c)' \in Seq(Text)
    BY <1>3, <1>5, Zenon
  <1>16. buffer[c] = <<Line(c)[1]>> /\ Line(c)[1] \in Payload
    BY <1>9, <1>10, <1>11, Zenon
  <1> QED
    BY <1>2, <1>9, <1>13, <1>14, <1>15, <1>16, Zenon

\* A break leaves a prefix of what a connection holds.
LEMMA LineBreak ==
  ASSUME TypeOK, NEW c \in Conn, Break(c), UNCHANGED <<handler, buffer>>
  PROVE  /\ \A d \in Conn \ {c} : Line(d)' = Line(d)
         /\ Line(c) \in Seq(Text) /\ Line(c)' \in Seq(Text) /\ Len(Line(c)') <= Len(Line(c))
         /\ \A i \in 1 .. Len(Line(c)') : Line(c)'[i] = Line(c)[i]
  <1>1. PICK n \in 0 .. Len(wire[c]) : wire' = [wire EXCEPT ![c] = SubSeq(@, 1, n)]
    BY DEF Break
  <1>2. wire'[c] = SubSeq(wire[c], 1, n) /\ \A d \in Conn \ {c} : wire'[d] = wire[d]
    BY <1>1 DEF TypeOK, ConnTypeOK
  <1>3. \A d \in Conn \ {c} : Line(d)' = Line(d)
    BY <1>2 DEF Line
  <1>4. /\ wire[c] \in Seq(Text) /\ Front(c) \in Seq(Text)
        /\ Line(c) = Front(c) \o wire[c] /\ Line(c) \in Seq(Text)
    BY LineParts
  <1>5. Len(wire[c]) \in Nat /\ Len(Front(c)) \in Nat
    BY <1>4, LenProperties
  <1>6. /\ wire'[c] \in Seq(Text) /\ Len(wire'[c]) = n
        /\ \A i \in 1 .. n : wire'[c][i] = wire[c][i]
    <2>1. \A i \in 1 .. n : wire[c][i] \in Text
      BY <1>4, <1>5, LenProperties
    <2>2. /\ SubSeq(wire[c], 1, n) \in Seq(Text)
          /\ Len(SubSeq(wire[c], 1, n)) = IF 1 <= n THEN n - 1 + 1 ELSE 0
          /\ \A i \in 1 .. n - 1 + 1 : SubSeq(wire[c], 1, n)[i] = wire[c][1 + i - 1]
      BY <2>1, SubSeqProperties
    <2> QED
      BY <1>2, <1>5, <2>2
  <1>7. Line(c)' = Front(c) \o wire'[c]
    BY DEF Line, Front
  <1>8. /\ Line(c)' \in Seq(Text) /\ Len(Line(c)') = Len(Front(c)) + n
        /\ \A i \in 1 .. Len(Front(c)) + n : Line(c)'[i] =
              IF i <= Len(Front(c)) THEN Front(c)[i] ELSE wire'[c][i - Len(Front(c))]
    <2>1. /\ Front(c) \o wire'[c] \in Seq(Text)
          /\ Len(Front(c) \o wire'[c]) = Len(Front(c)) + Len(wire'[c])
          /\ \A i \in 1 .. Len(Front(c)) + Len(wire'[c]) : (Front(c) \o wire'[c])[i] =
                IF i <= Len(Front(c)) THEN Front(c)[i] ELSE wire'[c][i - Len(Front(c))]
      BY <1>4, <1>6, ConcatProperties, Zenon
    <2> QED
      BY <1>6, <1>7, <2>1, Zenon
  <1>9. /\ Len(Line(c)) = Len(Front(c)) + Len(wire[c])
        /\ \A i \in 1 .. Len(Front(c)) + Len(wire[c]) : Line(c)[i] =
              IF i <= Len(Front(c)) THEN Front(c)[i] ELSE wire[c][i - Len(Front(c))]
    BY <1>4, ConcatProperties
  <1>10. ASSUME NEW i \in 1 .. Len(Front(c)) + n
         PROVE  Line(c)'[i] = Line(c)[i]
    <2>1. i \in 1 .. Len(Front(c)) + Len(wire[c])
      BY <1>5
    <2>2. ~(i <= Len(Front(c))) => i - Len(Front(c)) \in 1 .. n
      BY <1>5
    <2> QED
      BY <1>6, <1>8, <1>9, <2>1, <2>2
  <1> QED
    BY <1>3, <1>4, <1>5, <1>8, <1>9, <1>10

-----------------------------------------------------------------------------
(* Types                                                                     *)

\* The constants, and the buffers that workers and sessions are given.
LEMMA Constants ==
  /\ Workers \in Nat /\ Workers > 0 /\ MaxWrites \in Nat /\ MaxBreaks \in Nat
  /\ BufCap \in Nat /\ BufCap > 0 /\ DataCap \in Nat /\ DataCap > 0
  /\ 0 \in Worker
  /\ \A k \in Key : Hash[k] \in Worker /\ getBufferIndex(k) \in Worker
  /\ \A w \in Worker : BufferOf(w) \in Worker
  <1>1. 0 \in Worker
    BY ConnAssumption DEF ConnAssumption, Worker
  <1> QED
    BY <1>1, ConnAssumption, BufAssumption, DataAssumption
    DEF ConnAssumption, BufAssumption, DataAssumption, getBufferIndex, BufferOf

\* A payload is a pair, and neither the separator nor an empty hand.
LEMMA PayloadIsPair ==
  /\ \A p \in Payload : p[1] \in Key /\ p[2] \in 1 .. MaxWrites /\ p = <<p[1], p[2]>>
  /\ \A p \in Payload : p # Sep /\ p # noneTaken
  BY SepAssumption DEF Payload, SepAssumption, noneTaken

\* The payload of a Write that is accepted is new.
LEMMA AcceptedNew ==
  ASSUME TypeOK, NEW k \in Key, Len(written) < MaxWrites, written' = Append(written, k)
  PROVE  /\ Accepted \subseteq Payload
         /\ <<k, Len(written) + 1>> \in Payload
         /\ \A p \in Accepted : p[2] < Len(written) + 1
         /\ <<k, Len(written) + 1>> \notin Accepted
         /\ Accepted' = Accepted \cup {<<k, Len(written) + 1>>}
  <1>1. written \in Seq(Key) /\ Len(written) \in Nat /\ DOMAIN written = 1 .. Len(written)
    BY LenProperties DEF TypeOK, OutputTypeOK
  <1>2. \A n \in 1 .. Len(written) : written[n] \in Key /\ n \in 1 .. MaxWrites
    BY <1>1, Constants, LenProperties
  <1>3. Accepted \subseteq Payload /\ <<k, Len(written) + 1>> \in Payload
    BY <1>1, <1>2, Constants DEF Accepted, Payload
  <1>4. \A p \in Accepted : p[2] < Len(written) + 1
    BY <1>1 DEF Accepted
  <1>5. <<k, Len(written) + 1>> \notin Accepted
    BY <1>1 DEF Accepted
  <1>6. /\ DOMAIN written' = 1 .. Len(written) + 1 /\ written'[Len(written) + 1] = k
        /\ \A n \in 1 .. Len(written) : written'[n] = written[n]
    BY <1>1, AppendRange
  <1>7. 1 .. Len(written) + 1 = 1 .. Len(written) \cup {Len(written) + 1}
    BY <1>1
  <1>8. Accepted' = Accepted \cup {<<k, Len(written) + 1>>}
    BY <1>1, <1>6, <1>7 DEF Accepted
  <1> QED
    BY <1>3, <1>4, <1>5, <1>8

\* What is accepted are payloads.
LEMMA AcceptedPayload == TypeOK => Accepted \subseteq Payload
  <1> SUFFICES ASSUME TypeOK PROVE Accepted \subseteq Payload
    OBVIOUS
  <1>1. written \in Seq(Key) /\ Len(written) \in Nat /\ DOMAIN written = 1 .. Len(written)
        /\ Len(written) <= MaxWrites
    BY LenProperties DEF TypeOK, OutputTypeOK
  <1>2. \A n \in 1 .. Len(written) : written[n] \in Key /\ n \in 1 .. MaxWrites
    BY <1>1, Constants, LenProperties
  <1> QED
    BY <1>1, <1>2 DEF Accepted, Payload

\* A write to a connection keeps the types.
LEMMA SendType ==
  ASSUME ConnTypeOK, NEW c \in Conn, NEW x \in Text, Send(c, x)
  PROVE  ConnTypeOK'
  <1>1. Append(wire[c], x) \in Seq(Text)
    BY DEF ConnTypeOK, Text
  <1> QED
    BY <1>1 DEF ConnTypeOK, Send, Text

\* Every step of the output keeps the types.
LEMMA OutputType ==
  ASSUME TypeOK, WorkersInStep, OutputStep, UNCHANGED inVars
  PROVE  TypeOK'
  <1>0. InputTypeOK'
    BY DEF TypeOK, InputTypeOK, inVars
  <1> USE DEF TypeOK
  <1>1. ASSUME NEW k \in Key, Write(k)
        PROVE  TypeOK'
    <2>1. getBufferIndex(k) \in Worker /\ <<k, Len(written) + 1>> \in Payload
      BY <1>1, Constants, AcceptedNew DEF Write
    <2>2. /\ Append(buf[getBufferIndex(k)], <<k, Len(written) + 1>>) \in Seq(Payload)
          /\ Len(Append(buf[getBufferIndex(k)], <<k, Len(written) + 1>>))
                = Len(buf[getBufferIndex(k)]) + 1
          /\ Len(buf[getBufferIndex(k)]) \in Nat
          /\ Len(buf[getBufferIndex(k)]) <= BufCap /\ Len(buf[getBufferIndex(k)]) # BufCap
      BY <1>1, <2>1, AppendProperties, LenProperties DEF OutputTypeOK, Write, Full
    <2>3. /\ buf' \in [Worker -> Seq(Payload)]
          /\ \A b \in Worker : Len(buf'[b]) <= BufCap
      BY <1>1, <2>1, <2>2, Constants DEF OutputTypeOK, Write
    <2>4. written' \in Seq(Key) /\ Len(written') <= MaxWrites
      <3>1. written \in Seq(Key) /\ Len(written) \in Nat
        BY LenProperties DEF OutputTypeOK
      <3> QED
        BY <1>1, <3>1, AppendProperties, Constants DEF Write
    <2> QED
      BY <1>0, <1>1, <2>3, <2>4 DEF Write, OutputTypeOK, ConnTypeOK, connVars
  <1>2. ASSUME NEW w \in Worker, Connect(w)
        PROVE  TypeOK'
    <2>1. dialed[w] + 1 \in 0 .. MaxBreaks + 1
      <3>1. dialed[w] <= breaks /\ dialed[w] \in Nat /\ breaks \in 0 .. MaxBreaks
        BY <1>2, Constants, SMTT(30) DEF Connect, WorkersInStep, ConnTypeOK
      <3> QED
        BY <3>1, Constants
    <2>2. dialed' \in [Worker -> 0 .. MaxBreaks + 1] /\ dialed'[w] = dialed[w] + 1
          /\ \A v \in Worker \ {w} : dialed'[v] = dialed[v]
      BY <1>2, <2>1 DEF Connect, Dial, ConnTypeOK
    <2>3. <<w, dialed[w] + 1>> \in Conn
      <3>1. dialed[w] + 1 \in 1 .. MaxBreaks + 1
        BY <2>1 DEF ConnTypeOK
      <3> QED
        BY <3>1 DEF Conn
    <2>4. up' \subseteq {c \in Conn : c[2] <= dialed'[c[1]]}
      <3> SUFFICES ASSUME NEW c \in up' PROVE c \in Conn /\ c[2] <= dialed'[c[1]]
        OBVIOUS
      <3>1. CASE c = <<w, dialed[w] + 1>>
        BY <2>1, <2>2, <2>3, <3>1
      <3>2. CASE c \in up
        <4>1. c \in Conn /\ c[2] <= dialed[c[1]] /\ c[1] \in Worker /\ c[2] \in Nat
          BY <3>2 DEF ConnTypeOK, Conn
        <4>2. dialed[c[1]] <= dialed'[c[1]] /\ dialed[c[1]] \in Nat /\ dialed'[c[1]] \in Nat
          <5>1. dialed[c[1]] \in 0 .. MaxBreaks + 1 /\ dialed'[c[1]] \in 0 .. MaxBreaks + 1
            BY <2>2, <4>1 DEF ConnTypeOK
          <5>2. CASE c[1] = w
            BY <2>2, <5>1, <5>2
          <5>3. CASE c[1] # w
            BY <2>2, <4>1, <5>1, <5>3
          <5> QED
            BY <5>2, <5>3
        <4> QED
          BY <4>1, <4>2
      <3> QED
        BY <1>2, <3>1, <3>2 DEF Connect, Dial
    <2>5. ConnTypeOK'
      BY <1>2, <2>2, <2>4 DEF Connect, Dial, ConnTypeOK
    <2> QED
      BY <1>0, <1>2, <2>5 DEF Connect, OutputTypeOK
  <1>3. ASSUME NEW w \in Worker, Take(w)
        PROVE  TypeOK'
    <2>1. BufferOf(w) \in Worker /\ buf[BufferOf(w)] \in Seq(Payload) /\ buf[BufferOf(w)] # <<>>
      BY <1>3, Constants DEF Take, OutputTypeOK
    <2>2. /\ Head(buf[BufferOf(w)]) \in Payload /\ Tail(buf[BufferOf(w)]) \in Seq(Payload)
          /\ Len(Tail(buf[BufferOf(w)])) = Len(buf[BufferOf(w)]) - 1
          /\ Len(buf[BufferOf(w)]) \in Nat /\ Len(buf[BufferOf(w)]) <= BufCap
      BY <2>1, HeadTailProperties, LenProperties DEF OutputTypeOK
    <2>3. buf' \in [Worker -> Seq(Payload)] /\ \A b \in Worker : Len(buf'[b]) <= BufCap
      BY <1>3, <2>1, <2>2, Constants DEF OutputTypeOK, Take
    <2> QED
      BY <1>0, <1>3, <2>2, <2>3 DEF Take, OutputTypeOK, ConnTypeOK, connVars
  <1>4. ASSUME NEW w \in Worker, WriteData(w) \/ WriteSep(w)
        PROVE  TypeOK'
    <2>1. OutputTypeOK'
      BY <1>4 DEF WriteData, WriteSep, OutputTypeOK
    <2>2. CASE UNCHANGED connVars
      BY <1>0, <2>1, <2>2 DEF connVars, ConnTypeOK
    <2>3. ASSUME NEW x \in {hand[w], Sep}, Send(ConnOf(w), x), x = Sep \/ pc[w] = "data"
          PROVE  TypeOK'
      <3>1. x \in Text /\ ConnOf(w) \in Conn
        BY <2>3 DEF OutputTypeOK, Text, WorkersInStep, Send, ConnTypeOK
      <3> QED
        BY <1>0, <2>1, <2>3, <3>1, SendType
    <2> QED
      BY <1>4, <2>2, <2>3 DEF WriteData, WriteSep
  <1>5. ASSUME NEW w \in Worker, WriteSepFails(w)
        PROVE  TypeOK'
    BY <1>0, <1>5 DEF WriteSepFails, OutputTypeOK, ConnTypeOK, connVars
  <1>6. ASSUME NEW w \in Worker, Requeue(w)
        PROVE  TypeOK'
    <2>1. BufferOf(w) \in Worker /\ hand[w] \in Payload /\ buf[BufferOf(w)] \in Seq(Payload)
      BY <1>6, Constants DEF Requeue, OutputTypeOK, WorkersInStep
    <2>2. /\ Append(buf[BufferOf(w)], hand[w]) \in Seq(Payload)
          /\ Len(Append(buf[BufferOf(w)], hand[w])) = Len(buf[BufferOf(w)]) + 1
          /\ Len(buf[BufferOf(w)]) \in Nat
          /\ Len(buf[BufferOf(w)]) <= BufCap /\ Len(buf[BufferOf(w)]) # BufCap
      BY <1>6, <2>1, AppendProperties, LenProperties DEF OutputTypeOK, Requeue, Full
    <2>3. buf' \in [Worker -> Seq(Payload)] /\ \A b \in Worker : Len(buf'[b]) <= BufCap
      BY <1>6, <2>1, <2>2, Constants DEF OutputTypeOK, Requeue
    <2> QED
      BY <1>0, <1>6, <2>3 DEF Requeue, OutputTypeOK, ConnTypeOK, connVars
  <1> QED
    BY <1>1, <1>2, <1>3, <1>4, <1>5, <1>6 DEF OutputStep, WorkerStep

\* So does every step of the input.
LEMMA InputType ==
  ASSUME TypeOK, InputStep, UNCHANGED outVars
  PROVE  TypeOK'
  <1>0. OutputTypeOK'
    BY DEF TypeOK, OutputTypeOK, outVars
  <1> USE DEF TypeOK
  <1>1. ASSUME NEW c \in Conn, ReadLine(c)
        PROVE  TypeOK'
    <2>1. wire[c] \in Seq(Text) /\ wire[c] # <<>>
      BY <1>1 DEF ReadLine, Receive, ConnTypeOK, Text
    <2>2. Tail(wire[c]) \in Seq(Text) /\ Head(wire[c]) \in Text
      BY <2>1, HeadTailProperties
    <2>3. ConnTypeOK'
      BY <1>1, <2>2 DEF ReadLine, Receive, ConnTypeOK, Text
    <2>4. Head(wire[c]) # Sep => Append(buffer[c], Head(wire[c])) \in Seq(Payload)
      BY <2>2 DEF InputTypeOK, Text
    <2>5. buffer' \in [Conn -> Seq(Payload)] /\ handler' \in [Conn -> {"read", "push", "end"}]
      BY <1>1, <2>4 DEF ReadLine, InputTypeOK
    <2> QED
      BY <1>0, <1>1, <2>3, <2>5 DEF ReadLine, InputTypeOK
  <1>2. ASSUME NEW c \in Conn, Push(c)
        PROVE  TypeOK'
    <2>1. buffer[c] \in Seq(Payload) /\ data \in Seq(Seq(Payload)) /\ Len(data) \in Nat
      BY LenProperties DEF InputTypeOK
    <2>2. data' \in Seq(Seq(Payload)) /\ Len(data') <= DataCap
      BY <1>2, <2>1, AppendProperties, Constants DEF Push
    <2>3. buffer' \in [Conn -> Seq(Payload)] /\ handler' \in [Conn -> {"read", "push", "end"}]
      BY <1>2 DEF Push, InputTypeOK
    <2> QED
      BY <1>0, <1>2, <2>2, <2>3 DEF Push, InputTypeOK, ConnTypeOK, connVars
  <1>3. ASSUME NEW c \in Conn, ReadError(c)
        PROVE  TypeOK'
    BY <1>0, <1>3 DEF ReadError, InputTypeOK, ConnTypeOK, connVars
  <1>4. CASE Read
    <2>1. data \in Seq(Seq(Payload)) /\ Len(data) <= DataCap /\ data # <<>>
      BY <1>4 DEF Read, InputTypeOK
    <2>2. /\ Head(data) \in Seq(Payload) /\ Tail(data) \in Seq(Seq(Payload))
          /\ Len(Tail(data)) = Len(data) - 1 /\ Len(data) \in Nat
      BY <2>1, HeadTailProperties, LenProperties
    <2>3. data' \in Seq(Seq(Payload)) /\ Len(data') <= DataCap
      BY <1>4, <2>1, <2>2, Constants DEF Read
    <2>4. read' \in Seq(Seq(Payload))
      BY <1>4, <2>2, AppendProperties DEF Read, InputTypeOK
    <2> QED
      BY <1>0, <1>4, <2>3, <2>4 DEF Read, InputTypeOK, ConnTypeOK, connVars
  <1>5. CASE ReadStopped \/ Close
    BY <1>0, <1>5 DEF ReadStopped, Close, InputTypeOK, ConnTypeOK, connVars
  <1> QED
    BY <1>1, <1>2, <1>3, <1>4, <1>5 DEF InputStep, HandlerStep

\* So does a break.
LEMMA BreakType ==
  ASSUME TypeOK, NEW c \in Conn, Break(c), UNCHANGED <<outVars, inVars>>
  PROVE  TypeOK'
  <1>1. OutputTypeOK' /\ InputTypeOK'
    BY DEF TypeOK, OutputTypeOK, InputTypeOK, outVars, inVars
  <1>2. PICK n \in 0 .. Len(wire[c]) : wire' = [wire EXCEPT ![c] = SubSeq(@, 1, n)]
    BY DEF Break
  <1>3. wire[c] \in Seq(Text) /\ Len(wire[c]) \in Nat
    BY LenProperties DEF TypeOK, ConnTypeOK, Text
  <1>4. SubSeq(wire[c], 1, n) \in Seq(Text)
    BY <1>3
  <1>5. wire' \in [Conn -> Seq(Text)]
    BY <1>2, <1>4 DEF TypeOK, ConnTypeOK, Text
  <1>6. breaks' \in 0 .. MaxBreaks
    BY Constants DEF TypeOK, ConnTypeOK, Break
  <1> QED
    BY <1>1, <1>5, <1>6 DEF TypeOK, ConnTypeOK, Break, Text

-----------------------------------------------------------------------------
(* Places, without tuples                                                    *)

\* No two places hold p.
Exclusive(p) ==
    /\ \A b, d \in Worker : p \in Range(buf[b]) /\ p \in Range(buf[d]) => b = d
    /\ \A v, w \in Worker : hand[v] = p /\ hand[w] = p => v = w
    /\ \A c, d \in Conn : p \in Whole(Line(c)) /\ p \in Whole(Line(d)) => c = d
    /\ \A b \in Worker : p \in Range(buf[b]) =>
          /\ \A w \in Worker : hand[w] # p
          /\ \A c \in Conn : p \notin Whole(Line(c))
          /\ <<p>> \notin Range(data) /\ <<p>> \notin Range(read)
    /\ \A w \in Worker : hand[w] = p =>
          /\ \A c \in Conn : p \notin Whole(Line(c))
          /\ <<p>> \notin Range(data) /\ <<p>> \notin Range(read)
    /\ \A c \in Conn : p \in Whole(Line(c)) =>
          <<p>> \notin Range(data) /\ <<p>> \notin Range(read)
    /\ <<p>> \in Range(data) => <<p>> \notin Range(read)

\* Some place holds p.
Somewhere(p) ==
    \/ \E b \in Worker : p \in Range(buf[b])
    \/ \E w \in Worker : hand[w] = p
    \/ \E c \in Conn : p \in Whole(Line(c))
    \/ <<p>> \in Range(data)
    \/ <<p>> \in Range(read)

\* These say the same as Places.
LEMMA PlacesExclusive ==
  ASSUME NEW p
  PROVE  /\ (\A x, y \in Places(p) : x = y) <=> Exclusive(p)
         /\ Places(p) # {} <=> Somewhere(p)
  <1>1. \A x : x \in Places(p) <=>
           \/ \E b \in Worker : p \in Range(buf[b]) /\ x = <<"buf", b>>
           \/ \E w \in Worker : hand[w] = p /\ x = <<"hand", w>>
           \/ \E c \in Conn : p \in Whole(Line(c)) /\ x = <<"line", c>>
           \/ <<p>> \in Range(data) /\ x = <<"data", 0>>
           \/ <<p>> \in Range(read) /\ x = <<"read", 0>>
    BY DEF Places
  <1>2. Places(p) # {} <=> Somewhere(p)
    BY <1>1 DEF Somewhere
  <1>3. ASSUME \A x, y \in Places(p) : x = y
        PROVE  Exclusive(p)
    <2>1. \A b \in Worker : p \in Range(buf[b]) => <<"buf", b>> \in Places(p)
      BY <1>1
    <2>2. \A w \in Worker : hand[w] = p => <<"hand", w>> \in Places(p)
      BY <1>1
    <2>3. \A c \in Conn : p \in Whole(Line(c)) => <<"line", c>> \in Places(p)
      BY <1>1
    <2>4. /\ <<p>> \in Range(data) => <<"data", 0>> \in Places(p)
          /\ <<p>> \in Range(read) => <<"read", 0>> \in Places(p)
      BY <1>1
    <2>5. \A s, t, y, z : <<s, y>> \in Places(p) /\ <<t, z>> \in Places(p) => s = t /\ y = z
      BY <1>3
    <2>6. /\ \A b, d \in Worker : p \in Range(buf[b]) /\ p \in Range(buf[d]) => b = d
          /\ \A v, w \in Worker : hand[v] = p /\ hand[w] = p => v = w
          /\ \A c, d \in Conn : p \in Whole(Line(c)) /\ p \in Whole(Line(d)) => c = d
      BY <2>1, <2>2, <2>3, <2>5
    <2>7. \A b \in Worker : p \in Range(buf[b]) =>
            /\ \A w \in Worker : hand[w] # p
            /\ \A c \in Conn : p \notin Whole(Line(c))
            /\ <<p>> \notin Range(data) /\ <<p>> \notin Range(read)
      BY <2>1, <2>2, <2>3, <2>4, <2>5
    <2>8. \A w \in Worker : hand[w] = p =>
            /\ \A c \in Conn : p \notin Whole(Line(c))
            /\ <<p>> \notin Range(data) /\ <<p>> \notin Range(read)
      BY <2>2, <2>3, <2>4, <2>5
    <2>9. \A c \in Conn : p \in Whole(Line(c)) =>
            <<p>> \notin Range(data) /\ <<p>> \notin Range(read)
      BY <2>3, <2>4, <2>5
    <2>10. <<p>> \in Range(data) => <<p>> \notin Range(read)
      BY <2>4, <2>5
    <2> QED
      BY <2>6, <2>7, <2>8, <2>9, <2>10 DEF Exclusive
  <1>4. ASSUME Exclusive(p), NEW x \in Places(p), NEW y \in Places(p)
        PROVE  x = y
    BY <1>1, <1>4 DEF Exclusive
  <1> QED
    BY <1>2, <1>3, <1>4

\* OneCopy, in these terms.
CopiesOnce ==
    /\ \A p \in Accepted : Exclusive(p) /\ (breaks = 0 => Somewhere(p))
    /\ \A b \in Worker : IsInjective(buf[b])
    /\ \A c \in Conn : SealedOnce(Line(c))
    /\ IsInjective(data) /\ IsInjective(read)

\* It says the same as OneCopy.
LEMMA CopiesOnceIsOneCopy == OneCopy <=> CopiesOnce
  BY PlacesExclusive DEF OneCopy, CopiesOnce

-----------------------------------------------------------------------------
(* Order                                                                     *)

\* What is left of an ordered sequence is in order and comes after its head.
LEMMA TailInOrder ==
  ASSUME NEW S, NEW s \in Seq(S), s # <<>>, InOrder(s)
  PROVE  /\ InOrder(Tail(s))
         /\ \A q \in Range(Tail(s)) : q # Sep /\ Head(s) # Sep => Before(Head(s), q)
  <1>1. /\ Head(s) = s[1] /\ Len(s) \in Nat \ {0} /\ DOMAIN s = 1 .. Len(s)
        /\ DOMAIN Tail(s) = 1 .. Len(s) - 1
        /\ \A i \in 1 .. Len(s) - 1 : Tail(s)[i] = s[i + 1]
    BY TailRange
  <1>2. \A i \in 1 .. Len(s) - 1 : i + 1 \in 1 .. Len(s) /\ 1 < i + 1
    BY <1>1
  <1>3. InOrder(Tail(s))
    BY <1>1, <1>2 DEF InOrder
  <1>4. ASSUME NEW i \in 1 .. Len(s) - 1, Tail(s)[i] # Sep, Head(s) # Sep
        PROVE  Before(Head(s), Tail(s)[i])
    <2>1. 1 \in DOMAIN s /\ i + 1 \in DOMAIN s /\ 1 < i + 1 /\ Tail(s)[i] = s[i + 1]
      BY <1>1, <1>2
    <2> QED
      BY <1>1, <1>4, <2>1 DEF InOrder
  <1> QED
    BY <1>1, <1>3, <1>4 DEF Range

\* What is appended must come after everything there is.
LEMMA AppendInOrder ==
  ASSUME NEW S, NEW s \in Seq(S), NEW x \in S, InOrder(s),
         \A q \in Range(s) : q # Sep /\ x # Sep => Before(q, x)
  PROVE  InOrder(Append(s, x))
  <1>1. /\ Len(s) \in Nat /\ DOMAIN s = 1 .. Len(s) /\ DOMAIN Append(s, x) = 1 .. Len(s) + 1
        /\ \A i \in 1 .. Len(s) : Append(s, x)[i] = s[i]
        /\ Append(s, x)[Len(s) + 1] = x
    BY AppendRange
  <1>2. \A i \in 1 .. Len(s) : s[i] \in Range(s)
    BY SeqRange
  <1> SUFFICES ASSUME NEW i \in 1 .. Len(s) + 1, NEW j \in 1 .. Len(s) + 1, i < j,
                      Append(s, x)[i] # Sep, Append(s, x)[j] # Sep
               PROVE  Before(Append(s, x)[i], Append(s, x)[j])
    BY <1>1 DEF InOrder
  <1>3. i \in 1 .. Len(s)
    BY <1>1
  <1>4. CASE j = Len(s) + 1
    BY <1>1, <1>2, <1>3, <1>4
  <1>5. CASE j \in 1 .. Len(s)
    BY <1>1, <1>3, <1>5 DEF InOrder
  <1> QED
    BY <1>1, <1>4, <1>5

\* The same for sequences of messages.
LEMMA TailMessages ==
  ASSUME NEW S, NEW s \in Seq(S), s # <<>>, MessagesInOrder(s)
  PROVE  /\ MessagesInOrder(Tail(s))
         /\ \A m \in Range(Tail(s)) : Before(Head(s)[1], m[1])
  <1>1. /\ Head(s) = s[1] /\ Len(s) \in Nat \ {0} /\ DOMAIN s = 1 .. Len(s)
        /\ DOMAIN Tail(s) = 1 .. Len(s) - 1
        /\ \A i \in 1 .. Len(s) - 1 : Tail(s)[i] = s[i + 1]
    BY TailRange
  <1>2. \A i \in 1 .. Len(s) - 1 : i + 1 \in 1 .. Len(s) /\ 1 < i + 1
    BY <1>1
  <1>3. MessagesInOrder(Tail(s))
    BY <1>1, <1>2 DEF MessagesInOrder
  <1>4. ASSUME NEW i \in 1 .. Len(s) - 1
        PROVE  Before(Head(s)[1], Tail(s)[i][1])
    <2>1. 1 \in DOMAIN s /\ i + 1 \in DOMAIN s /\ 1 < i + 1 /\ Tail(s)[i] = s[i + 1]
      BY <1>1, <1>2
    <2> QED
      BY <1>1, <2>1 DEF MessagesInOrder
  <1> QED
    BY <1>1, <1>3, <1>4 DEF Range

\* A message that comes after all others may be appended.
LEMMA AppendMessages ==
  ASSUME NEW S, NEW s \in Seq(S), NEW x \in S, MessagesInOrder(s),
         \A m \in Range(s) : Before(m[1], x[1])
  PROVE  MessagesInOrder(Append(s, x))
  <1>1. /\ Len(s) \in Nat /\ DOMAIN s = 1 .. Len(s) /\ DOMAIN Append(s, x) = 1 .. Len(s) + 1
        /\ \A i \in 1 .. Len(s) : Append(s, x)[i] = s[i]
        /\ Append(s, x)[Len(s) + 1] = x
    BY AppendRange
  <1>2. \A i \in 1 .. Len(s) : s[i] \in Range(s)
    BY SeqRange
  <1> SUFFICES ASSUME NEW i \in 1 .. Len(s) + 1, NEW j \in 1 .. Len(s) + 1, i < j
               PROVE  Before(Append(s, x)[i][1], Append(s, x)[j][1])
    BY <1>1 DEF MessagesInOrder
  <1>3. i \in 1 .. Len(s)
    BY <1>1
  <1>4. CASE j = Len(s) + 1
    BY <1>1, <1>2, <1>3, <1>4
  <1>5. CASE j \in 1 .. Len(s)
    BY <1>1, <1>3, <1>5 DEF MessagesInOrder
  <1> QED
    BY <1>1, <1>4, <1>5

\* A payload may go on to the next stage if it is the first of its own.
LEMMA StageMoves ==
  ASSUME StagesInOrder, NEW n \in 2 .. 5, NEW p \in Stage(n),
         Stage(n - 1)' \subseteq Stage(n - 1) \cup {p}, Stage(n)' \subseteq Stage(n),
         \A q \in Stage(n)' : Before(p, q),
         \A m \in 1 .. 5 : m # n /\ m # n - 1 => Stage(m)' \subseteq Stage(m)
  PROVE  StagesInOrder'
  <1> SUFFICES ASSUME NEW k \in 1 .. 5, NEW m \in 1 .. 5, k < m,
                      NEW x \in Stage(k)', NEW y \in Stage(m)'
               PROVE  Before(x, y)
    BY DEF StagesInOrder
  <1>1. \A j \in 1 .. 5 : j # n - 1 => Stage(j)' \subseteq Stage(j)
    OBVIOUS
  <1>3. CASE k = n - 1
    <2>1. y \in Stage(m) /\ n - 1 \in 1 .. 5 /\ n - 1 < m
      BY <1>1, <1>3
    <2>2. CASE x = p /\ m = n
      BY <2>2
    <2>3. CASE x = p /\ m # n
      BY <1>3, <2>1, <2>3 DEF StagesInOrder
    <2>4. CASE x # p
      BY <1>3, <2>1, <2>4 DEF StagesInOrder
    <2> QED
      BY <2>2, <2>3, <2>4
  <1>4. CASE k # n - 1
    <2>1. x \in Stage(k)
      BY <1>1, <1>4
    <2>2. CASE m = n - 1
      <3>1. k < n
        BY <2>2
      <3> QED
        BY <2>1, <2>2, <3>1 DEF StagesInOrder
    <2>3. CASE m # n - 1
      <3>1. y \in Stage(m)
        BY <1>1, <2>3
      <3> QED
        BY <2>1, <3>1 DEF StagesInOrder
    <2> QED
      BY <2>2, <2>3
  <1> QED
    BY <1>3, <1>4

-----------------------------------------------------------------------------
(* The steps of the output                                                   *)

\* The inductive invariant.
Core ==
    TypeOK /\ CopiesOnce /\ Framed /\ WorkersInStep /\ NothingInvented /\ SessionsInOrder

\* What WorkersInStep says of one worker.
InStep(w) ==
    /\ dialed[w] <= breaks + (IF ConnOf(w) \in up THEN 1 ELSE 0)
    /\ breaks = 0 /\ dialed[w] > 0 => ConnOf(w) \in up
    /\ hand[w] = noneTaken <=> pc[w] \in {"connect", "take"}
    /\ dialed[w] = 0 => pc[w] = "connect"
    /\ ConnOf(w) \in up =>
          \/ pc[w] \in {"take", "data"} /\ (Line(ConnOf(w)) = <<>> \/ EndsWith(Line(ConnOf(w)), Sep))
          \/ pc[w] = "sep" /\ EndsWith(Line(ConnOf(w)), hand[w])

\* WorkersInStep, worker by worker.
LEMMA WorkersSplit ==
  WorkersInStep <=> (\A c \in up : c[2] = dialed[c[1]]) /\ (\A w \in Worker : InStep(w))
  BY DEF WorkersInStep, InStep

\* A worker that is not concerned stays in step.
LEMMA InStepKept ==
  ASSUME TypeOK, NEW v \in Worker, InStep(v),
         dialed'[v] = dialed[v], pc'[v] = pc[v], hand'[v] = hand[v], breaks' = breaks,
         ConnOf(v) \in up' <=> ConnOf(v) \in up,
         ConnOf(v) \in up => Line(ConnOf(v))' = Line(ConnOf(v))
  PROVE  InStep(v)'
  <1>1. ConnOf(v)' = ConnOf(v)
    BY DEF ConnOf
  <1>2. ConnOf(v) \in up => Line(ConnOf(v)') = Line(ConnOf(v))
    BY <1>1
  <1> QED
    BY <1>1, <1>2 DEF InStep

\* What is accepted is not an empty hand or a separator, and where it can be.
LEMMA AcceptedFacts ==
  ASSUME Core
  PROVE  /\ \A p \in Accepted : p \in Payload /\ p # Sep /\ p # noneTaken
         /\ \A b \in Worker : Range(buf[b]) \subseteq Accepted
         /\ \A w \in Worker : hand[w] # noneTaken => hand[w] \in Accepted
         /\ \A c \in Conn : Range(Line(c)) \subseteq Accepted \cup {Sep}
         /\ \A c \in Conn : Whole(Line(c)) \subseteq Range(Line(c))
         /\ \A p : <<p>> \in Range(data) \/ <<p>> \in Range(read) => p \in Accepted
  <1>1. \A p \in Accepted : p \in Payload /\ p # Sep /\ p # noneTaken
    BY AcceptedPayload, PayloadIsPair DEF Core
  <1>2. \A c \in Conn : Whole(Line(c)) \subseteq Range(Line(c))
    BY DEF Whole, Sealed, Range
  <1>3. ASSUME NEW p, <<p>> \in Range(data) \/ <<p>> \in Range(read)
        PROVE  p \in Accepted
    <2>1. PICK q \in Accepted : <<p>> = <<q>>
      BY <1>3 DEF Core, NothingInvented
    <2> QED
      BY <2>1
  <1> QED
    BY <1>1, <1>2, <1>3 DEF Core, NothingInvented

\* Where payloads come from: each is where it was, or was accepted and is on the
\* way of its session.
LEMMA NothingNew ==
  ASSUME NothingInvented, UNCHANGED sticky, Accepted \subseteq Accepted',
         \A b \in Worker : \A p \in Range(buf'[b]) :
            p \in Range(buf[b]) \/ (p \in Accepted' /\ getBufferIndex(p[1]) = b),
         \A w \in Worker : \/ hand'[w] = hand[w] \/ hand'[w] = noneTaken
                           \/ hand'[w] \in Accepted' /\ getBufferIndex(hand'[w][1]) = BufferOf(w),
         \A c \in Conn : \A p \in Range(Line(c)') :
            \/ p \in Range(Line(c)) \/ p = Sep
            \/ p \in Accepted' /\ getBufferIndex(p[1]) = BufferOf(c[1]),
         \A m \in Range(data') \cup Range(read') :
            m \in Range(data) \cup Range(read) \/ \E p \in Accepted' : m = <<p>>
  PROVE  NothingInvented'
  <1>1. /\ \A k : getBufferIndex(k)' = getBufferIndex(k)
        /\ \A w : BufferOf(w)' = BufferOf(w)
    BY DEF getBufferIndex, BufferOf
  <1>2. \A b \in Worker : \A p \in Range(buf'[b]) : p \in Accepted' /\ getBufferIndex(p[1]) = b
    BY DEF NothingInvented
  <1>3. \A w \in Worker : hand'[w] # noneTaken =>
           hand'[w] \in Accepted' /\ getBufferIndex(hand'[w][1]) = BufferOf(w)
    BY DEF NothingInvented
  <1>4. \A c \in Conn : \A p \in Range(Line(c)') \ {Sep} :
           p \in Accepted' /\ getBufferIndex(p[1]) = BufferOf(c[1])
    BY DEF NothingInvented
  <1>5. \A m \in Range(data') \cup Range(read') : \E p \in Accepted' : m = <<p>>
    BY DEF NothingInvented
  <1>6. \A b \in Worker : \A p \in Range(buf'[b]) : p \in Accepted' /\ getBufferIndex(p[1])' = b
    BY <1>1, <1>2
  <1>7. \A w \in Worker : hand'[w] # noneTaken =>
           hand'[w] \in Accepted' /\ getBufferIndex(hand[w][1])' = BufferOf(w)'
    BY <1>3 DEF getBufferIndex, BufferOf
  <1>8. \A c \in Conn : \A p \in Range(Line(c)') \ {Sep} :
           p \in Accepted' /\ getBufferIndex(p[1])' = BufferOf(c[1])'
    BY <1>1, <1>4
  <1> QED
    BY <1>5, <1>6, <1>7, <1>8 DEF NothingInvented

\* A payload that comes to no new place is in one place at most.
LEMMA StillExclusive ==
  ASSUME NEW p, Exclusive(p),
         \A b \in Worker : p \in Range(buf'[b]) => p \in Range(buf[b]),
         \A w \in Worker : hand'[w] = p => hand[w] = p,
         \A c \in Conn : p \in Whole(Line(c)') => p \in Whole(Line(c)),
         <<p>> \in Range(data') => <<p>> \in Range(data),
         <<p>> \in Range(read') => <<p>> \in Range(read)
  PROVE  Exclusive(p)'
  BY DEF Exclusive

\* A payload that leaves no place is somewhere.
LEMMA StillSomewhere ==
  ASSUME NEW p, Somewhere(p),
         \A b \in Worker : p \in Range(buf[b]) => p \in Range(buf'[b]),
         \A w \in Worker : hand[w] = p => hand'[w] = p,
         \A c \in Conn : p \in Whole(Line(c)) => p \in Whole(Line(c)'),
         <<p>> \in Range(data) => <<p>> \in Range(data'),
         <<p>> \in Range(read) => <<p>> \in Range(read')
  PROVE  Somewhere(p)'
  BY DEF Somewhere

\* If the payloads of all stages were there before, the order is kept.
LEMMA StagesKept ==
  ASSUME StagesInOrder, \A m \in 1 .. 5 : Stage(m)' \subseteq Stage(m)
  PROVE  StagesInOrder'
  BY DEF StagesInOrder

\* Once a connection has broken no order is promised.
LEMMA NoOrderAfterBreak ==
  ASSUME breaks' # 0
  PROVE  SessionsInOrder'
  BY DEF SessionsInOrder

\* A step that moves no payload keeps everything that is about payloads.
LEMMA QuietStep ==
  ASSUME Core, UNCHANGED <<sticky, written, buf, hand, data, read, breaks>>,
         \A c \in Conn : Line(c)' = Line(c),
         \A w \in Worker : pc'[w] = "data" => pc[w] = "data"
  PROVE  CopiesOnce' /\ NothingInvented' /\ SessionsInOrder'
  <1>1. Accepted' = Accepted
    BY DEF Accepted
  <1>2. CopiesOnce'
    <2>1. ASSUME NEW p \in Accepted
          PROVE  Exclusive(p)' /\ (breaks = 0 => Somewhere(p)')
      <3>1. Exclusive(p) /\ (breaks = 0 => Somewhere(p))
        BY DEF Core, CopiesOnce
      <3> QED
        BY <3>1, StillExclusive, StillSomewhere
    <2> QED
      BY <1>1, <2>1 DEF Core, CopiesOnce
  <1>3. NothingInvented'
    BY <1>1, NothingNew DEF Core
  <1>4. SessionsInOrder'
    <2> SUFFICES ASSUME sticky, breaks = 0
                 PROVE  SessionsInOrder'
      BY DEF SessionsInOrder
    <2>1. \A m \in 1 .. 5 : Stage(m)' \subseteq Stage(m)
      BY <1>1 DEF Stage
    <2>2. StagesInOrder'
      BY <2>1, StagesKept DEF Core, SessionsInOrder
    <2> QED
      BY <2>2 DEF Core, SessionsInOrder
  <1> QED
    BY <1>2, <1>3, <1>4

\* The connection of a worker that has dialed is up, unless one has broken.
LEMMA DownMeansBroken ==
  ASSUME Core, NEW w \in Worker, pc[w] # "connect", ConnOf(w) \notin up
  PROVE  breaks # 0
  <1>1. InStep(w) /\ dialed[w] \in Nat
    BY Constants, WorkersSplit DEF Core, TypeOK, ConnTypeOK
  <1> QED
    BY <1>1 DEF InStep

\* The last connections of two workers are different ones.
LEMMA ConnOfOne ==
  /\ \A v, w : ConnOf(v) = ConnOf(w) => v = w
  /\ \A w : ConnOf(w)[1] = w /\ ConnOf(w)[2] = dialed[w]
  BY DEF ConnOf

\* An accepted payload is new, and the last of its session.
LEMMA WriteCore ==
  ASSUME Core, NEW k \in Key, Write(k), UNCHANGED inVars
  PROVE  Core'
  <1> DEFINE b == getBufferIndex(k)
  <1>p. PICK p : p = <<k, Len(written) + 1>>
    OBVIOUS
  <1> USE DEF Core
  <1>0. TypeOK'
    BY OutputType DEF OutputStep
  <1>1. b \in Worker /\ buf[b] \in Seq(Payload) /\ p[1] = k
    BY <1>p, Constants DEF TypeOK, OutputTypeOK
  <1>2. /\ p \in Payload /\ p \notin Accepted /\ Accepted' = Accepted \cup {p}
        /\ \A q \in Accepted : Before(q, p)
    <2>1. /\ p \in Payload /\ p \notin Accepted /\ Accepted' = Accepted \cup {p}
          /\ \A q \in Accepted : q[2] < Len(written) + 1
      BY <1>p, AcceptedNew DEF Write
    <2> QED
      BY <1>p, <2>1 DEF Before
  <1>3. /\ buf'[b] = Append(buf[b], p) /\ \A d \in Worker \ {b} : buf'[d] = buf[d]
        /\ UNCHANGED <<sticky, pc, hand, dialed, up, wire, breaks, handler, buffer, data, read>>
    BY <1>p, <1>1 DEF Write, TypeOK, OutputTypeOK, inVars, connVars
  <1> HIDE DEF b
  <1>4. \A c \in Conn : Line(c)' = Line(c)
    BY <1>3 DEF Line
  <1>5. Range(buf'[b]) = Range(buf[b]) \cup {p}
    BY <1>1, <1>2, <1>3, AppendRange
  <1>6. /\ \A d \in Worker : p \notin Range(buf[d])
        /\ \A w \in Worker : hand[w] # p
        /\ \A c \in Conn : p \notin Range(Line(c)) /\ p \notin Whole(Line(c))
        /\ <<p>> \notin Range(data) /\ <<p>> \notin Range(read)
    BY <1>2, AcceptedFacts, PayloadIsPair
  <1>7. CopiesOnce'
    <2>1. ASSUME NEW q \in Accepted
          PROVE  Exclusive(q)' /\ (breaks = 0 => Somewhere(q)')
      <3>1. Exclusive(q) /\ (breaks = 0 => Somewhere(q)) /\ q # p
        BY <1>2 DEF CopiesOnce
      <3>2. \A d \in Worker : q \in Range(buf'[d]) <=> q \in Range(buf[d])
        BY <1>3, <1>5, <3>1
      <3>3. Exclusive(q)'
        BY <1>3, <1>4, <3>1, <3>2, StillExclusive
      <3>4. breaks = 0 => Somewhere(q)'
        BY <1>3, <1>4, <3>1, <3>2, StillSomewhere
      <3> QED
        BY <3>3, <3>4
    <2>2. Exclusive(p)' /\ Somewhere(p)'
      <3>1. \A d \in Worker : p \in Range(buf'[d]) <=> d = b
        BY <1>1, <1>3, <1>5, <1>6
      <3>2. /\ \A w \in Worker : hand'[w] # p
            /\ \A c \in Conn : p \notin Whole(Line(c)')
            /\ <<p>> \notin Range(data') /\ <<p>> \notin Range(read')
        BY <1>3, <1>4, <1>6
      <3> QED
        BY <1>1, <3>1, <3>2 DEF Exclusive, Somewhere
    <2>3. \A d \in Worker : IsInjective(buf'[d])
      <3>1. IsInjective(Append(buf[b], p))
        BY <1>1, <1>2, <1>6, AppendNew DEF CopiesOnce
      <3> QED
        BY <1>3, <3>1 DEF CopiesOnce
    <2> QED
      BY <1>2, <1>3, <1>4, <2>1, <2>2, <2>3 DEF CopiesOnce
  <1>8. Framed'
    BY <1>3, <1>4 DEF Framed
  <1>9. WorkersInStep'
    <2>1. \A v \in Worker : InStep(v)'
      <3> SUFFICES ASSUME NEW v \in Worker PROVE InStep(v)'
        OBVIOUS
      <3>1. InStep(v)
        BY WorkersSplit
      <3>2. ConnOf(v) \in up => Line(ConnOf(v))' = Line(ConnOf(v))
        BY <1>3, <1>4 DEF TypeOK, ConnTypeOK, ConnOf
      <3> QED
        BY <1>3, <3>1, <3>2, InStepKept
    <2> QED
      BY <1>3, <2>1 DEF WorkersInStep, InStep
  <1>10. NothingInvented'
    <2>1. getBufferIndex(p[1]) = b
      BY <1>1 DEF b
    <2> QED
      BY <1>2, <1>3, <1>4, <1>5, <2>1, NothingNew
  <1>11. SessionsInOrder'
    <2> SUFFICES ASSUME sticky, breaks = 0
                 PROVE  SessionsInOrder'
      BY <1>3 DEF SessionsInOrder
    <2>1. /\ StagesInOrder /\ \A d \in Worker : InOrder(buf[d])
          /\ \A c \in Conn : InOrder(Line(c))
          /\ MessagesInOrder(data) /\ MessagesInOrder(read)
      BY DEF SessionsInOrder
    <2>2. \A m \in 1 .. 4 : Stage(m)' \subseteq Stage(m)
      BY <1>2, <1>3, <1>4, <1>6 DEF Stage
    <2>3. Stage(5)' \subseteq Stage(5) \cup {p}
      <3> SUFFICES ASSUME NEW q \in Stage(5)', q # p PROVE q \in Stage(5)
        OBVIOUS
      <3>1. PICK d \in Worker : q \in Range(buf'[d])
        BY DEF Stage
      <3>2. q \in Accepted /\ q \in Range(buf[d])
        BY <1>2, <1>3, <1>5, <3>1 DEF Stage
      <3> QED
        BY <3>2 DEF Stage
    <2>4. StagesInOrder'
      <3> SUFFICES ASSUME NEW m \in 1 .. 5, NEW n \in 1 .. 5, m < n,
                          NEW x \in Stage(m)', NEW y \in Stage(n)'
                   PROVE  Before(x, y)
        BY DEF StagesInOrder
      <3>1. m \in 1 .. 4 /\ x \in Stage(m) /\ x \in Accepted
        BY <2>2 DEF Stage
      <3>2. CASE y = p
        BY <1>2, <3>1, <3>2
      <3>3. CASE y # p
        <4>1. y \in Stage(n)
          <5>1. n \in 1 .. 4 \/ n = 5
            OBVIOUS
          <5> QED
            BY <2>2, <2>3, <3>3, <5>1
        <4> QED
          BY <2>1, <3>1, <4>1 DEF StagesInOrder
      <3> QED
        BY <3>2, <3>3
    <2>5. \A d \in Worker : InOrder(buf'[d])
      <3>1. \A q \in Range(buf[b]) : Before(q, p)
        BY <1>1, <1>2, AcceptedFacts
      <3>2. InOrder(Append(buf[b], p))
        BY <1>1, <1>2, <2>1, <3>1, AppendInOrder
      <3> QED
        BY <1>3, <2>1, <3>2
    <2> QED
      BY <1>3, <1>4, <2>1, <2>4, <2>5 DEF SessionsInOrder
  <1> QED
    BY <1>0, <1>7, <1>8, <1>9, <1>10, <1>11

\* The head of a buffer goes to the worker's hand.
LEMMA TakeCore ==
  ASSUME Core, NEW w \in Worker, Take(w), UNCHANGED inVars
  PROVE  Core'
  <1> DEFINE b == BufferOf(w)
             h == Head(buf[b])
  <1> USE DEF Core
  <1>0. TypeOK'
    BY OutputType DEF OutputStep, WorkerStep
  <1>1. /\ b \in Worker /\ buf[b] \in Seq(Payload) /\ buf[b] # <<>>
        /\ hand[w] = noneTaken /\ pc[w] = "take"
    BY Constants DEF Take, TypeOK, OutputTypeOK, WorkersInStep
  <1>2. /\ h \in Payload /\ Range(buf[b]) = Range(Tail(buf[b])) \cup {h}
        /\ Tail(buf[b]) \in Seq(Payload)
    BY <1>1, TailRange
  <1>3. IsInjective(Tail(buf[b])) /\ h \notin Range(Tail(buf[b]))
    <2>1. IsInjective(buf[b])
      BY <1>1 DEF CopiesOnce
    <2> QED
      BY <1>1, <2>1, TailNew
  <1>4. /\ buf'[b] = Tail(buf[b]) /\ \A d \in Worker \ {b} : buf'[d] = buf[d]
        /\ hand'[w] = h /\ \A v \in Worker \ {w} : hand'[v] = hand[v]
        /\ pc'[w] = "data" /\ \A v \in Worker \ {w} : pc'[v] = pc[v]
        /\ UNCHANGED <<sticky, written, connVars, handler, buffer, data, read>>
    BY <1>1 DEF Take, TypeOK, OutputTypeOK, inVars
  <1>5. UNCHANGED <<Accepted, breaks, dialed, up>> /\ \A c \in Conn : Line(c)' = Line(c)
    BY <1>4 DEF Accepted, Line, connVars
  <1>6. /\ \A v \in Worker : BufferOf(v)' = BufferOf(v) /\ ConnOf(v)' = ConnOf(v)
        /\ \A k : getBufferIndex(k)' = getBufferIndex(k)
    BY <1>4, <1>5 DEF BufferOf, ConnOf, getBufferIndex
  <1>7. h # noneTaken /\ h # Sep
    BY <1>2, PayloadIsPair
  <1> HIDE DEF h, b
  <1>8. CopiesOnce'
    <2>1. ASSUME NEW p \in Accepted
          PROVE  Exclusive(p)' /\ (breaks = 0 => Somewhere(p)')
      <3>1. Exclusive(p) /\ (breaks = 0 => Somewhere(p)) /\ p # noneTaken
        BY PayloadIsPair, AcceptedPayload DEF CopiesOnce
      <3>2. /\ \A d \in Worker : p \in Range(buf'[d]) <=> p \in Range(buf[d]) /\ ~(p = h /\ d = b)
            /\ \A v \in Worker : hand'[v] = p <=> hand[v] = p \/ (v = w /\ p = h)
            /\ p = h => p \in Range(buf[b])
        BY <1>1, <1>2, <1>3, <1>4, <3>1
      <3>3. Exclusive(p)'
        BY <1>1, <1>4, <1>5, <3>1, <3>2 DEF Exclusive
      <3>4. breaks = 0 => Somewhere(p)'
        BY <1>1, <1>4, <1>5, <3>1, <3>2 DEF Somewhere
      <3> QED
        BY <3>3, <3>4
    <2>2. \A d \in Worker : IsInjective(buf'[d])
      BY <1>3, <1>4 DEF CopiesOnce
    <2> QED
      BY <1>4, <1>5, <2>1, <2>2 DEF CopiesOnce
  <1>9. Framed'
    BY <1>4, <1>5 DEF Framed
  <1>10. WorkersInStep'
    <2>1. \A c \in up' : c[2] = dialed'[c[1]]
      BY <1>5 DEF WorkersInStep
    <2>2. ASSUME NEW v \in Worker
          PROVE  InStep(v)'
      <3>1. InStep(v) /\ UNCHANGED <<ConnOf(v), dialed, breaks, up>>
        BY <1>5, <1>6, WorkersSplit
      <3>2. ConnOf(v) \in up => Line(ConnOf(v))' = Line(ConnOf(v))
        BY <1>5, <1>6 DEF TypeOK, ConnTypeOK
      <3>3. CASE v = w
        BY <1>1, <1>4, <1>7, <3>1, <3>2, <3>3 DEF InStep
      <3>4. CASE v # w
        <4>1. hand'[v] = hand[v] /\ pc'[v] = pc[v]
          BY <1>4, <3>4
        <4> QED
          BY <3>1, <3>2, <4>1 DEF InStep
      <3> QED
        BY <3>3, <3>4
    <2> QED
      BY <2>1, <2>2 DEF WorkersInStep, InStep
  <1>11. NothingInvented'
    <2>1. \A d \in Worker : Range(buf'[d]) \subseteq Range(buf[d])
      BY <1>2, <1>4
    <2>2. h \in Accepted /\ getBufferIndex(h[1]) = BufferOf(w)
      BY <1>1, <1>2 DEF NothingInvented, b
    <2>3. \A d \in Worker : \A p \in Range(buf'[d]) :
             p \in Accepted /\ getBufferIndex(p[1]) = d
      BY <2>1 DEF NothingInvented
    <2>4. \A v \in Worker : hand'[v] # noneTaken =>
             hand'[v] \in Accepted /\ getBufferIndex(hand'[v][1]) = BufferOf(v)
      <3> SUFFICES ASSUME NEW v \in Worker, hand'[v] # noneTaken
                   PROVE  hand'[v] \in Accepted /\ getBufferIndex(hand'[v][1]) = BufferOf(v)
        OBVIOUS
      <3>1. CASE v = w
        BY <1>4, <2>2, <3>1
      <3>2. CASE v # w
        BY <1>4, <3>2 DEF NothingInvented
      <3> QED
        BY <3>1, <3>2
    <2>5. \A d \in Worker : \A p \in Range(buf'[d]) :
             p \in Accepted' /\ getBufferIndex(p[1])' = d
      BY <1>5, <1>6, <2>3
    <2>6. \A v \in Worker : hand'[v] # noneTaken =>
             hand'[v] \in Accepted' /\ getBufferIndex(hand[v][1])' = BufferOf(v)'
      BY <1>4, <1>5, <2>4 DEF getBufferIndex, BufferOf
    <2>7. \A c \in Conn : \A p \in Range(Line(c)') \ {Sep} :
             p \in Accepted' /\ getBufferIndex(p[1])' = BufferOf(c[1])'
      BY <1>5, <1>6 DEF NothingInvented, Conn
    <2>8. \A m \in Range(data') \cup Range(read') : \E p \in Accepted' : m = <<p>>
      BY <1>4, <1>5 DEF NothingInvented
    <2> QED
      BY <2>5, <2>6, <2>7, <2>8 DEF NothingInvented
  <1>12. SessionsInOrder'
    <2> SUFFICES ASSUME sticky, breaks = 0
                 PROVE  SessionsInOrder'
      BY <1>4, <1>5 DEF SessionsInOrder
    <2>0. /\ StagesInOrder /\ \A d \in Worker : InOrder(buf[d])
          /\ \A c \in Conn : InOrder(Line(c))
          /\ MessagesInOrder(data) /\ MessagesInOrder(read)
      BY DEF SessionsInOrder
    <2>1. h \in Stage(5)
      BY <1>1, <1>2 DEF Stage, NothingInvented
    <2>2. InOrder(Tail(buf[b])) /\ \A q \in Range(Tail(buf[b])) : q # Sep => Before(h, q)
      BY <1>1, <1>7, <2>0, TailInOrder DEF h
    <2>3. Stage(1)' \subseteq Stage(1) /\ Stage(2)' \subseteq Stage(2) /\ Stage(3)' \subseteq Stage(3)
      BY <1>4, <1>5 DEF Stage
    <2>4. Stage(4)' \subseteq Stage(4) \cup {h}
      BY <1>4, <1>5 DEF Stage
    <2>5. Stage(5)' \subseteq Stage(5)
      BY <1>2, <1>4, <1>5 DEF Stage
    <2>6. ASSUME NEW q \in Stage(5)'
          PROVE  Before(h, q)
      <3>1. PICK d \in Worker : q \in Range(buf'[d])
        BY <2>6 DEF Stage
      <3>2. CASE d = b
        <4>1. q # Sep
          BY <1>5, <2>6, AcceptedPayload, PayloadIsPair DEF Stage
        <4> QED
          BY <1>4, <2>2, <3>1, <3>2, <4>1
      <3>3. CASE d # b
        <4>1. getBufferIndex(q[1]) = d /\ getBufferIndex(h[1]) = b
          BY <1>1, <1>2, <1>4, <3>1, <3>3 DEF NothingInvented
        <4> QED
          BY <3>3, <4>1 DEF Before
      <3> QED
        BY <3>2, <3>3
    <2>7. StagesInOrder'
      <3>1. \A m \in 1 .. 5 : m # 5 /\ m # 5 - 1 => m = 1 \/ m = 2 \/ m = 3
        OBVIOUS
      <3>2. 5 \in 2 .. 5 /\ 5 - 1 = 4
        OBVIOUS
      <3> QED
        BY <2>0, <2>1, <2>3, <2>4, <2>5, <2>6, <3>1, <3>2, StageMoves
    <2> QED
      BY <1>4, <1>5, <2>0, <2>2, <2>7 DEF SessionsInOrder
  <1> QED
    BY <1>0, <1>8, <1>9, <1>10, <1>11, <1>12

\* A new connection is empty, and the worker's former one is down.
LEMMA ConnectCore ==
  ASSUME Core, NEW w \in Worker, Connect(w), UNCHANGED inVars
  PROVE  Core'
  <1> USE DEF Core
  <1>0. TypeOK'
    BY OutputType DEF OutputStep, WorkerStep
  <1>1. /\ pc[w] = "connect" /\ pc'[w] = "take" /\ \A v \in Worker \ {w} : pc'[v] = pc[v]
        /\ dialed'[w] = dialed[w] + 1 /\ \A v \in Worker \ {w} : dialed'[v] = dialed[v]
        /\ up' = up \cup {<<w, dialed[w] + 1>>}
        /\ UNCHANGED <<sticky, written, buf, hand, wire, breaks, handler, buffer, data, read>>
    BY DEF Connect, Dial, TypeOK, OutputTypeOK, ConnTypeOK, inVars
  <1>2. \A c \in Conn : Line(c)' = Line(c)
    BY <1>1 DEF Line
  <1>3. CopiesOnce' /\ NothingInvented' /\ SessionsInOrder'
    BY <1>1, <1>2, QuietStep
  <1>4. \A v \in Worker : dialed[v] \in Nat /\ dialed'[v] \in Nat
    BY <1>0, Constants DEF TypeOK, ConnTypeOK
  <1>5. ConnOf(w) \notin up /\ hand[w] = noneTaken /\ dialed[w] <= breaks
    <2>1. InStep(w)
      BY WorkersSplit
    <2> QED
      BY <1>1, <1>4, <2>1 DEF InStep, TypeOK, ConnTypeOK
  <1>6. Framed'
    <2> SUFFICES ASSUME NEW c \in Conn, c[2] > dialed'[c[1]]
                 PROVE  Line(c) = <<>>
      BY <1>1, <1>2 DEF Framed
    <2>1. c[1] \in Worker /\ c[2] \in Nat
      BY DEF Conn
    <2>2. dialed'[c[1]] >= dialed[c[1]]
      BY <1>1, <1>4, <2>1
    <2>3. c[2] > dialed[c[1]]
      BY <1>4, <2>1, <2>2
    <2> QED
      BY <2>3 DEF Framed
  <1>7. ASSUME NEW c \in up'
        PROVE  c[2] = dialed'[c[1]]
    <2>1. CASE c = <<w, dialed[w] + 1>>
      BY <1>1, <2>1
    <2>2. CASE c \in up
      <3>1. c[2] = dialed[c[1]] /\ c[1] \in Worker /\ c = <<c[1], c[2]>>
        BY <2>2 DEF WorkersInStep, TypeOK, ConnTypeOK, Conn
      <3>2. c[1] # w
        BY <1>5, <2>2, <3>1 DEF ConnOf
      <3> QED
        BY <1>1, <3>1, <3>2
    <2> QED
      BY <1>1, <2>1, <2>2
  <1>8. ASSUME NEW v \in Worker
        PROVE  InStep(v)'
    <2>1. InStep(v)
      BY WorkersSplit
    <2>2. CASE v = w
      <3>1. ConnOf(v)' = <<w, dialed[w] + 1>> /\ ConnOf(v)' \in up'
        BY <1>1, <2>2 DEF ConnOf
      <3>2. <<w, dialed[w] + 1>> \in Conn
        BY <1>0, <1>1 DEF TypeOK, ConnTypeOK
      <3>3. Line(<<w, dialed[w] + 1>>) = <<>>
        <4>1. dialed[w] + 1 > dialed[w]
          BY <1>4
        <4> QED
          BY <3>2, <4>1 DEF Framed
      <3>4. Line(ConnOf(v))' = <<>>
        <4> DEFINE d == <<w, dialed[w] + 1>>
        <4>1. buffer'[d] = buffer[d] /\ handler'[d] = handler[d] /\ wire'[d] = wire[d]
          BY <1>1
        <4> QED
          BY <1>1, <3>1, <3>3, <4>1 DEF Line
      <3>5. dialed'[v] <= breaks' + 1 /\ dialed'[v] # 0
        BY <1>1, <1>4, <1>5, <2>2 DEF TypeOK, ConnTypeOK
      <3> QED
        BY <1>1, <1>5, <2>2, <3>1, <3>4, <3>5 DEF InStep
    <2>3. CASE v # w
      <3>1. ConnOf(v) \in up' <=> ConnOf(v) \in up
        BY <1>1, <2>3 DEF ConnOf
      <3>2. ConnOf(v) \in up => Line(ConnOf(v))' = Line(ConnOf(v))
        BY <1>1, <2>3 DEF Line, ConnOf
      <3> QED
        BY <1>1, <2>1, <2>3, <3>1, <3>2, InStepKept
    <2> QED
      BY <2>2, <2>3
  <1>9. WorkersInStep'
    BY <1>7, <1>8 DEF WorkersInStep, InStep
  <1> QED
    BY <1>0, <1>3, <1>6, <1>9

\* Only the worker's control point changes, and its connection is down.
LEMMA DownCore ==
  ASSUME Core, TypeOK', NEW w \in Worker, pc[w] \in {"data", "sep"}, ConnOf(w) \notin up,
         pc'[w] \in {"sep", "requeue"}, \A v \in Worker \ {w} : pc'[v] = pc[v],
         UNCHANGED <<sticky, written, buf, hand, connVars, inVars>>
  PROVE  Core'
  <1> USE DEF Core
  <1>1. UNCHANGED <<dialed, up, wire, breaks, handler, buffer, data, read>>
    BY DEF connVars, inVars
  <1>2. \A c : Line(c)' = Line(c)
    BY <1>1 DEF Line
  <1>3. CopiesOnce' /\ NothingInvented' /\ SessionsInOrder'
    BY <1>1, <1>2, QuietStep
  <1>4. Framed'
    BY <1>1, <1>2 DEF Framed
  <1>5. ASSUME NEW v \in Worker
        PROVE  InStep(v)'
    <2>1. InStep(v)
      BY WorkersSplit
    <2>2. CASE v = w
      <3>1. ConnOf(v)' = ConnOf(v)
        BY <1>1 DEF ConnOf
      <3> QED
        BY <1>1, <2>1, <2>2, <3>1 DEF InStep
    <2>3. CASE v # w
      <3>1. ConnOf(v)' = ConnOf(v) /\ Line(ConnOf(v))' = Line(ConnOf(v))
        BY <1>1 DEF ConnOf, Line
      <3> QED
        BY <1>1, <2>1, <2>3, <3>1, InStepKept
    <2> QED
      BY <2>2, <2>3
  <1>6. WorkersInStep'
    BY <1>1, <1>5 DEF WorkersInStep, InStep
  <1> QED
    BY <1>3, <1>4, <1>6

\* A payload goes from the worker's hand to its connection as well; without the
\* separator it does not count there.
LEMMA WriteDataCore ==
  ASSUME Core, NEW w \in Worker, WriteData(w), UNCHANGED inVars
  PROVE  Core'
  <1> USE DEF Core
  <1>0. TypeOK'
    BY OutputType DEF OutputStep, WorkerStep
  <1>1. /\ pc[w] = "data" /\ pc'[w] = "sep" /\ \A v \in Worker \ {w} : pc'[v] = pc[v]
        /\ UNCHANGED <<sticky, written, buf, hand, handler, buffer, data, read>>
    BY DEF WriteData, TypeOK, OutputTypeOK, inVars
  <1>2. CASE Broken(ConnOf(w)) /\ UNCHANGED connVars
    BY <1>0, <1>1, <1>2, DownCore DEF Broken
  <1>3. CASE Send(ConnOf(w), hand[w])
    <2>1. PICK c, h : c = ConnOf(w) /\ h = hand[w]
      OBVIOUS
    <2>2. /\ c \in up /\ c \in Conn /\ c[1] = w /\ c[2] = dialed[w]
          /\ UNCHANGED <<dialed, up, breaks>>
      BY <1>3, <2>1 DEF Send, TypeOK, ConnTypeOK, ConnOf
    <2>3. /\ h \in Payload /\ h \in Accepted /\ h # Sep /\ h \in Text
          /\ getBufferIndex(h[1]) = BufferOf(w)
          /\ Line(c) = <<>> \/ EndsWith(Line(c), Sep)
      <3>1. InStep(w)
        BY WorkersSplit
      <3>2. hand[w] # noneTaken
        BY <1>1, <3>1 DEF InStep
      <3>3. h \in Accepted /\ getBufferIndex(h[1]) = BufferOf(w)
        BY <2>1, <3>2 DEF NothingInvented
      <3>4. Line(c) = <<>> \/ EndsWith(Line(c), Sep)
        BY <1>1, <2>1, <2>2, <3>1 DEF InStep
      <3> QED
        BY <3>3, <3>4, AcceptedFacts DEF Text
    <2>4. Line(c)' = Append(Line(c), h) /\ \A d \in Conn \ {c} : Line(d)' = Line(d)
      BY <1>1, <1>3, <2>1, <2>2, <2>3, LineSend
    <2>5. Line(c) \in Seq(Text) /\ Alternates(Line(c)) /\ SealedOnce(Line(c))
      BY <2>2, LineParts DEF Framed, CopiesOnce
    <2>6. /\ Alternates(Line(c)') /\ EndsWith(Line(c)', h)
          /\ Whole(Line(c)') = Whole(Line(c)) /\ SealedOnce(Line(c)')
      BY <2>3, <2>4, <2>5, PayloadSent
    <2>7. Range(Line(c)') = Range(Line(c)) \cup {h}
      BY <2>3, <2>4, <2>5, AppendRange
    <2>8. Accepted' = Accepted
      BY <1>1 DEF Accepted
    <2>9. CopiesOnce'
      <3>1. \A d \in Conn : Whole(Line(d)') = Whole(Line(d)) /\ SealedOnce(Line(d)')
        BY <2>4, <2>6 DEF CopiesOnce
      <3>2. ASSUME NEW p \in Accepted
            PROVE  Exclusive(p)' /\ (breaks = 0 => Somewhere(p)')
        <4>1. Exclusive(p) /\ (breaks = 0 => Somewhere(p))
          BY DEF CopiesOnce
        <4> QED
          BY <1>1, <3>1, <4>1, StillExclusive, StillSomewhere
      <3> QED
        BY <1>1, <2>2, <2>8, <3>1, <3>2 DEF CopiesOnce
    <2>10. Framed'
      <3> SUFFICES ASSUME NEW d \in Conn
                   PROVE  Alternates(Line(d)') /\ (d[2] > dialed[d[1]] => Line(d)' = <<>>)
        BY <1>1, <2>2 DEF Framed
      <3>1. CASE d = c
        <4>1. ~(c[2] > dialed[c[1]])
          BY <2>2, Constants DEF TypeOK, ConnTypeOK
        <4> QED
          BY <2>6, <3>1, <4>1
      <3>2. CASE d # c
        BY <2>4, <3>2 DEF Framed
      <3> QED
        BY <3>1, <3>2
    <2>11. WorkersInStep'
      <3>1. ASSUME NEW v \in Worker
            PROVE  InStep(v)'
        <4>1. InStep(v) /\ ConnOf(v)' = ConnOf(v)
          BY <2>2, WorkersSplit DEF ConnOf
        <4>2. CASE v = w
          <5>1. Line(ConnOf(v))' = Line(c)'
            BY <2>1, <4>1, <4>2 DEF Line
          <5>2. EndsWith(Line(ConnOf(v)), hand[v])'
            BY <1>1, <2>1, <2>6, <4>2, <5>1 DEF EndsWith
          <5> QED
            BY <1>1, <2>2, <4>1, <4>2, <5>2 DEF InStep
        <4>3. CASE v # w
          <5>1. ConnOf(v) # c
            BY <2>1, <4>3, ConnOfOne
          <5>2. ConnOf(v) \in up => Line(ConnOf(v))' = Line(ConnOf(v))
            <6> SUFFICES ASSUME ConnOf(v) \in up PROVE Line(ConnOf(v))' = Line(ConnOf(v))
              OBVIOUS
            <6>1. PICK d : d = ConnOf(v)
              OBVIOUS
            <6>2. Line(d)' = Line(d)
              BY <2>4, <5>1, <6>1 DEF TypeOK, ConnTypeOK
            <6> QED
              BY <4>1, <6>1, <6>2 DEF Line
          <5> QED
            BY <1>1, <2>2, <4>1, <4>3, <5>2, InStepKept
        <4> QED
          BY <4>2, <4>3
      <3> QED
        BY <2>2, <3>1 DEF WorkersInStep, InStep
    <2>12. NothingInvented'
      <3>1. \A d \in Conn : \A p \in Range(Line(d)') :
               \/ p \in Range(Line(d)) \/ p = Sep
               \/ p \in Accepted' /\ getBufferIndex(p[1]) = BufferOf(d[1])
        BY <2>2, <2>3, <2>4, <2>7, <2>8
      <3> QED
        BY <1>1, <2>8, <3>1, NothingNew
    <2>13. SessionsInOrder'
      <3> SUFFICES ASSUME sticky, breaks = 0
                   PROVE  SessionsInOrder'
        BY <1>1, <2>2 DEF SessionsInOrder
      <3>1. /\ StagesInOrder /\ \A d \in Worker : InOrder(buf[d])
            /\ \A d \in Conn : InOrder(Line(d))
            /\ MessagesInOrder(data) /\ MessagesInOrder(read)
        BY DEF SessionsInOrder
      <3>2. h \in Stage(4)
        BY <1>1, <2>1, <2>3 DEF Stage
      <3>3. Stage(1)' \subseteq Stage(1) /\ Stage(2)' \subseteq Stage(2) /\ Stage(5)' \subseteq Stage(5)
        BY <1>1, <2>8 DEF Stage
      <3>4. Stage(3)' \subseteq Stage(3) \cup {h}
        <4> SUFFICES ASSUME NEW q \in Stage(3)', q # h PROVE q \in Stage(3)
          OBVIOUS
        <4>1. PICK d \in Conn : q \in Range(Line(d)')
          BY DEF Stage
        <4>2. q \in Accepted /\ q \in Range(Line(d))
          BY <2>4, <2>7, <2>8, <4>1 DEF Stage
        <4> QED
          BY <4>2 DEF Stage
      <3>5. ASSUME NEW q \in Stage(4)'
            PROVE  q \in Stage(4) /\ Before(h, q)
        <4>1. PICK v \in Worker : pc'[v] = "data" /\ hand'[v] = q
          BY <3>5 DEF Stage
        <4>2. v # w /\ pc[v] = "data" /\ hand[v] = q /\ q \in Accepted
          BY <1>1, <2>8, <3>5, <4>1 DEF Stage
        <4>3. getBufferIndex(q[1]) = BufferOf(v)
          BY <4>2, AcceptedFacts DEF NothingInvented
        <4> QED
          BY <2>3, <4>2, <4>3 DEF Stage, Before, BufferOf
      <3>6. StagesInOrder'
        <4>1. \A m \in 1 .. 5 : m # 4 /\ m # 4 - 1 => m = 1 \/ m = 2 \/ m = 5
          OBVIOUS
        <4>2. 4 \in 2 .. 5 /\ 4 - 1 = 3
          OBVIOUS
        <4> QED
          BY <3>1, <3>2, <3>3, <3>4, <3>5, <4>1, <4>2, StageMoves
      <3>7. \A d \in Conn : InOrder(Line(d)')
        <4>1. \A q \in Range(Line(c)) : q # Sep => Before(q, h)
          <5> SUFFICES ASSUME NEW q \in Range(Line(c)), q # Sep PROVE Before(q, h)
            OBVIOUS
          <5>1. q \in Stage(3)
            BY <2>2, AcceptedFacts DEF Stage
          <5> QED
            BY <3>1, <3>2, <5>1 DEF StagesInOrder
        <4>2. InOrder(Append(Line(c), h))
          BY <2>2, <2>3, <2>5, <3>1, <4>1, AppendInOrder
        <4> QED
          BY <2>4, <3>1, <4>2
      <3> QED
        BY <1>1, <3>1, <3>6, <3>7 DEF SessionsInOrder
    <2> QED
      BY <1>0, <2>9, <2>10, <2>11, <2>12, <2>13
  <1> QED
    BY <1>2, <1>3 DEF WriteData

\* The separator makes the payload count on the connection, and the worker no
\* longer has it; on a broken connection the payload is lost.
LEMMA WriteSepCore ==
  ASSUME Core, NEW w \in Worker, WriteSep(w), UNCHANGED inVars
  PROVE  Core'
  <1> USE DEF Core
  <1>0. TypeOK'
    BY OutputType DEF OutputStep, WorkerStep
  <1>1. /\ pc[w] = "sep" /\ pc'[w] = "take" /\ \A v \in Worker \ {w} : pc'[v] = pc[v]
        /\ hand'[w] = noneTaken /\ \A v \in Worker \ {w} : hand'[v] = hand[v]
        /\ UNCHANGED <<sticky, written, buf, handler, buffer, data, read>>
    BY DEF WriteSep, TypeOK, OutputTypeOK, inVars
  <1>2. Accepted' = Accepted
    BY <1>1 DEF Accepted
  <1>3. PICK c, h : c = ConnOf(w) /\ h = hand[w]
    OBVIOUS
  <1>4. h \in Payload /\ h \in Accepted /\ InStep(w)
    <2>1. InStep(w)
      BY WorkersSplit
    <2> QED
      BY <1>1, <1>3, <2>1, AcceptedFacts DEF InStep
  <1>5. CASE Broken(ConnOf(w)) /\ UNCHANGED connVars
    <2>1. ConnOf(w) \notin up /\ UNCHANGED <<dialed, up, wire, breaks>>
      BY <1>5 DEF Broken, connVars
    <2>2. breaks # 0 /\ breaks' # 0
      BY <1>1, <2>1, DownMeansBroken
    <2>3. \A d : Line(d)' = Line(d)
      BY <1>1, <2>1 DEF Line
    <2>4. CopiesOnce'
      <3>1. ASSUME NEW p \in Accepted
            PROVE  Exclusive(p)'
        <4>1. Exclusive(p) /\ p # noneTaken
          BY AcceptedFacts DEF CopiesOnce
        <4> QED
          BY <1>1, <2>3, <4>1, StillExclusive
      <3> QED
        BY <1>1, <1>2, <2>2, <2>3, <3>1 DEF CopiesOnce
    <2>5. Framed'
      BY <1>1, <2>1, <2>3 DEF Framed
    <2>6. ASSUME NEW v \in Worker
          PROVE  InStep(v)'
      <3>1. InStep(v) /\ ConnOf(v)' = ConnOf(v)
        BY <2>1, WorkersSplit DEF ConnOf
      <3>2. CASE v = w
        BY <1>1, <2>1, <3>1, <3>2 DEF InStep
      <3>3. CASE v # w
        <4>1. Line(ConnOf(v))' = Line(ConnOf(v))
          BY <1>1, <2>1, <3>1 DEF Line
        <4> QED
          BY <1>1, <2>1, <3>1, <3>3, <4>1, InStepKept
      <3> QED
        BY <3>2, <3>3
    <2>7. WorkersInStep'
      BY <2>1, <2>6 DEF WorkersInStep, InStep
    <2>8. NothingInvented'
      BY <1>1, <1>2, <2>3, NothingNew
    <2> QED
      BY <1>0, <2>2, <2>4, <2>5, <2>7, <2>8, NoOrderAfterBreak
  <1>6. CASE Send(ConnOf(w), Sep)
    <2>2. /\ c \in up /\ c \in Conn /\ c[1] = w /\ c[2] = dialed[w]
          /\ UNCHANGED <<dialed, up, breaks>>
      BY <1>3, <1>6 DEF Send, TypeOK, ConnTypeOK, ConnOf
    <2>3. EndsWith(Line(c), h)
      BY <1>1, <1>3, <1>4, <2>2 DEF InStep
    <2>4. Line(c)' = Append(Line(c), Sep) /\ \A d \in Conn \ {c} : Line(d)' = Line(d)
      BY <1>1, <1>3, <1>6, <2>2, LineSend DEF Text
    <2>5. Line(c) \in Seq(Text) /\ Alternates(Line(c)) /\ SealedOnce(Line(c)) /\ Sep \in Text
      BY <2>2, LineParts DEF Framed, CopiesOnce, Text
    <2>6. /\ Exclusive(h) /\ h # noneTaken /\ h # Sep
          /\ \A d \in Conn : h \notin Whole(Line(d))
      BY <1>3, <1>4, AcceptedFacts DEF CopiesOnce, Exclusive
    <2>7. /\ Alternates(Line(c)') /\ EndsWith(Line(c)', Sep)
          /\ Whole(Line(c)') = Whole(Line(c)) \cup {h} /\ SealedOnce(Line(c)')
      BY <1>4, <2>2, <2>3, <2>4, <2>5, <2>6, SeparatorSent
    <2>8. Range(Line(c)') = Range(Line(c)) \cup {Sep}
      BY <2>4, <2>5, AppendRange
    <2>9. CopiesOnce'
      <3>1. ASSUME NEW p \in Accepted
            PROVE  Exclusive(p)' /\ (breaks = 0 => Somewhere(p)')
        <4>1. Exclusive(p) /\ (breaks = 0 => Somewhere(p)) /\ p # noneTaken
          BY AcceptedFacts DEF CopiesOnce
        <4>2. CASE p = h
          <5>1. \A v \in Worker : hand'[v] # p
            BY <1>1, <1>3, <4>1, <4>2 DEF Exclusive
          <5>2. \A d \in Conn : p \in Whole(Line(d)') <=> d = c
            BY <2>2, <2>4, <2>6, <2>7, <4>2
          <5>3. /\ \A b \in Worker : p \notin Range(buf'[b])
                /\ <<p>> \notin Range(data') /\ <<p>> \notin Range(read')
            BY <1>1, <1>3, <4>1, <4>2 DEF Exclusive
          <5> QED
            BY <2>2, <5>1, <5>2, <5>3 DEF Exclusive, Somewhere
        <4>3. CASE p # h
          <5>1. \A d \in Conn : p \in Whole(Line(d)') <=> p \in Whole(Line(d))
            BY <2>4, <2>7, <4>3
          <5>2. \A v \in Worker : hand'[v] = p <=> hand[v] = p
            BY <1>1, <1>3, <4>1, <4>3
          <5> QED
            BY <1>1, <4>1, <5>1, <5>2, StillExclusive, StillSomewhere
        <4> QED
          BY <4>2, <4>3
      <3>2. \A d \in Conn : SealedOnce(Line(d)')
        BY <2>4, <2>7 DEF CopiesOnce
      <3> QED
        BY <1>1, <1>2, <2>2, <3>1, <3>2 DEF CopiesOnce
    <2>10. Framed'
      <3> SUFFICES ASSUME NEW d \in Conn
                   PROVE  Alternates(Line(d)') /\ (d[2] > dialed[d[1]] => Line(d)' = <<>>)
        BY <1>1, <2>2 DEF Framed
      <3>1. CASE d = c
        <4>1. ~(c[2] > dialed[c[1]])
          BY <2>2, Constants DEF TypeOK, ConnTypeOK
        <4> QED
          BY <2>7, <3>1, <4>1
      <3>2. CASE d # c
        BY <2>4, <3>2 DEF Framed
      <3> QED
        BY <3>1, <3>2
    <2>11. WorkersInStep'
      <3>1. ASSUME NEW v \in Worker
            PROVE  InStep(v)'
        <4>1. InStep(v) /\ ConnOf(v)' = ConnOf(v)
          BY <2>2, WorkersSplit DEF ConnOf
        <4>2. CASE v = w
          <5>1. EndsWith(Line(ConnOf(v)), Sep)'
            BY <1>3, <2>7, <4>1, <4>2 DEF Line, EndsWith
          <5> QED
            BY <1>1, <2>2, <4>1, <4>2, <5>1 DEF InStep
        <4>3. CASE v # w
          <5>1. ConnOf(v) # c
            BY <1>3, <4>3, ConnOfOne
          <5>2. ConnOf(v) \in up => Line(ConnOf(v))' = Line(ConnOf(v))
            <6> SUFFICES ASSUME ConnOf(v) \in up PROVE Line(ConnOf(v))' = Line(ConnOf(v))
              OBVIOUS
            <6>1. PICK d : d = ConnOf(v)
              OBVIOUS
            <6>2. Line(d)' = Line(d)
              BY <2>4, <5>1, <6>1 DEF TypeOK, ConnTypeOK
            <6> QED
              BY <4>1, <6>1, <6>2 DEF Line
          <5> QED
            BY <1>1, <2>2, <4>1, <4>3, <5>2, InStepKept
        <4> QED
          BY <4>2, <4>3
      <3> QED
        BY <2>2, <3>1 DEF WorkersInStep, InStep
    <2>12. NothingInvented'
      <3>1. \A d \in Conn : \A p \in Range(Line(d)') : p \in Range(Line(d)) \/ p = Sep
        BY <2>4, <2>8
      <3> QED
        BY <1>1, <1>2, <3>1, NothingNew
    <2>13. SessionsInOrder'
      <3> SUFFICES ASSUME sticky, breaks = 0
                   PROVE  SessionsInOrder'
        BY <1>1, <2>2 DEF SessionsInOrder
      <3>1. /\ StagesInOrder /\ \A d \in Worker : InOrder(buf[d])
            /\ \A d \in Conn : InOrder(Line(d))
            /\ MessagesInOrder(data) /\ MessagesInOrder(read)
        BY DEF SessionsInOrder
      <3>2. Stage(1)' \subseteq Stage(1) /\ Stage(2)' \subseteq Stage(2) /\ Stage(5)' \subseteq Stage(5)
        BY <1>1, <1>2 DEF Stage
      <3>3. Stage(3)' \subseteq Stage(3)
        <4> SUFFICES ASSUME NEW q \in Stage(3)' PROVE q \in Stage(3)
          OBVIOUS
        <4>1. PICK d \in Conn : q \in Range(Line(d)')
          BY DEF Stage
        <4>2. q \in Accepted /\ q \in Range(Line(d))
          BY <1>2, <2>4, <2>8, <4>1, AcceptedFacts DEF Stage
        <4> QED
          BY <4>2 DEF Stage
      <3>4. Stage(4)' \subseteq Stage(4)
        BY <1>1, <1>2 DEF Stage
      <3>5. StagesInOrder'
        <4>1. \A m \in 1 .. 5 : m = 1 \/ m = 2 \/ m = 3 \/ m = 4 \/ m = 5
          OBVIOUS
        <4> QED
          BY <3>1, <3>2, <3>3, <3>4, <4>1, StagesKept
      <3>6. \A d \in Conn : InOrder(Line(d)')
        <4>1. InOrder(Append(Line(c), Sep))
          BY <2>2, <2>5, <3>1, AppendInOrder
        <4> QED
          BY <2>4, <3>1, <4>1
      <3> QED
        BY <1>1, <3>1, <3>5, <3>6 DEF SessionsInOrder
    <2> QED
      BY <1>0, <2>9, <2>10, <2>11, <2>12, <2>13
  <1> QED
    BY <1>5, <1>6 DEF WriteSep

\* A failed separator changes nothing but where the worker goes on.
LEMMA WriteSepFailsCore ==
  ASSUME Core, NEW w \in Worker, WriteSepFails(w), UNCHANGED inVars
  PROVE  Core'
  <1>1. TypeOK'
    BY OutputType DEF OutputStep, WorkerStep, Core
  <1>2. pc'[w] = "requeue" /\ \A v \in Worker \ {w} : pc'[v] = pc[v]
    BY DEF WriteSepFails, Core, TypeOK, OutputTypeOK
  <1> QED
    BY <1>1, <1>2, DownCore DEF WriteSepFails, Broken

\* A payload goes back from the worker's hand to its buffer.
LEMMA RequeueCore ==
  ASSUME Core, NEW w \in Worker, Requeue(w), UNCHANGED inVars
  PROVE  Core'
  <1> USE DEF Core
  <1>0. TypeOK'
    BY OutputType DEF OutputStep, WorkerStep
  <1>1. PICK b, h : b = BufferOf(w) /\ h = hand[w]
    OBVIOUS
  <1>2. /\ pc[w] = "requeue" /\ pc'[w] = "connect" /\ \A v \in Worker \ {w} : pc'[v] = pc[v]
        /\ hand'[w] = noneTaken /\ \A v \in Worker \ {w} : hand'[v] = hand[v]
        /\ b \in Worker /\ buf[b] \in Seq(Payload)
        /\ buf'[b] = Append(buf[b], h) /\ \A d \in Worker \ {b} : buf'[d] = buf[d]
        /\ UNCHANGED <<sticky, written, dialed, up, wire, breaks, handler, buffer, data, read>>
    BY <1>1, Constants DEF Requeue, TypeOK, OutputTypeOK, inVars, connVars
  <1>3. InStep(w)
    BY WorkersSplit
  <1>4. /\ h \in Payload /\ h \in Accepted /\ h # noneTaken /\ getBufferIndex(h[1]) = b
        /\ ConnOf(w) \notin up /\ Exclusive(h)
    BY <1>1, <1>2, <1>3, AcceptedFacts DEF InStep, NothingInvented, CopiesOnce
  <1>5. breaks # 0 /\ breaks' # 0
    BY <1>2, <1>4, DownMeansBroken
  <1>6. Accepted' = Accepted /\ (\A d : Line(d)' = Line(d))
    BY <1>2 DEF Accepted, Line
  <1>7. Range(buf'[b]) = Range(buf[b]) \cup {h}
    BY <1>2, <1>4, AppendRange
  <1>8. \A d \in Worker : h \notin Range(buf[d])
    BY <1>1, <1>4 DEF Exclusive
  <1>9. CopiesOnce'
    <2>1. ASSUME NEW p \in Accepted
          PROVE  Exclusive(p)'
      <3>1. Exclusive(p) /\ p # noneTaken
        BY AcceptedFacts DEF CopiesOnce
      <3>2. CASE p = h
        <4>1. \A v \in Worker : hand'[v] # p
          BY <1>1, <1>2, <3>1, <3>2 DEF Exclusive
        <4>2. \A d \in Worker : p \in Range(buf'[d]) <=> d = b
          BY <1>2, <1>7, <1>8, <3>2
        <4>3. /\ \A c \in Conn : p \notin Whole(Line(c)')
              /\ <<p>> \notin Range(data') /\ <<p>> \notin Range(read')
          BY <1>1, <1>2, <1>6, <3>1, <3>2 DEF Exclusive
        <4> QED
          BY <1>2, <4>1, <4>2, <4>3 DEF Exclusive
      <3>3. CASE p # h
        <4>1. \A d \in Worker : p \in Range(buf'[d]) => p \in Range(buf[d])
          BY <1>2, <1>7, <3>3
        <4>2. \A v \in Worker : hand'[v] = p => hand[v] = p
          BY <1>2, <3>1
        <4> QED
          BY <1>2, <1>6, <3>1, <4>1, <4>2, StillExclusive
      <3> QED
        BY <3>2, <3>3
    <2>2. \A d \in Worker : IsInjective(buf'[d])
      <3>1. IsInjective(Append(buf[b], h))
        BY <1>2, <1>4, <1>8, AppendNew DEF CopiesOnce
      <3> QED
        BY <1>2, <3>1 DEF CopiesOnce
    <2> QED
      BY <1>2, <1>5, <1>6, <2>1, <2>2 DEF CopiesOnce
  <1>10. Framed'
    BY <1>2, <1>6 DEF Framed
  <1>11. ASSUME NEW v \in Worker
         PROVE  InStep(v)'
    <2>1. InStep(v) /\ ConnOf(v)' = ConnOf(v)
      BY <1>2, WorkersSplit DEF ConnOf
    <2>2. CASE v = w
      BY <1>2, <1>4, <2>1, <2>2 DEF InStep
    <2>3. CASE v # w
      <3>1. Line(ConnOf(v))' = Line(ConnOf(v))
        BY <1>2, <2>1 DEF Line
      <3> QED
        BY <1>2, <2>1, <2>3, <3>1, InStepKept
    <2> QED
      BY <2>2, <2>3
  <1>12. WorkersInStep'
    BY <1>2, <1>11 DEF WorkersInStep, InStep
  <1>13. NothingInvented'
    <2>1. \A d \in Worker : \A p \in Range(buf'[d]) :
             p \in Range(buf[d]) \/ (p \in Accepted' /\ getBufferIndex(p[1]) = d)
      <3> SUFFICES ASSUME NEW d \in Worker, NEW p \in Range(buf'[d]), p \notin Range(buf[d])
                   PROVE  p = h /\ d = b
        BY <1>4, <1>6
      <3>1. d = b
        BY <1>2
      <3> QED
        BY <1>7, <3>1
    <2> QED
      BY <1>2, <1>6, <2>1, NothingNew
  <1> QED
    BY <1>0, <1>5, <1>9, <1>10, <1>12, <1>13, NoOrderAfterBreak

-----------------------------------------------------------------------------
(* The steps of the input                                                    *)

\* A step of the input that leaves the connections as they are, and lines that
\* differ on connection c at most.
LEMMA OthersInStep ==
  ASSUME Core, NEW c \in Conn, UNCHANGED <<dialed, up, breaks, pc, hand>>,
         \A d \in Conn \ {c} : Line(d)' = Line(d),
         \A v \in Worker : ConnOf(v) = c /\ c \in up => InStep(v)'
  PROVE  WorkersInStep'
  <1>1. ASSUME NEW v \in Worker
        PROVE  InStep(v)'
    <2>1. InStep(v) /\ ConnOf(v)' = ConnOf(v)
      BY WorkersSplit DEF ConnOf, Core
    <2>2. CASE ConnOf(v) = c /\ c \in up
      BY <2>2
    <2>3. CASE ~(ConnOf(v) = c /\ c \in up)
      <3>1. ConnOf(v) \in up => Line(ConnOf(v))' = Line(ConnOf(v))
        <4> SUFFICES ASSUME ConnOf(v) \in up PROVE Line(ConnOf(v))' = Line(ConnOf(v))
          OBVIOUS
        <4>1. PICK d : d = ConnOf(v)
          OBVIOUS
        <4>2. Line(d)' = Line(d)
          BY <2>3, <4>1 DEF Core, TypeOK, ConnTypeOK
        <4> QED
          BY <2>1, <4>1, <4>2 DEF Line
      <3> QED
        BY <2>1, <3>1, InStepKept DEF Core
    <2> QED
      BY <2>2, <2>3
  <1> QED
    BY <1>1 DEF WorkersInStep, InStep, Core

\* A line goes from the wire to the handler, which has one payload when the
\* separator comes and none when a payload does.
LEMMA ReadLineCore ==
  ASSUME Core, NEW c \in Conn, ReadLine(c), UNCHANGED outVars
  PROVE  Core'
  <1> USE DEF Core
  <1>0. TypeOK'
    BY InputType DEF InputStep, HandlerStep
  <1>1. /\ UNCHANGED <<sticky, written, buf, pc, hand, dialed, up, breaks, data, read>>
        /\ handler[c] = "read" /\ wire[c] # <<>>
    BY DEF ReadLine, Receive, outVars
  <1>2. \A d \in Conn : Line(d)' = Line(d)
    BY LineReadLine
  <1>3. CopiesOnce' /\ NothingInvented' /\ SessionsInOrder'
    BY <1>1, <1>2, QuietStep
  <1>4. WorkersInStep'
    <2>1. ASSUME NEW v \in Worker, ConnOf(v) = c
          PROVE  InStep(v)'
      <3>1. InStep(v)
        BY WorkersSplit
      <3>2. Line(ConnOf(v))' = Line(ConnOf(v))
        <4>1. ConnOf(v)' = c
          BY <1>1, <2>1 DEF ConnOf
        <4> QED
          BY <1>2, <2>1, <4>1 DEF Line
      <3> QED
        BY <1>1, <3>1, <3>2, InStepKept
    <2> QED
      BY <1>1, <1>2, <2>1, OthersInStep
  <1>5. /\ buffer[c] \in Seq(Payload) /\ Len(buffer[c]) \in {0, 1}
        /\ buffer[c] \in Seq(Text) /\ wire[c] \in Seq(Text)
        /\ Line(c) = buffer[c] \o wire[c] /\ Line(c) \in Seq(Text)
    <2>1. /\ buffer[c] \in Seq(Text) /\ wire[c] \in Seq(Text)
          /\ Line(c) = buffer[c] \o wire[c] /\ Line(c) \in Seq(Text)
      BY <1>1, LineParts
    <2>2. buffer[c] \in Seq(Payload) /\ Len(buffer[c]) <= 1
      BY DEF Framed, TypeOK, InputTypeOK
    <2>3. Len(buffer[c]) \in Nat
      BY <2>2, LenProperties
    <2>4. Len(buffer[c]) \in {0, 1}
      <3>1. \A n \in Nat : n <= 1 => n \in {0, 1}
        OBVIOUS
      <3> QED
        BY <2>2, <2>3, <3>1, Zenon
    <2> QED
      BY <2>1, <2>2, <2>4, Zenon
  <1>6. Head(wire[c]) = wire[c][1] /\ Len(wire[c]) \in Nat \ {0}
    BY <1>1, <1>5, TailRange
  <1>7. /\ Len(Line(c)) = Len(buffer[c]) + Len(wire[c])
        /\ \A i \in 1 .. Len(buffer[c]) + Len(wire[c]) : Line(c)[i] =
              IF i <= Len(buffer[c]) THEN buffer[c][i] ELSE wire[c][i - Len(buffer[c])]
    <2>1. /\ Len(buffer[c] \o wire[c]) = Len(buffer[c]) + Len(wire[c])
          /\ \A i \in 1 .. Len(buffer[c]) + Len(wire[c]) : (buffer[c] \o wire[c])[i] =
                IF i <= Len(buffer[c]) THEN buffer[c][i] ELSE wire[c][i - Len(buffer[c])]
      BY <1>5, ConcatProperties, Zenon
    <2> QED
      BY <1>5, <2>1, Zenon
  <1>8. DOMAIN Line(c) = 1 .. Len(Line(c)) /\ Line(c) # <<>> /\ Alternates(Line(c))
    <2>1. DOMAIN Line(c) = 1 .. Len(Line(c))
      BY <1>5, LenProperties
    <2>2. Len(Line(c)) # 0
      <3>1. Len(buffer[c]) \in {0, 1} /\ Len(Line(c)) = Len(buffer[c]) + Len(wire[c])
        BY <1>5, <1>7
      <3>2. \A m \in {0, 1}, n \in Nat \ {0} : m + n # 0
        OBVIOUS
      <3> QED
        BY <1>6, <3>1, <3>2, Zenon
    <2> QED
      BY <2>1, <2>2, EmptySeq DEF Framed
  <1>9. Len(buffer[c]) = 0 => Head(wire[c]) # Sep
    <2> SUFFICES ASSUME Len(buffer[c]) = 0 PROVE Head(wire[c]) # Sep
      OBVIOUS
    <2>1. 1 \in 1 .. Len(buffer[c]) + Len(wire[c]) /\ ~(1 <= Len(buffer[c])) /\ 1 - Len(buffer[c]) = 1
      BY <1>6
    <2>2. Line(c)[1] = wire[c][1]
      BY <1>7, <2>1
    <2> QED
      BY <1>6, <1>8, <2>2 DEF Alternates
  <1>10. Len(buffer[c]) = 1 => Head(wire[c]) = Sep
    <2> SUFFICES ASSUME Len(buffer[c]) = 1 PROVE Head(wire[c]) = Sep
      OBVIOUS
    <2>1. /\ 1 \in 1 .. 1 + Len(wire[c]) /\ 2 \in 1 .. 1 + Len(wire[c])
          /\ 1 <= 1 /\ ~(2 <= 1) /\ 2 - 1 = 1 /\ 1 + 1 = 2
      BY <1>6
    <2>2. Line(c)[1] = buffer[c][1] /\ Line(c)[2] = wire[c][1]
      BY <1>7, <2>1
    <2>3. buffer[c][1] # Sep
      BY <1>5, PayloadIsPair, LenProperties
    <2>4. 1 \in DOMAIN Line(c) /\ 1 + 1 \in DOMAIN Line(c)
      BY <1>7, <1>8, <2>1
    <2>5. Line(c)[1] = Sep <=> Line(c)[1 + 1] # Sep
      BY <1>8, <2>4 DEF Alternates
    <2> QED
      BY <1>6, <2>2, <2>3, <2>5
  <1>11. Framed'
    <2>1. ASSUME NEW d \in Conn
          PROVE  /\ Len(buffer'[d]) <= 1
                 /\ handler'[d] = "push" => Len(buffer'[d]) = 1
      <3>1. CASE d # c
        BY <3>1 DEF ReadLine, TypeOK, InputTypeOK, Framed
      <3>2. CASE d = c /\ Head(wire[c]) = Sep
        <4>1. handler'[c] = "push" /\ buffer'[c] = buffer[c] /\ Len(buffer[c]) = 1
          BY <1>5, <1>9, <3>2 DEF ReadLine, TypeOK, InputTypeOK
        <4> QED
          BY <3>2, <4>1
      <3>3. CASE d = c /\ Head(wire[c]) # Sep
        <4>1. /\ handler'[c] = "read" /\ buffer'[c] = Append(buffer[c], Head(wire[c]))
              /\ Len(buffer[c]) = 0
          BY <1>1, <1>5, <1>10, <3>3 DEF ReadLine, TypeOK, InputTypeOK
        <4>2. Head(wire[c]) \in Text
          BY <1>1, <1>5, HeadTailProperties
        <4>3. Len(buffer'[c]) = 1
          BY <1>5, <4>1, <4>2, AppendProperties
        <4> QED
          BY <3>3, <4>1, <4>3
      <3> QED
        BY <3>1, <3>2, <3>3
    <2> QED
      BY <1>1, <1>2, <2>1 DEF Framed
  <1> QED
    BY <1>0, <1>3, <1>4, <1>11

\* While nothing has broken every worker has dialed at most once.
LEMMA OneConnEach ==
  ASSUME Core, breaks = 0, NEW c \in Conn, c[2] <= dialed[c[1]]
  PROVE  c[2] = 1 /\ c = ConnOf(c[1]) /\ c \in up
  <1>1. /\ c[1] \in Worker /\ c[2] \in 1 .. MaxBreaks + 1 /\ c = <<c[1], c[2]>>
        /\ dialed[c[1]] \in Nat
    BY Constants DEF Conn, Core, TypeOK, ConnTypeOK
  <1>2. InStep(c[1])
    BY <1>1, WorkersSplit DEF Core
  <1>3. dialed[c[1]] <= 1 /\ dialed[c[1]] > 0 /\ ConnOf(c[1]) \in up
    BY <1>1, <1>2, Constants DEF InStep
  <1>4. c[2] = 1 /\ dialed[c[1]] = 1
    BY <1>1, <1>3, Constants
  <1> QED
    BY <1>1, <1>3, <1>4 DEF ConnOf

\* A message at the end of a sequence of messages.
LEMMA MessageAppended ==
  ASSUME NEW s \in Seq(Seq(Payload)), NEW m \in Seq(Payload)
  PROVE  Range(Append(s, m)) = Range(s) \cup {m}
  <1> DEFINE S == Seq(Payload)
  <1>1. s \in Seq(S) /\ m \in S
    OBVIOUS
  <1> HIDE DEF S
  <1> QED
    BY <1>1, AppendRange

\* The first payload of a connection goes to the data channel.
LEMMA PushCore ==
  ASSUME Core, NEW c \in Conn, Push(c), UNCHANGED outVars
  PROVE  Core'
  <1> USE DEF Core
  <1>0. TypeOK'
    BY InputType DEF InputStep, HandlerStep
  <1>1. PICK p : p = Line(c)[1]
    OBVIOUS
  <1>2. /\ \A d \in Conn \ {c} : Line(d)' = Line(d)
        /\ Line(c) \in Seq(Text) /\ Line(c)' \in Seq(Text)
        /\ Len(Line(c)) = Len(Line(c)') + 2
        /\ p \in Payload /\ Line(c)[2] = Sep /\ buffer[c] = <<p>>
        /\ \A i \in 1 .. Len(Line(c)') : Line(c)'[i] = Line(c)[i + 2]
    BY <1>1, LinePush
  <1>3. Alternates(Line(c)) /\ SealedOnce(Line(c))
    BY DEF Framed, CopiesOnce
  <1>4. /\ Alternates(Line(c)') /\ Range(Line(c)') \subseteq Range(Line(c))
        /\ p \in Whole(Line(c)) /\ Whole(Line(c)) = Whole(Line(c)') \cup {p}
        /\ SealedOnce(Line(c)') /\ p \notin Whole(Line(c)')
        /\ InOrder(Line(c)) => InOrder(Line(c)') /\ \A q \in Range(Line(c)') \ {Sep} : Before(p, q)
        /\ \A x : EndsWith(Line(c), x) => Line(c)' = <<>> \/ EndsWith(Line(c)', x)
    BY <1>1, <1>2, <1>3, LineRest
  <1>5. /\ data \in Seq(Seq(Payload)) /\ <<p>> \in Seq(Payload) /\ data' = Append(data, <<p>>)
        /\ UNCHANGED <<sticky, written, buf, pc, hand, dialed, up, breaks, read>>
        /\ handler'[c] = "read" /\ buffer'[c] = <<>>
        /\ \A d \in Conn \ {c} : handler'[d] = handler[d] /\ buffer'[d] = buffer[d]
    BY <1>2 DEF Push, connVars, outVars, TypeOK, InputTypeOK
  <1>6. Accepted' = Accepted
    BY <1>5 DEF Accepted
  <1>7. /\ p \in Accepted /\ p # Sep /\ p \in Range(Line(c)) /\ Exclusive(p)
        /\ getBufferIndex(p[1]) = BufferOf(c[1])
    <2>1. p \in Range(Line(c)) /\ p # Sep
      BY <1>2, <1>4, AcceptedFacts, PayloadIsPair
    <2> QED
      BY <2>1 DEF NothingInvented, CopiesOnce
  <1>8. Range(data') = Range(data) \cup {<<p>>}
    <2>1. Range(Append(data, <<p>>)) = Range(data) \cup {<<p>>}
      BY <1>5, MessageAppended
    <2> QED
      BY <1>5, <2>1, Zenon
  <1>9. \A q : <<q>> \in Range(data') <=> <<q>> \in Range(data) \/ q = p
    BY <1>8
  <1>10. CopiesOnce'
    <2>1. ASSUME NEW q \in Accepted
          PROVE  Exclusive(q)' /\ (breaks = 0 => Somewhere(q)')
      <3>1. Exclusive(q) /\ (breaks = 0 => Somewhere(q))
        BY DEF CopiesOnce
      <3>2. CASE q = p
        <4>1. \A d \in Conn : q \notin Whole(Line(d)')
          BY <1>2, <1>4, <3>1, <3>2 DEF Exclusive
        <4>2. /\ \A b \in Worker : q \notin Range(buf'[b])
              /\ \A w \in Worker : hand'[w] # q
              /\ <<q>> \notin Range(read') /\ <<q>> \in Range(data')
          BY <1>4, <1>5, <1>9, <3>1, <3>2 DEF Exclusive
        <4> QED
          BY <4>1, <4>2 DEF Exclusive, Somewhere
      <3>3. CASE q # p
        <4>1. \A d \in Conn : q \in Whole(Line(d)') <=> q \in Whole(Line(d))
          BY <1>2, <1>4, <3>3
        <4> QED
          BY <1>5, <1>9, <3>1, <3>3, <4>1, StillExclusive, StillSomewhere
      <3> QED
        BY <3>2, <3>3
    <2>2. \A d \in Conn : SealedOnce(Line(d)')
      BY <1>2, <1>4 DEF CopiesOnce
    <2>3. IsInjective(data')
      <3>1. <<p>> \notin Range(data)
        BY <1>4, <1>7 DEF Exclusive
      <3> QED
        BY <1>5, <3>1, AppendNew DEF CopiesOnce
    <2> QED
      BY <1>5, <1>6, <2>1, <2>2, <2>3 DEF CopiesOnce
  <1>11. Framed'
    <2> SUFFICES ASSUME NEW d \in Conn
                 PROVE  /\ Alternates(Line(d)') /\ Len(buffer'[d]) <= 1
                        /\ handler'[d] = "push" => Len(buffer'[d]) = 1
                        /\ d[2] > dialed[d[1]] => Line(d)' = <<>>
      BY <1>5 DEF Framed
    <2>1. CASE d = c
      <3>1. Line(c) # <<>>
        BY <1>7, SeqRange, EmptySeq DEF Range
      <3>2. ~(c[2] > dialed[c[1]])
        BY <3>1 DEF Framed
      <3>3. Len(buffer'[c]) = 0
        BY <1>5
      <3> QED
        BY <1>4, <1>5, <2>1, <3>2, <3>3
    <2>2. CASE d # c
      BY <1>2, <1>5, <2>2, SMTT(30) DEF Framed
    <2> QED
      BY <2>1, <2>2
  <1>12. WorkersInStep'
    <2>1. ASSUME NEW v \in Worker, ConnOf(v) = c, c \in up
          PROVE  InStep(v)'
      <3>1. InStep(v) /\ ConnOf(v)' = c
        BY <1>5, <2>1, WorkersSplit DEF ConnOf
      <3>2. Line(ConnOf(v))' = Line(c)'
        BY <3>1 DEF Line
      <3>3. Line(c) # <<>>
        BY <1>7, SeqRange, EmptySeq DEF Range
      <3>4. CASE pc[v] = "sep" /\ EndsWith(Line(c), hand[v])
        <4>1. hand[v] # Sep
          BY <3>1, <3>4, AcceptedFacts DEF InStep
        <4>2. Line(c)' # <<>>
          <5> SUFFICES ASSUME Line(c)' = <<>> PROVE FALSE
            OBVIOUS
          <5>1. Len(Line(c)) = 2
            <6>1. Len(Line(c)') = 0
              BY <1>2, EmptySeq
            <6> QED
              BY <1>2, <6>1
          <5> QED
            BY <1>2, <3>4, <4>1, <5>1 DEF EndsWith
        <4>3. EndsWith(Line(c)', hand[v])
          BY <1>4, <3>4, <4>2
        <4>4. EndsWith(Line(ConnOf(v)), hand[v])'
          BY <1>5, <3>2, <4>3 DEF EndsWith
        <4> QED
          BY <1>5, <2>1, <3>1, <3>4, <4>4 DEF InStep
      <3>5. CASE pc[v] \in {"take", "data"} /\ EndsWith(Line(c), Sep)
        <4>1. Line(ConnOf(v))' = <<>> \/ EndsWith(Line(ConnOf(v)), Sep)'
          BY <1>4, <3>2, <3>5 DEF EndsWith
        <4> QED
          BY <1>5, <2>1, <3>1, <3>5, <4>1 DEF InStep
      <3> QED
        BY <2>1, <3>1, <3>3, <3>4, <3>5 DEF InStep
    <2> QED
      BY <1>2, <1>5, <2>1, OthersInStep
  <1>13. NothingInvented'
    <2>1. \A d \in Conn : Range(Line(d)') \subseteq Range(Line(d))
      BY <1>2, <1>4
    <2> QED
      BY <1>5, <1>6, <1>7, <1>8, <2>1, NothingNew
  <1>14. SessionsInOrder'
    <2> SUFFICES ASSUME sticky, breaks = 0
                 PROVE  SessionsInOrder'
      BY <1>5 DEF SessionsInOrder
    <2>1. /\ StagesInOrder /\ \A d \in Worker : InOrder(buf[d])
          /\ \A d \in Conn : InOrder(Line(d))
          /\ MessagesInOrder(data) /\ MessagesInOrder(read)
      BY DEF SessionsInOrder
    <2>2. p \in Stage(3)
      BY <1>7 DEF Stage
    <2>3. Stage(1)' \subseteq Stage(1) /\ Stage(4)' \subseteq Stage(4) /\ Stage(5)' \subseteq Stage(5)
      BY <1>5, <1>6 DEF Stage
    <2>4. Stage(2)' \subseteq Stage(2) \cup {p}
      BY <1>6, <1>9 DEF Stage
    <2>5. ASSUME NEW q \in Stage(3)'
          PROVE  q \in Stage(3) /\ Before(p, q)
      <3>1. PICK d \in Conn : q \in Range(Line(d)')
        BY <2>5 DEF Stage
      <3>2. q \in Accepted /\ q # Sep /\ q \in Range(Line(d))
        BY <1>2, <1>4, <1>6, <2>5, <3>1, AcceptedFacts DEF Stage
      <3>3. CASE d = c
        BY <1>4, <2>1, <3>1, <3>2, <3>3 DEF Stage
      <3>4. CASE d # c
        <4>1. getBufferIndex(q[1]) = BufferOf(d[1])
          BY <3>2 DEF NothingInvented
        <4>2. Line(d) # <<>> /\ Line(c) # <<>>
          BY <1>7, <3>2 DEF Range
        <4>3. c[2] <= dialed[c[1]] /\ d[2] <= dialed[d[1]]
          <5>1. /\ c[2] \in Nat /\ d[2] \in Nat /\ dialed[c[1]] \in Nat /\ dialed[d[1]] \in Nat
            BY Constants DEF Conn, TypeOK, ConnTypeOK
          <5> QED
            BY <4>2, <5>1 DEF Framed
        <4>4. c[2] = 1 /\ d[2] = 1 /\ c = <<c[1], c[2]>> /\ d = <<d[1], d[2]>>
          BY <4>3, OneConnEach DEF Conn
        <4>5. c[1] # d[1]
          BY <3>4, <4>4
        <4>6. p[1] # q[1]
          BY <1>7, <4>1, <4>5 DEF BufferOf
        <4> QED
          BY <3>2, <4>6 DEF Stage, Before
      <3> QED
        BY <3>3, <3>4
    <2>6. StagesInOrder'
      <3>1. \A m \in 1 .. 5 : m # 3 /\ m # 3 - 1 => m = 1 \/ m = 4 \/ m = 5
        OBVIOUS
      <3>2. 3 \in 2 .. 5 /\ 3 - 1 = 2
        OBVIOUS
      <3> QED
        BY <2>1, <2>2, <2>3, <2>4, <2>5, <3>1, <3>2, StageMoves
    <2>7. \A d \in Conn : InOrder(Line(d)')
      BY <1>2, <1>4, <2>1
    <2>8. MessagesInOrder(data')
      <3>1. ASSUME NEW m \in Range(data)
            PROVE  Before(m[1], <<p>>[1])
        <4>1. PICK q \in Accepted : m = <<q>>
          BY <3>1 DEF NothingInvented
        <4>2. q \in Stage(2)
          BY <3>1, <4>1 DEF Stage
        <4>3. Before(q, p)
          BY <2>1, <2>2, <4>2 DEF StagesInOrder
        <4>4. m[1] = q /\ <<p>>[1] = p
          BY <4>1
        <4> QED
          BY <4>3, <4>4
      <3> QED
        BY <1>5, <2>1, <3>1, AppendMessages
    <2> QED
      BY <1>5, <2>1, <2>6, <2>7, <2>8 DEF SessionsInOrder
  <1> QED
    BY <1>0, <1>10, <1>11, <1>12, <1>13, <1>14

\* An error ends a handler; what it had read since the last separator is lost.
LEMMA ReadErrorCore ==
  ASSUME Core, NEW c \in Conn, ReadError(c), UNCHANGED outVars
  PROVE  Core'
  <1> USE DEF Core
  <1>0. TypeOK'
    BY InputType DEF InputStep, HandlerStep
  <1>1. /\ c \notin up /\ c[2] <= dialed[c[1]] /\ wire[c] = <<>>
        /\ handler'[c] = "end" /\ buffer'[c] = <<>>
        /\ \A d \in Conn \ {c} : handler'[d] = handler[d] /\ buffer'[d] = buffer[d]
        /\ UNCHANGED <<sticky, written, buf, pc, hand, dialed, up, wire, breaks, data, read>>
    BY DEF ReadError, Broken, connVars, outVars, TypeOK, InputTypeOK
  <1>2. breaks # 0 /\ breaks' # 0
    BY <1>1, OneConnEach
  <1>3. \A d \in Conn \ {c} : Line(d)' = Line(d)
    BY <1>1 DEF Line
  <1>4. Line(c)' = <<>>
    <2>1. Line(c)' = (<<>> \o <<>>) \o <<>>
      BY <1>1 DEF Line
    <2> QED
      BY <2>1
  <1>5. /\ Alternates(Line(c)') /\ Whole(Line(c)') = {} /\ SealedOnce(Line(c)')
        /\ Range(Line(c)') = {}
    <2>1. DOMAIN <<>> = {}
      OBVIOUS
    <2> QED
      BY <1>4, <2>1 DEF Alternates, Whole, Sealed, SealedOnce, Range
  <1>6. Accepted' = Accepted
    BY <1>1 DEF Accepted
  <1>7. CopiesOnce'
    <2>1. ASSUME NEW p \in Accepted
          PROVE  Exclusive(p)'
      <3>1. Exclusive(p) /\ \A d \in Conn : p \in Whole(Line(d)') => p \in Whole(Line(d))
        BY <1>3, <1>5 DEF CopiesOnce
      <3> QED
        BY <1>1, <3>1, StillExclusive
    <2>2. \A d \in Conn : SealedOnce(Line(d)')
      BY <1>3, <1>5 DEF CopiesOnce
    <2> QED
      BY <1>1, <1>2, <1>6, <2>1, <2>2 DEF CopiesOnce
  <1>8. Framed'
    <2> SUFFICES ASSUME NEW d \in Conn
                 PROVE  /\ Alternates(Line(d)') /\ Len(buffer'[d]) <= 1
                        /\ handler'[d] = "push" => Len(buffer'[d]) = 1
                        /\ d[2] > dialed[d[1]] => Line(d)' = <<>>
      BY <1>1 DEF Framed
    <2>1. CASE d = c
      <3>1. Len(buffer'[c]) = 0
        BY <1>1
      <3> QED
        BY <1>1, <1>4, <1>5, <2>1, <3>1
    <2>2. CASE d # c
      BY <1>1, <1>3, <2>2 DEF Framed
    <2> QED
      BY <2>1, <2>2
  <1>9. WorkersInStep'
    BY <1>1, <1>3, OthersInStep
  <1>10. NothingInvented'
    <2>1. \A d \in Conn : Range(Line(d)') \subseteq Range(Line(d))
      BY <1>3, <1>5
    <2> QED
      BY <1>1, <1>6, <2>1, NothingNew
  <1> QED
    BY <1>0, <1>2, <1>7, <1>8, <1>9, <1>10, NoOrderAfterBreak

\* Read takes the first payload of the data channel.
LEMMA ReadCore ==
  ASSUME Core, Read, UNCHANGED outVars
  PROVE  /\ Core'
         /\ \E p \in Accepted :
               /\ \A i \in DOMAIN read : read[i] # <<p>>
               /\ read' = Append(read, <<p>>)
  <1> USE DEF Core
  <1>0. TypeOK'
    BY InputType DEF InputStep
  <1>1. /\ data \in Seq(Seq(Payload)) /\ data # <<>> /\ read \in Seq(Seq(Payload))
        /\ read' = Append(read, Head(data)) /\ data' = Tail(data)
        /\ UNCHANGED <<sticky, written, buf, pc, hand, dialed, up, wire, breaks, handler, buffer>>
    BY DEF Read, connVars, outVars, TypeOK, InputTypeOK
  <1>2. Head(data) \in Seq(Payload) /\ Range(data) = Range(Tail(data)) \cup {Head(data)}
    BY <1>1, TailRange, Zenon
  <1>3. PICK p \in Accepted : Head(data) = <<p>>
    BY <1>2 DEF NothingInvented
  <1>4. IsInjective(data) /\ IsInjective(read)
    BY DEF CopiesOnce
  <1>5. IsInjective(Tail(data)) /\ Head(data) \notin Range(Tail(data))
    BY <1>1, <1>4, TailNew, Zenon
  <1>6. Range(read') = Range(read) \cup {<<p>>}
    <2>1. Range(Append(read, Head(data))) = Range(read) \cup {Head(data)}
      BY <1>1, <1>2, MessageAppended
    <2> QED
      BY <1>1, <1>3, <2>1, Zenon
  <1>7. /\ \A q : <<q>> \in Range(read') <=> <<q>> \in Range(read) \/ q = p
        /\ \A q : <<q>> \in Range(data') <=> <<q>> \in Range(data) /\ q # p
        /\ <<p>> \in Range(data)
    <2>1. \A q : <<q>> = <<p>> <=> q = p
      OBVIOUS
    <2> QED
      BY <1>1, <1>2, <1>3, <1>5, <1>6, <2>1, Zenon
  <1>8. <<p>> \notin Range(read)
    BY <1>7 DEF CopiesOnce, Exclusive
  <1>9. Accepted' = Accepted /\ \A d : Line(d)' = Line(d)
    BY <1>1 DEF Accepted, Line
  <1>10. CopiesOnce'
    <2>1. ASSUME NEW q \in Accepted
          PROVE  Exclusive(q)' /\ (breaks = 0 => Somewhere(q)')
      <3>1. Exclusive(q) /\ (breaks = 0 => Somewhere(q))
        BY DEF CopiesOnce
      <3>2. CASE q = p
        <4>1. \A d \in Conn : q \notin Whole(Line(d)')
          BY <1>7, <1>9, <3>1, <3>2 DEF Exclusive
        <4>2. /\ \A b \in Worker : q \notin Range(buf'[b])
              /\ \A w \in Worker : hand'[w] # q
              /\ <<q>> \in Range(read') /\ <<q>> \notin Range(data')
          BY <1>1, <1>7, <3>1, <3>2 DEF Exclusive
        <4> QED
          BY <4>1, <4>2 DEF Exclusive, Somewhere
      <3>3. CASE q # p
        <4>1. /\ <<q>> \in Range(read') <=> <<q>> \in Range(read)
              /\ <<q>> \in Range(data') <=> <<q>> \in Range(data)
          BY <1>7, <3>3, Zenon
        <4>2. UNCHANGED <<buf, hand>>
          BY <1>1
        <4> QED
          BY <1>9, <3>1, <4>1, <4>2, StillExclusive, StillSomewhere
      <3> QED
        BY <3>2, <3>3
    <2>2. IsInjective(read')
      <3>1. IsInjective(Append(read, Head(data)))
        BY <1>1, <1>2, <1>3, <1>4, <1>8, AppendNew, Zenon
      <3> QED
        BY <1>1, <3>1, Zenon
    <2>3. IsInjective(data')
      BY <1>1, <1>5, Zenon
    <2>4. UNCHANGED <<buf, breaks>>
      BY <1>1
    <2> QED
      BY <1>9, <2>1, <2>2, <2>3, <2>4 DEF CopiesOnce
  <1>11. Framed'
    BY <1>1, <1>9 DEF Framed
  <1>12. WorkersInStep'
    <2>1. UNCHANGED <<pc, hand, dialed, up, wire, breaks, handler, buffer>>
      BY <1>1
    <2>2. \A v \in Worker : InStep(v)'
      <3> SUFFICES ASSUME NEW v \in Worker PROVE InStep(v)'
        OBVIOUS
      <3>1. InStep(v) /\ Line(ConnOf(v))' = Line(ConnOf(v))
        BY <2>1, WorkersSplit DEF Line, ConnOf
      <3> QED
        BY <2>1, <3>1, InStepKept
    <2> QED
      BY <2>1, <2>2 DEF WorkersInStep, InStep
  <1>13. NothingInvented'
    <2>1. \A m \in Range(data') \cup Range(read') : m \in Range(data) \cup Range(read)
      BY <1>1, <1>2, <1>3, <1>6, Zenon
    <2>2. UNCHANGED <<sticky, buf, hand>>
      BY <1>1
    <2> QED
      BY <1>9, <2>1, <2>2, NothingNew
  <1>14. SessionsInOrder'
    <2>0. UNCHANGED <<sticky, buf, pc, hand, breaks>>
      BY <1>1
    <2> SUFFICES ASSUME sticky, breaks = 0
                 PROVE  SessionsInOrder'
      BY <2>0 DEF SessionsInOrder
    <2>1. /\ StagesInOrder /\ \A d \in Worker : InOrder(buf[d])
          /\ \A d \in Conn : InOrder(Line(d))
          /\ MessagesInOrder(data) /\ MessagesInOrder(read)
      BY DEF SessionsInOrder
    <2>2. p \in Stage(2)
      BY <1>7 DEF Stage
    <2>3. Stage(3)' \subseteq Stage(3) /\ Stage(4)' \subseteq Stage(4) /\ Stage(5)' \subseteq Stage(5)
      BY <1>9, <2>0 DEF Stage
    <2>4. Stage(1)' \subseteq Stage(1) \cup {p}
      BY <1>7, <1>9 DEF Stage
    <2>5. MessagesInOrder(Tail(data)) /\ \A m \in Range(Tail(data)) : Before(Head(data)[1], m[1])
      BY <1>1, <2>1, TailMessages, Zenon
    <2>6. ASSUME NEW q \in Stage(2)'
          PROVE  q \in Stage(2) /\ Before(p, q)
      <3>1. <<q>> \in Range(data') /\ q \in Accepted
        BY <1>9, <2>6 DEF Stage
      <3>2. q \in Stage(2)
        BY <1>7, <3>1 DEF Stage
      <3>3. Before(Head(data)[1], <<q>>[1])
        BY <1>1, <2>5, <3>1, Zenon
      <3>4. <<q>>[1] = q /\ <<p>>[1] = p
        OBVIOUS
      <3> QED
        BY <1>3, <3>2, <3>3, <3>4, Zenon
    <2>7. StagesInOrder'
      <3>1. \A m \in 1 .. 5 : m # 2 /\ m # 2 - 1 => m = 3 \/ m = 4 \/ m = 5
        OBVIOUS
      <3>2. 2 \in 2 .. 5 /\ 2 - 1 = 1
        OBVIOUS
      <3> QED
        BY <2>1, <2>2, <2>3, <2>4, <2>6, <3>1, <3>2, StageMoves
    <2>8. MessagesInOrder(read')
      <3>1. ASSUME NEW m \in Range(read)
            PROVE  Before(m[1], Head(data)[1])
        <4>1. PICK q \in Accepted : m = <<q>>
          BY <3>1 DEF NothingInvented
        <4>2. q \in Stage(1)
          BY <3>1, <4>1 DEF Stage
        <4>3. Before(q, p)
          BY <2>1, <2>2, <4>2 DEF StagesInOrder
        <4>4. m[1] = q /\ Head(data)[1] = p
          BY <1>3, <4>1
        <4> QED
          BY <4>3, <4>4, Zenon
      <3>2. MessagesInOrder(Append(read, Head(data)))
        BY <1>1, <1>2, <2>1, <3>1, AppendMessages, Zenon
      <3> QED
        BY <1>1, <3>2, Zenon
    <2>9. MessagesInOrder(data')
      BY <1>1, <2>5, Zenon
    <2> QED
      BY <1>9, <2>0, <2>1, <2>7, <2>8, <2>9 DEF SessionsInOrder
  <1>15. \A i \in DOMAIN read : read[i] # <<p>>
    BY <1>8 DEF Range
  <1>16. read' = Append(read, <<p>>)
    BY <1>1, <1>3
  <1> QED
    BY <1>0, <1>3, <1>10, <1>11, <1>12, <1>13, <1>14, <1>15, <1>16

\* What only tells the input to stop keeps everything else.
LEMMA StopCore ==
  ASSUME Core, ReadStopped \/ Close, UNCHANGED outVars
  PROVE  Core'
  <1>0. TypeOK'
    BY InputType DEF InputStep, Core
  <1>1. UNCHANGED <<sticky, written, buf, pc, hand, dialed, up, wire, breaks, handler, buffer,
                    data, read>>
    BY DEF ReadStopped, Close, connVars, outVars
  <1>2. \A d : Line(d)' = Line(d)
    BY <1>1 DEF Line
  <1>3. CopiesOnce' /\ NothingInvented' /\ SessionsInOrder'
    BY <1>1, <1>2, QuietStep
  <1>4. Framed'
    BY <1>1, <1>2 DEF Framed, Core
  <1>5. \A v \in Worker : InStep(v)'
    <2> SUFFICES ASSUME NEW v \in Worker PROVE InStep(v)'
      OBVIOUS
    <2>1. InStep(v) /\ Line(ConnOf(v))' = Line(ConnOf(v))
      BY <1>1, WorkersSplit DEF Line, ConnOf, Core
    <2> QED
      BY <1>1, <2>1, InStepKept DEF Core
  <1>6. WorkersInStep'
    BY <1>1, <1>5 DEF WorkersInStep, InStep, Core
  <1> QED
    BY <1>0, <1>3, <1>4, <1>6 DEF Core

-----------------------------------------------------------------------------
(* The system                                                                *)

\* A break takes a connection away from its worker, and from then on payloads
\* may be missing.
LEMMA BreakCore ==
  ASSUME Core, NEW c \in Conn, Break(c), UNCHANGED <<outVars, inVars>>
  PROVE  Core'
  <1> USE DEF Core
  <1>0. TypeOK'
    BY BreakType
  <1>1. /\ c \in up /\ up' = up \ {c} /\ breaks' = breaks + 1 /\ breaks \in Nat
        /\ UNCHANGED <<sticky, written, buf, pc, hand, dialed, handler, buffer, data, read>>
    BY Constants DEF Break, outVars, inVars, TypeOK, ConnTypeOK
  <1>2. breaks' # 0
    BY <1>1
  <1>3. /\ \A d \in Conn \ {c} : Line(d)' = Line(d)
        /\ Line(c) \in Seq(Text) /\ Line(c)' \in Seq(Text) /\ Len(Line(c)') <= Len(Line(c))
        /\ \A i \in 1 .. Len(Line(c)') : Line(c)'[i] = Line(c)[i]
    BY <1>1, LineBreak
  <1>4. Alternates(Line(c)) /\ SealedOnce(Line(c))
    BY DEF Framed, CopiesOnce
  <1>5. /\ Alternates(Line(c)') /\ Whole(Line(c)') \subseteq Whole(Line(c))
        /\ Range(Line(c)') \subseteq Range(Line(c)) /\ SealedOnce(Line(c)')
    BY <1>3, <1>4, LinePrefix
  <1>6. Accepted' = Accepted
    BY <1>1 DEF Accepted
  <1>7. CopiesOnce'
    <2>1. ASSUME NEW p \in Accepted
          PROVE  Exclusive(p)'
      <3>1. Exclusive(p) /\ \A d \in Conn : p \in Whole(Line(d)') => p \in Whole(Line(d))
        BY <1>3, <1>5 DEF CopiesOnce
      <3> QED
        BY <1>1, <3>1, StillExclusive
    <2>2. \A d \in Conn : SealedOnce(Line(d)')
      BY <1>3, <1>5 DEF CopiesOnce
    <2> QED
      BY <1>1, <1>2, <1>6, <2>1, <2>2 DEF CopiesOnce
  <1>8. c[1] \in Worker /\ c[2] = dialed[c[1]] /\ c = <<c[1], c[2]>> /\ c = ConnOf(c[1])
    BY <1>1 DEF WorkersInStep, Conn, ConnOf
  <1>9. \A w \in Worker : dialed[w] \in Nat
    BY Constants DEF TypeOK, ConnTypeOK
  <1>10. Framed'
    <2> SUFFICES ASSUME NEW d \in Conn
                 PROVE  Alternates(Line(d)') /\ (d[2] > dialed[d[1]] => Line(d)' = <<>>)
      BY <1>1 DEF Framed
    <2>1. CASE d = c
      BY <1>5, <1>8, <1>9, <2>1
    <2>2. CASE d # c
      BY <1>3, <2>2 DEF Framed
    <2> QED
      BY <2>1, <2>2
  <1>11. ASSUME NEW v \in Worker
         PROVE  InStep(v)'
    <2>1. InStep(v) /\ ConnOf(v)' = ConnOf(v) /\ dialed[v] \in Nat
      BY <1>1, <1>9, WorkersSplit DEF ConnOf
    <2>2. CASE ConnOf(v) \notin up'
      <3>1. dialed[v] <= breaks + 1
        BY <1>1, <2>1 DEF InStep
      <3> QED
        BY <1>1, <1>2, <2>1, <2>2, <3>1 DEF InStep
    <2>3. CASE ConnOf(v) \in up'
      <3>1. ConnOf(v) # c /\ ConnOf(v) \in up /\ ConnOf(v) \in Conn
        BY <1>1, <2>3 DEF TypeOK, ConnTypeOK
      <3>2. Line(ConnOf(v))' = Line(ConnOf(v))
        <4>1. PICK d \in Conn : d = ConnOf(v)
          BY <3>1
        <4>2. Line(d)' = Line(d)
          BY <1>3, <3>1, <4>1
        <4> QED
          BY <2>1, <4>1, <4>2 DEF Line
      <3>3. dialed[v] <= breaks + 1 + 1
        BY <1>1, <2>1, <3>1 DEF InStep
      <3>4. EndsWith(Line(ConnOf(v)), hand[v])' <=> EndsWith(Line(ConnOf(v)), hand[v])
        BY <1>1, <3>2 DEF EndsWith
      <3>5. EndsWith(Line(ConnOf(v)), Sep)' <=> EndsWith(Line(ConnOf(v)), Sep)
        BY <3>2 DEF EndsWith
      <3> QED
        BY <1>1, <2>1, <2>3, <3>1, <3>2, <3>3, <3>4, <3>5 DEF InStep
    <2> QED
      BY <2>2, <2>3
  <1>12. WorkersInStep'
    BY <1>1, <1>11 DEF WorkersInStep, InStep
  <1>13. NothingInvented'
    <2>1. \A d \in Conn : Range(Line(d)') \subseteq Range(Line(d))
      BY <1>3, <1>5
    <2> QED
      BY <1>1, <1>6, <2>1, NothingNew
  <1> QED
    BY <1>0, <1>2, <1>7, <1>10, <1>12, <1>13, NoOrderAfterBreak

\* Initially nothing is anywhere.
LEMMA InitCore == Init => Core
  <1> SUFFICES ASSUME Init PROVE Core
    OBVIOUS
  <1> USE DEF Init, ConnInit, OutputInit, InputInit
  <1>0. DOMAIN <<>> = {} /\ Len(<<>>) = 0
    OBVIOUS
  <1>1. Accepted = {}
    BY <1>0 DEF Accepted
  <1>2. \A c \in Conn : Line(c) = <<>>
    <2> SUFFICES ASSUME NEW c \in Conn PROVE Line(c) = <<>>
      OBVIOUS
    <2>1. Line(c) = (<<>> \o <<>>) \o <<>>
      BY DEF Line
    <2> QED
      BY <2>1
  <1>3. TypeOK
    BY Constants DEF TypeOK, ConnTypeOK, OutputTypeOK, InputTypeOK
  <1>4. CopiesOnce
    BY <1>0, <1>1, <1>2 DEF CopiesOnce, SealedOnce, Sealed, IsInjective
  <1>5. Framed
    BY <1>0, <1>2 DEF Framed, Alternates
  <1>6. WorkersInStep
    BY DEF WorkersInStep
  <1>7. NothingInvented
    BY <1>0, <1>2 DEF NothingInvented, Range
  <1>8. SessionsInOrder
    <2>1. StagesInOrder
      BY <1>1 DEF StagesInOrder, Stage
    <2> QED
      BY <1>0, <1>2, <2>1 DEF SessionsInOrder, InOrder, MessagesInOrder
  <1> QED
    BY <1>3, <1>4, <1>5, <1>6, <1>7, <1>8 DEF Core

\* Every step keeps the inductive invariant.
LEMMA NextCore == Core /\ [Next]_vars => Core'
  <1> SUFFICES ASSUME Core, [Next]_vars PROVE Core'
    OBVIOUS
  <1>1. CASE OutputStep /\ UNCHANGED inVars
    BY <1>1, WriteCore, ConnectCore, TakeCore, WriteDataCore, WriteSepCore, WriteSepFailsCore,
       RequeueCore DEF OutputStep, WorkerStep
  <1>2. CASE InputStep /\ UNCHANGED outVars
    BY <1>2, ReadLineCore, PushCore, ReadErrorCore, ReadCore, StopCore DEF InputStep, HandlerStep
  <1>3. CASE (\E c \in Conn : Break(c)) /\ UNCHANGED <<outVars, inVars>>
    BY <1>3, BreakCore
  <1>4. CASE UNCHANGED vars
    <2>1. UNCHANGED <<sticky, written, buf, pc, hand, dialed, up, wire, breaks, handler, buffer,
                      data, stop, reading, read>>
      BY <1>4 DEF vars, connVars, outVars, inVars
    <2>2. TypeOK'
      BY <2>1 DEF Core, TypeOK, ConnTypeOK, OutputTypeOK, InputTypeOK
    <2>3. \A d : Line(d)' = Line(d)
      BY <2>1 DEF Line
    <2>4. CopiesOnce' /\ NothingInvented' /\ SessionsInOrder'
      BY <2>1, <2>3, QuietStep
    <2>5. Framed'
      BY <2>1, <2>3 DEF Framed, Core
    <2>6. \A v \in Worker : InStep(v)'
      <3> SUFFICES ASSUME NEW v \in Worker PROVE InStep(v)'
        OBVIOUS
      <3>1. InStep(v) /\ Line(ConnOf(v))' = Line(ConnOf(v))
        BY <2>1, WorkersSplit DEF Line, ConnOf, Core
      <3> QED
        BY <2>1, <3>1, InStepKept DEF Core
    <2>7. WorkersInStep'
      BY <2>1, <2>6 DEF WorkersInStep, InStep, Core
    <2> QED
      BY <2>2, <2>4, <2>5, <2>7 DEF Core
  <1> QED
    BY <1>1, <1>2, <1>3, <1>4 DEF Next

\* It says what TransportInv says.
LEMMA CoreIsTransportInv == Core => TransportInv
  <1> SUFFICES ASSUME Core PROVE TransportInv
    OBVIOUS
  <1>1. OneCopy
    BY CopiesOnceIsOneCopy DEF Core
  <1>2. StickyOrder
    <2> SUFFICES ASSUME sticky, breaks = 0, NEW i \in DOMAIN read, NEW j \in DOMAIN read, i < j,
                        NEW n \in DOMAIN read[i], NEW m \in DOMAIN read[j]
                 PROVE  Before(read[i][n], read[j][m])
      BY DEF StickyOrder
    <2>1. Before(read[i][1], read[j][1])
      BY DEF Core, SessionsInOrder, MessagesInOrder
    <2>2. read[i] \in Range(read) /\ read[j] \in Range(read)
      BY DEF Range
    <2>3. PICK p, q : read[i] = <<p>> /\ read[j] = <<q>>
      BY <2>2 DEF Core, NothingInvented
    <2>4. n = 1 /\ m = 1
      BY <2>3
    <2> QED
      BY <2>1, <2>4
  <1> QED
    BY <1>1, <1>2 DEF Core, TransportInv

\* Core holds in every state.
LEMMA AlwaysCore == Spec => []Core
  BY InitCore, NextCore, PTL DEF Spec

(***************************************************************************)
(* An accepted payload is in one place at a time, and none is missing      *)
(* until a connection breaks; a sticky session keeps its order.            *)
(***************************************************************************)
THEOREM PayloadsInOnePlace == Spec => []TransportInv
  BY AlwaysCore, CoreIsTransportInv, PTL

\* A step leaves a buffer alone whose workers all wait to put a payload back.
LEMMA StuckStays ==
  ASSUME Core, [Next]_vars, NEW b \in Worker, Stuck(b)
  PROVE  Stuck(b)' /\ buf'[b] = buf[b]
  <1> USE DEF Core
  <1>0. pc \in [Worker -> {"connect", "take", "data", "sep", "requeue"}]
        /\ buf \in [Worker -> Seq(Payload)]
    BY DEF TypeOK, OutputTypeOK
  <1>1. /\ Full(b) /\ \A w \in Worker : BufferOf(w) = b => pc[w] = "requeue"
        /\ \A w \in Worker : BufferOf(w) \in Worker
    BY Constants DEF Stuck
  <1>2. ASSUME UNCHANGED sticky, buf'[b] = buf[b],
               \A w \in Worker : BufferOf(w) = b => pc'[w] = pc[w]
        PROVE  Stuck(b)' /\ buf'[b] = buf[b]
    <2>1. \A w : BufferOf(w)' = BufferOf(w)
      BY <1>2 DEF BufferOf
    <2> QED
      BY <1>1, <1>2, <2>1 DEF Stuck, Full
  <1>3. ASSUME NEW k \in Key, Write(k)
        PROVE  Stuck(b)' /\ buf'[b] = buf[b]
    <2>1. getBufferIndex(k) # b /\ UNCHANGED <<sticky, pc>> /\ buf'[b] = buf[b]
      BY <1>0, <1>1, <1>3, Constants DEF Write
    <2> QED
      BY <1>2, <2>1
  <1>4. ASSUME NEW w \in Worker, WorkerStep(w)
        PROVE  Stuck(b)' /\ buf'[b] = buf[b]
    <2>1. BufferOf(w) # b
      BY <1>1, <1>4 DEF WorkerStep, Connect, Take, WriteData, WriteSep, WriteSepFails, Requeue
    <2>2. UNCHANGED sticky /\ \A v \in Worker \ {w} : pc'[v] = pc[v]
      BY <1>0, <1>4 DEF WorkerStep, Connect, Take, WriteData, WriteSep, WriteSepFails, Requeue
    <2>3. buf'[b] = buf[b]
      BY <1>0, <1>4, <2>1 DEF WorkerStep, Connect, Take, WriteData, WriteSep, WriteSepFails, Requeue
    <2> QED
      BY <1>2, <2>1, <2>2, <2>3
  <1>5. CASE UNCHANGED outVars
    BY <1>2, <1>5 DEF outVars
  <1> QED
    BY <1>3, <1>4, <1>5 DEF Next, OutputStep, vars

(***************************************************************************)
(* When all workers of a full buffer wait for room to put their payload    *)
(* back, they wait for ever: no step changes that, for any number of       *)
(* workers and whatever the rest of the system does.                       *)
(***************************************************************************)
THEOREM StuckForEver == Spec => StuckIsFinal
  <1>1. Core /\ [Next]_vars => [\A b \in Worker : Stuck(b) => Stuck(b)' /\ buf'[b] = buf[b]]_vars
    BY StuckStays
  <1> QED
    BY <1>1, AlwaysCore, PTL DEF Spec, StuckIsFinal

\* Every step is one of PayloadTransport, or none that it can see.
LEMMA TransportStep ==
  ASSUME Core, [Next]_vars
  PROVE  [Transport!TransportNext]_<<Accepted, read>>
  <1>1. ASSUME NEW k \in Key, Write(k), UNCHANGED inVars
        PROVE  Transport!AcceptPayload
    <2>1. /\ <<k, Len(written) + 1>> \notin Accepted
          /\ Accepted' = Accepted \cup {<<k, Len(written) + 1>>}
      BY <1>1, AcceptedNew DEF Write, Core
    <2> QED
      BY <1>1, <2>1 DEF Transport!AcceptPayload, inVars
  <1>2. ASSUME Read, UNCHANGED outVars
        PROVE  Transport!DeliverPayload
    <2>1. Accepted' = Accepted
      BY <1>2 DEF outVars, Accepted
    <2> QED
      BY <1>2, <2>1, ReadCore DEF Transport!DeliverPayload
  <1>3. ASSUME UNCHANGED <<written, read>>
        PROVE  UNCHANGED <<Accepted, read>>
    BY <1>3 DEF Accepted
  <1>4. ASSUME NEW w \in Worker, WorkerStep(w), UNCHANGED inVars
        PROVE  UNCHANGED <<written, read>>
    BY <1>4 DEF WorkerStep, Connect, Take, WriteData, WriteSep, WriteSepFails, Requeue, inVars
  <1>5. ASSUME (\E c \in Conn : HandlerStep(c)) \/ ReadStopped \/ Close, UNCHANGED outVars
        PROVE  UNCHANGED <<written, read>>
    BY <1>5 DEF HandlerStep, ReadLine, Push, ReadError, ReadStopped, Close, outVars
  <1>6. ASSUME UNCHANGED <<outVars, inVars>>
        PROVE  UNCHANGED <<written, read>>
    BY <1>6 DEF outVars, inVars
  <1> QED
    BY <1>1, <1>2, <1>3, <1>4, <1>5, <1>6
    DEF Next, OutputStep, InputStep, vars, Transport!TransportNext

(***************************************************************************)
(* Whatever breaks, what Read returns is one whole payload that was        *)
(* written and not read before: the pair implements PayloadTransport.      *)
(***************************************************************************)
THEOREM TransportRefined == Spec => ImplementsTransport
  <1>1. Init => Transport!TransportInit
    <2>1. DOMAIN <<>> = {}
      OBVIOUS
    <2> QED
      BY <2>1 DEF Init, OutputInit, InputInit, Transport!TransportInit, Accepted
  <1>2. Core /\ [Next]_vars => [Transport!TransportNext]_<<Accepted, read>>
    BY TransportStep
  <1> QED
    BY <1>1, <1>2, AlwaysCore, PTL DEF Spec, ImplementsTransport, Transport!TransportSpec
=============================================================================
