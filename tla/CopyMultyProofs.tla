--------------------------- MODULE CopyMultyProofs -------------------------
(***************************************************************************)
(* CopyMulty serves its writers equally, for any number of sources and     *)
(* writers and with or without --split-output; and without pipelining a    *)
(* response shares the fate of its request, whatever the time to live of   *)
(* the table's entries and the period of its clean-up.                     *)
(***************************************************************************)
EXTENDS CopyMulty, SequenceTheorems, TLAPS

\* The sizes, as the provers use them.
LEMMA Sizes ==
  /\ NWriters \in Nat /\ NWriters > 0 /\ MaxAsked \in Nat /\ MaxPayloads \in Nat
  /\ TTL \in Nat /\ Period \in Nat /\ Period > 0
  /\ 0 \in Writer /\ NWriters - 1 \in Writer /\ 0 \in Age /\ TTL + 1 \in Age
  /\ 0 \in 0 .. Period - 1
  /\ Absent \notin Age
  BY SizeAssumption DEF SizeAssumption, Writer, Age, Absent

\* The round-robin index stays within the writers and comes to each in turn.
LEMMA NextIndexIsWriter ==
  ASSUME NEW w \in Writer
  PROVE  /\ NextIndex(w) \in Writer
         /\ NextIndex(w) = IF w = NWriters - 1 THEN 0 ELSE w + 1
  BY Sizes DEF NextIndex, Writer

\* Older keeps ages ages, and says nothing of an absent entry.
LEMMA OlderAge ==
  /\ \A a \in Age : Older(a) \in Age
  /\ Older(Absent) = Absent
  /\ Older(TTL + 1) = TTL + 1
  BY Sizes DEF Older, Age, Absent

\* The end of an iteration keeps the types of what it changes.
LEMMA FinishType ==
  ASSUME TypeOK, NEW s \in Source, Finish(s)
  PROVE  /\ filtered' \in [Source -> [Id -> Age \cup {Absent}]]
         /\ lastClean' \in [Source -> Age]
         /\ i' \in [Source -> 0 .. Period - 1]
  <1>1. i' \in [Source -> 0 .. Period - 1]
    <2>1. i[s] \in 0 .. Period - 1
      BY DEF TypeOK
    <2>2. (i[s] + 1) % Period \in 0 .. Period - 1
      BY <2>1, Sizes
    <2> QED
      BY <2>2 DEF TypeOK, Finish
  <1>2. /\ filtered' \in [Source -> [Id -> Age \cup {Absent}]]
        /\ lastClean' \in [Source -> Age]
    <2>1. CASE ~Collects(s)
      BY <2>1 DEF TypeOK, Finish
    <2>2. CASE Collects(s)
      <3> DEFINE row == [d \in Id |-> IF filtered[s][d] = TTL + 1 THEN Absent
                                                              ELSE filtered[s][d]]
      <3>1. row \in [Id -> Age \cup {Absent}]
        BY DEF TypeOK
      <3>2. filtered' = [filtered EXCEPT ![s] = row]
        BY <2>2 DEF TypeOK, Finish
      <3>3. filtered' \in [Source -> [Id -> Age \cup {Absent}]]
        <4> HIDE DEF row
        <4> QED
          BY <3>1, <3>2 DEF TypeOK
      <3> QED
        BY <2>2, <3>3, Sizes, ZenonT(60) DEF TypeOK, Finish
    <2> QED
      BY <2>1, <2>2
  <1> QED
    BY <1>1, <1>2

\* A delivered payload keeps the number of reads within its bound.
LEMMA DeliverType ==
  ASSUME TypeOK, NEW s \in Source, Deliver(s)
  PROVE  reads' \in [Source -> 0 .. MaxPayloads] /\ UNCHANGED <<split, wIndex, lost, count>>
  <1>1. reads[s] \in 0 .. MaxPayloads /\ reads[s] < MaxPayloads
    BY DEF TypeOK, Deliver
  <1>2. reads[s] + 1 \in 0 .. MaxPayloads
    BY <1>1, Sizes
  <1> QED
    BY <1>2 DEF TypeOK, Deliver

\* A payload that is forwarded goes to a writer.
LEMMA ForwardType ==
  ASSUME TypeOK, NEW s \in Source, Forward(s)
  PROVE  pc' \in [Source -> {"read", "write", "end"}] /\ pos' \in [Source -> Writer]
  BY Sizes DEF TypeOK, Forward

\* A request joins those of its connection that wait for a response.
LEMMA AskType ==
  ASSUME TypeOK, NEW s \in Source, NEW d \in Id, NEW r \in BOOLEAN, Ask(s, d, r)
  PROVE  asked' \in [Source -> [Id -> Seq(Exchange)]]
  <1>1. [rejected |-> r, age |-> 0] \in Exchange
    BY Sizes DEF Exchange
  <1>2. Append(asked[s][d], [rejected |-> r, age |-> 0]) \in Seq(Exchange)
    BY <1>1 DEF TypeOK
  <1> QED
    BY <1>2 DEF TypeOK, Ask

-----------------------------------------------------------------------------
(* Types                                                                     *)

\* Every step of a source keeps the types.
LEMMA PayloadType ==
  ASSUME TypeOK, NEW s \in Source, Payload(s)
  PROVE  TypeOK'
  <1>1. CASE ReadEmpty(s)
    BY <1>1, DeliverType, FinishType DEF ReadEmpty, Skip, TypeOK
  <1>2. CASE Malformed(s)
    BY <1>2, DeliverType DEF Malformed, Skip, TypeOK
  <1>3. CASE ReadEnds(s)
    BY <1>3 DEF ReadEnds, TypeOK
  <1>4. CASE \E d \in Id : RequestFiltered(s, d)
    <2>1. PICK d \in Id : RequestFiltered(s, d)
      BY <1>4
    <2>2. asked' \in [Source -> [Id -> Seq(Exchange)]]
      BY <2>1, AskType DEF RequestFiltered
    <2>3. filtered' \in [Source -> [Id -> Age \cup {Absent}]]
      BY <2>1, Sizes DEF RequestFiltered, TypeOK
    <2> QED
      BY <2>1, <2>2, <2>3, DeliverType DEF RequestFiltered, Skip, TypeOK
  <1>5. ASSUME NEW d \in Id, NEW bad \in Undecodable, RequestPasses(s, d, bad)
        PROVE  TypeOK'
    <2>1. asked' \in [Source -> [Id -> Seq(Exchange)]]
      BY <1>5, AskType DEF RequestPasses
    <2>2. pc' \in [Source -> {"read", "write", "end"}] /\ pos' \in [Source -> Writer]
      BY <1>5, ForwardType DEF RequestPasses, Skip, TypeOK
    <2> QED
      BY <1>5, <2>1, <2>2, DeliverType DEF RequestPasses, TypeOK
  <1>6. ASSUME NEW d \in Id, NEW bad \in Undecodable, Response(s, d, bad)
        PROVE  TypeOK'
    <2>1. asked' \in [Source -> [Id -> Seq(Exchange)]]
      <3>1. asked[s][d] \in Seq(Exchange) /\ asked[s][d] # <<>>
        BY <1>6 DEF Response, TypeOK
      <3>2. Tail(asked[s][d]) \in Seq(Exchange)
        BY <3>1
      <3> QED
        BY <1>6, <3>2 DEF Response, TypeOK
    <2>2. pc' \in [Source -> {"read", "write", "end"}] /\ pos' \in [Source -> Writer]
      BY <1>6, ForwardType DEF Response, Skip, TypeOK
    <2>3. filtered' \in [Source -> [Id -> Age \cup {Absent}]]
      BY <1>6 DEF Response, TableAfter, TypeOK
    <2>4. verdict' \in [Source -> {"right", "wrong"}]
      <3>1. Verdict(Head(asked[s][d]), Modifier /\ filtered[s][d] # Absent)
              \in {"right", "wrong"}
        BY DEF Verdict
      <3> QED
        BY <1>6, <3>1 DEF Response, TypeOK
    <2>5. lastClean' = lastClean /\ i' = i /\ Deliver(s)
      BY <1>6 DEF Response
    <2> QED
      BY <2>1, <2>2, <2>3, <2>4, <2>5, DeliverType DEF TypeOK
  <1> QED
    BY <1>1, <1>2, <1>3, <1>4, <1>5, <1>6 DEF Payload

\* So does a write, which counts.
LEMMA WriteType ==
  ASSUME TypeOK, NEW s \in Source, Write(s)
  PROVE  TypeOK'
  <1>1. pos[s] \in Writer
    BY DEF TypeOK
  <1>2. count' \in [Source -> [Writer -> Nat]]
    BY <1>1 DEF Write, TypeOK
  <1>3. CASE LastWriter(pos[s])
    <2>1. /\ pc' \in [Source -> {"read", "write", "end"}]
          /\ pos' \in [Source -> Writer]
          /\ wIndex' \in [Source -> Writer]
      <3>1. NextIndex(pos[s]) \in Writer /\ 0 \in Writer
        BY <1>1, NextIndexIsWriter, Sizes
      <3>2. /\ pc' = [pc EXCEPT ![s] = "read"] /\ pos' = [pos EXCEPT ![s] = 0]
            /\ wIndex' = [wIndex EXCEPT ![s] = NextIndex(pos[s])] \/ wIndex' = wIndex
        BY <1>3 DEF Write
      <3>3. pc' \in [Source -> {"read", "write", "end"}] /\ pos' \in [Source -> Writer]
        BY <3>1, <3>2 DEF TypeOK
      <3>4. wIndex' \in [Source -> Writer]
        <4>1. wIndex \in [Source -> Writer]
          BY DEF TypeOK
        <4> QED
          BY <3>1, <3>2, <4>1
      <3> QED
        BY <3>3, <3>4
    <2> QED
      BY <1>2, <1>3, <2>1, FinishType DEF Write, TypeOK
  <1>4. CASE ~LastWriter(pos[s])
    <2>1. pos[s] + 1 \in Writer
      BY <1>1, <1>4, Sizes DEF LastWriter, Writer
    <2>2. pos' \in [Source -> Writer]
      BY <1>4, <2>1 DEF Write, TypeOK
    <2>3. UNCHANGED <<split, pc, wIndex, filtered, lastClean, i, asked, lost, reads, verdict>>
      BY <1>4 DEF Write
    <2> QED
      BY <1>2, <2>2, <2>3 DEF TypeOK
  <1> QED
    BY <1>3, <1>4

\* So do a missed response, and time.
LEMMA EnvironmentType ==
  ASSUME TypeOK, Tick \/ \E s \in Source, d \in Id : LoseResponse(s, d)
  PROVE  TypeOK'
  <1>1. CASE Tick
    <2>1. ASSUME NEW s \in Source, NEW d \in Id
          PROVE  [k \in 1 .. Len(asked[s][d]) |-> [asked[s][d][k] EXCEPT !.age = Older(@)]]
                   \in Seq(Exchange)
      <3>1. asked[s][d] \in Seq(Exchange)
        BY DEF TypeOK
      <3>2. Len(asked[s][d]) \in Nat
        BY <3>1
      <3>3. \A k \in 1 .. Len(asked[s][d]) :
               [asked[s][d][k] EXCEPT !.age = Older(@)] \in Exchange
        <4> SUFFICES ASSUME NEW k \in 1 .. Len(asked[s][d])
                     PROVE  [asked[s][d][k] EXCEPT !.age = Older(@)] \in Exchange
          OBVIOUS
        <4>1. asked[s][d][k] \in Exchange
          BY <3>1
        <4>2. Older(asked[s][d][k].age) \in Age
          BY <4>1, OlderAge DEF Exchange
        <4> QED
          BY <4>1, <4>2 DEF Exchange
      <3> QED
        BY <3>2, <3>3
    <2>2. asked' \in [Source -> [Id -> Seq(Exchange)]]
      BY <1>1, <2>1 DEF Tick
    <2>3. filtered' \in [Source -> [Id -> Age \cup {Absent}]] /\ lastClean' \in [Source -> Age]
      BY <1>1, OlderAge DEF Tick, TypeOK
    <2> QED
      BY <1>1, <2>2, <2>3 DEF Tick, TypeOK
  <1>2. ASSUME NEW s \in Source, NEW d \in Id, LoseResponse(s, d)
        PROVE  TypeOK'
    <2>1. asked[s][d] \in Seq(Exchange) /\ asked[s][d] # <<>>
      BY <1>2 DEF LoseResponse, TypeOK
    <2>2. Tail(asked[s][d]) \in Seq(Exchange)
      BY <2>1
    <2>3. asked' \in [Source -> [Id -> Seq(Exchange)]] /\ lost' \in [Source -> SUBSET Id]
      BY <1>2, <2>2 DEF LoseResponse, TypeOK
    <2> QED
      BY <1>2, <2>3 DEF LoseResponse, TypeOK
  <1> QED
    BY <1>1, <1>2

-----------------------------------------------------------------------------
(* The writers                                                               *)

\* Writers in step are served equally.
LEMMA InStepIsBalanced == TypeOK /\ WritersInStep => Balanced
  <1> SUFFICES ASSUME TypeOK, WritersInStep,
                      NEW s \in Source, NEW v \in Writer, NEW w \in Writer, v < w
               PROVE  count[s][v] - count[s][w] \in {0, 1}
    BY DEF Balanced
  <1>1. Ahead(s) \in Writer /\ count[s][NWriters - 1] \in Nat
    BY Sizes DEF TypeOK, Ahead
  <1> QED
    BY <1>1, Sizes DEF WritersInStep, Writer

\* A step of a source that writes nothing leaves its writers in step.
LEMMA NoWriteInStep ==
  ASSUME TypeOK, WritersInStep, UNCHANGED <<split, wIndex, count>>, NEW s \in Source,
         \A t \in Source \ {s} : pc'[t] = pc[t] /\ pos'[t] = pos[t],
         \/ pc'[s] \in {pc[s], "end"} /\ pos'[s] = pos[s]
         \/ /\ pc[s] = "read" /\ pc'[s] = "write"
            /\ pos'[s] = IF split THEN wIndex[s] ELSE 0
  PROVE  WritersInStep'
  <1>1. \A t \in Source : Ahead(t)' = Ahead(t)
    BY DEF Ahead, WritersInStep
  <1>2. ASSUME NEW t \in Source, NEW w \in Writer
        PROVE  count'[t][w] = count'[t][NWriters - 1] + (IF w < Ahead(t)' THEN 1 ELSE 0)
    BY <1>1 DEF WritersInStep
  <1>3. ASSUME NEW t \in Source
        PROVE  /\ pc'[t] = "read" => pos'[t] = 0
               /\ pc'[t] = "write" /\ split' => pos'[t] = wIndex'[t]
    BY DEF WritersInStep
  <1> QED
    BY <1>2, <1>3 DEF WritersInStep

\* No payload is written while it is delivered.
LEMMA PayloadInStep ==
  ASSUME TypeOK, WritersInStep, NEW s \in Source, Payload(s)
  PROVE  WritersInStep'
  <1>1. /\ UNCHANGED <<split, wIndex, count>> /\ pc[s] = "read"
        /\ \/ pc' = [pc EXCEPT ![s] = "end"] /\ pos' = pos
           \/ UNCHANGED <<pc, pos>>
           \/ Forward(s)
    BY DEF Payload, ReadEmpty, Malformed, ReadEnds, RequestFiltered, RequestPasses, Response,
           Deliver, Skip
  <1> QED
    BY <1>1, NoWriteInStep DEF Forward, TypeOK

\* A write moves the front by one writer.
LEMMA WriteInStep ==
  ASSUME TypeOK, WritersInStep, NEW s \in Source, Write(s)
  PROVE  WritersInStep'
  <1> DEFINE n == count[s][NWriters - 1]
  <1>1. /\ pos[s] \in Writer /\ n \in Nat /\ pos[s] = Ahead(s) /\ pc[s] = "write"
        /\ split' = split
    BY Sizes DEF TypeOK, Ahead, WritersInStep, Write
  <1>2. \A w \in Writer : count'[s][w] = IF w = pos[s] THEN count[s][w] + 1 ELSE count[s][w]
    BY <1>1 DEF Write, TypeOK
  <1>3. \A w \in Writer : count[s][w] = n + (IF w < pos[s] THEN 1 ELSE 0)
    BY <1>1 DEF WritersInStep
  <1>4. Ahead(s)' = IF pos[s] = NWriters - 1 THEN 0 ELSE pos[s] + 1
    <2>1. CASE split
      <3>1. wIndex'[s] = NextIndex(pos[s])
        BY <2>1 DEF Write, LastWriter, TypeOK
      <3> QED
        BY <1>1, <2>1, <3>1, NextIndexIsWriter DEF Ahead
    <2>2. CASE ~split
      <3>1. pos'[s] = IF pos[s] = NWriters - 1 THEN 0 ELSE pos[s] + 1
        BY <2>2 DEF Write, LastWriter, TypeOK
      <3> QED
        BY <1>1, <2>2, <3>1 DEF Ahead
    <2> QED
      BY <2>1, <2>2
  <1>5. \A w \in Writer :
           count'[s][w] = count'[s][NWriters - 1] + (IF w < Ahead(s)' THEN 1 ELSE 0)
    <2>1. \A w \in Writer : w \in Nat /\ w <= NWriters - 1
      BY Sizes DEF Writer
    <2>2. CASE pos[s] = NWriters - 1
      <3>1. \A w \in Writer : count'[s][w] = n + 1
        BY <1>1, <1>2, <1>3, <2>1, <2>2
      <3> QED
        BY <1>1, <1>4, <2>1, <2>2, <3>1, Sizes
    <2>3. CASE pos[s] # NWriters - 1
      <3>1. count'[s][NWriters - 1] = n
        BY <1>2, <2>3, Sizes
      <3>2. \A w \in Writer : count'[s][w] = n + (IF w < pos[s] + 1 THEN 1 ELSE 0)
        BY <1>1, <1>2, <1>3, <2>1
      <3> QED
        BY <1>4, <2>3, <3>1, <3>2
    <2> QED
      BY <2>2, <2>3
  <1>6. /\ pc'[s] = "read" => pos'[s] = 0
        /\ pc'[s] = "write" /\ split' => pos'[s] = wIndex'[s]
    BY <1>1 DEF Write, LastWriter, TypeOK
  <1>7. ASSUME NEW t \in Source \ {s}
        PROVE  /\ pc'[t] = pc[t] /\ pos'[t] = pos[t] /\ wIndex'[t] = wIndex[t]
               /\ count'[t] = count[t]
    BY DEF Write, TypeOK
  <1>8. ASSUME NEW t \in Source \ {s}
        PROVE  /\ \A w \in Writer :
                    count'[t][w] = count'[t][NWriters - 1] + (IF w < Ahead(t)' THEN 1 ELSE 0)
               /\ pc'[t] = "read" => pos'[t] = 0
               /\ pc'[t] = "write" /\ split' => pos'[t] = wIndex'[t]
    <2>1. Ahead(t)' = Ahead(t)
      BY <1>1, <1>7 DEF Ahead
    <2> QED
      BY <1>1, <1>7, <2>1 DEF WritersInStep
  <1> QED
    BY <1>5, <1>6, <1>8 DEF WritersInStep

-----------------------------------------------------------------------------
(* The table of filtered requests                                            *)

\* TableInStep, for connection d of source s.
Tracked(s, d) ==
    Len(asked[s][d]) <= 1 /\ (d \notin lost[s] => Remembered(s, d))

\* A connection whose request and entry stay is tracked on.
LEMMA StaysTracked ==
  ASSUME NEW s \in Source, NEW d \in Id, Tracked(s, d),
         asked'[s][d] = asked[s][d], lost'[s] = lost[s],
         \/ filtered'[s][d] = filtered[s][d]
         \/ filtered[s][d] = TTL + 1 /\ filtered'[s][d] = Absent
  PROVE  Tracked(s, d)'
  <1>1. Absent # TTL + 1
    BY Sizes
  <1> QED
    BY <1>1 DEF Tracked, Remembered

\* The clean-up takes only entries that are older than a minute.
LEMMA FinishTakesOld ==
  ASSUME TypeOK, NEW s \in Source, Finish(s), NEW t \in Source, NEW d \in Id
  PROVE  \/ filtered'[t][d] = filtered[t][d]
         \/ filtered[t][d] = TTL + 1 /\ filtered'[t][d] = Absent
  <1>1. CASE ~Collects(s)
    BY <1>1 DEF Finish
  <1>2. CASE Collects(s)
    <2>1. filtered' = [filtered EXCEPT ![s] =
              [e \in Id |-> IF filtered[s][e] = TTL + 1 THEN Absent ELSE filtered[s][e]]]
      BY <1>2 DEF Finish, TypeOK
    <2>2. CASE t = s
      BY <2>1, <2>2 DEF TypeOK
    <2>3. CASE t # s
      BY <2>1, <2>3 DEF TypeOK
    <2> QED
      BY <2>2, <2>3
  <1> QED
    BY <1>1, <1>2

\* A sequence of at most one element.
LEMMA ShortSeq ==
  ASSUME NEW S, NEW q \in Seq(S), Len(q) <= 1
  PROVE  \/ q = <<>>
         \/ Len(q) = 1 /\ q[1] \in S /\ Tail(q) = <<>>
  <1> SUFFICES ASSUME q # <<>> PROVE Len(q) = 1 /\ q[1] \in S /\ Tail(q) = <<>>
    OBVIOUS
  <1>1. Len(q) \in Nat \ {0}
    BY EmptySeq
  <1>2. Len(q) = 1
    BY <1>1
  <1>3. Tail(q) \in Seq(S) /\ Len(Tail(q)) = 0
    BY <1>2, HeadTailProperties
  <1>4. Tail(q) = <<>>
    BY <1>3, EmptySeq
  <1>5. q[1] \in S
    BY <1>2, LenProperties
  <1> QED
    BY <1>2, <1>4, <1>5

\* The first request of a connection, if it has one.
LEMMA OneAsked ==
  ASSUME TypeOK, NEW s \in Source, NEW d \in Id, Len(asked[s][d]) <= 1
  PROVE  \/ asked[s][d] = <<>>
         \/ Len(asked[s][d]) = 1 /\ asked[s][d][1] \in Exchange /\ Tail(asked[s][d]) = <<>>
  <1>1. asked[s][d] \in Seq(Exchange)
    BY DEF TypeOK
  <1> QED
    BY <1>1, ShortSeq, Zenon

\* A new request, with its entry if it was rejected, is tracked.
LEMMA AskTracked ==
  ASSUME TypeOK, MaxAsked = 1, NEW s \in Source, NEW d \in Id, NEW r \in BOOLEAN,
         Tracked(s, d), Ask(s, d, r), lost' = lost,
         IF r THEN Modifier /\ filtered'[s][d] = 0 ELSE filtered'[s][d] = filtered[s][d]
  PROVE  Tracked(s, d)'
  <1>1. asked[s][d] \in Seq(Exchange) /\ Len(asked[s][d]) < 1
    BY DEF TypeOK, Ask
  <1>2. asked[s][d] = <<>>
    BY <1>1
  <1>3. asked'[s][d] = <<[rejected |-> r, age |-> 0]>>
    BY <1>2 DEF Ask, TypeOK
  <1>4. Len(asked'[s][d]) = 1 /\ asked'[s][d] # <<>>
        /\ asked'[s][d][1].rejected = r /\ asked'[s][d][1].age = 0
    BY <1>3
  <1> QED
    BY <1>2, <1>4 DEF Tracked, Remembered

\* A response takes its request and its entry along, and shares its fate.
LEMMA ResponseTracked ==
  ASSUME TypeOK, NEW s \in Source, NEW d \in Id, NEW bad \in BOOLEAN,
         Tracked(s, d), Response(s, d, bad)
  PROVE  Tracked(s, d)' /\ (verdict[s] = "right" => verdict'[s] = "right")
  <1> DEFINE hit == Modifier /\ filtered[s][d] # Absent
  <1>1. /\ asked[s][d] # <<>> /\ Len(asked[s][d]) = 1 /\ asked[s][d][1] \in Exchange
        /\ asked'[s][d] = <<>>
    BY OneAsked DEF Tracked, Response, TypeOK
  <1>2. lost' = lost /\ Head(asked[s][d]) = asked[s][d][1]
    BY <1>1 DEF Response, Deliver, TypeOK
  <1>3. filtered'[s][d] = IF hit THEN Absent ELSE filtered[s][d]
    BY DEF Response, TableAfter, TypeOK
  <1>4. d \notin lost[s] => filtered'[s][d] = Absent
    BY <1>1, <1>3 DEF Tracked, Remembered
  <1>5. Tracked(s, d)'
    <2>1. Len(asked'[s][d]) = 0
      BY <1>1
    <2> QED
      BY <1>1, <1>2, <1>4, <2>1 DEF Tracked, Remembered
  <1>6. ASSUME d \notin lost[s]
        PROVE  Verdict(asked[s][d][1], hit) = "right"
    <2>1. CASE asked[s][d][1].rejected
      <3>1. \/ filtered[s][d] = asked[s][d][1].age
            \/ filtered[s][d] = Absent /\ asked[s][d][1].age = TTL + 1
        BY <1>1, <1>6, <2>1 DEF Tracked, Remembered
      <3>2. Modifier /\ asked[s][d][1].age # Absent
        BY <1>1, <1>6, <2>1, Sizes DEF Tracked, Remembered, Exchange
      <3> QED
        BY <2>1, <3>1, <3>2 DEF Verdict
    <2>2. CASE ~asked[s][d][1].rejected
      <3>1. filtered[s][d] = Absent /\ asked[s][d][1].rejected = FALSE
        BY <1>1, <1>6, <2>2 DEF Tracked, Remembered, Exchange
      <3> QED
        BY <3>1 DEF Verdict
    <2> QED
      BY <2>1, <2>2
  <1>7. verdict'[s] = IF d \in lost[s] THEN verdict[s] ELSE Verdict(Head(asked[s][d]), hit)
    BY DEF Response, TypeOK
  <1> QED
    BY <1>2, <1>5, <1>6, <1>7

\* An entry and its request grow older together.
LEMMA TickTracked ==
  ASSUME TypeOK, Tick, NEW s \in Source, NEW d \in Id, Tracked(s, d)
  PROVE  Tracked(s, d)'
  <1>1. /\ lost' = lost /\ filtered'[s][d] = Older(filtered[s][d])
        /\ asked'[s][d] = [k \in 1 .. Len(asked[s][d]) |->
                               [asked[s][d][k] EXCEPT !.age = Older(@)]]
    BY DEF Tick
  <1>2. CASE asked[s][d] = <<>>
    <2>1. asked'[s][d] = <<>>
      BY <1>1, <1>2
    <2> QED
      BY <1>1, <1>2, <2>1, OlderAge DEF Tracked, Remembered
  <1>3. CASE /\ Len(asked[s][d]) = 1 /\ asked[s][d] # <<>>
             /\ asked[s][d][1] \in Exchange
    <2>1. /\ asked'[s][d] # <<>> /\ Len(asked'[s][d]) = 1
          /\ asked'[s][d][1] = [asked[s][d][1] EXCEPT !.age = Older(@)]
      BY <1>1, <1>3
    <2>2. /\ asked'[s][d][1].rejected = asked[s][d][1].rejected
          /\ asked'[s][d][1].age = Older(asked[s][d][1].age)
      BY <1>3, <2>1 DEF Exchange
    <2> QED
      BY <1>1, <1>3, <2>1, <2>2, OlderAge DEF Tracked, Remembered
  <1> QED
    BY <1>2, <1>3, OneAsked DEF Tracked

\* Delivering a payload keeps the table in step, and no verdict is wrong.
LEMMA PayloadTracked ==
  ASSUME TypeOK, TableInStep, MaxAsked = 1, NEW s \in Source, Payload(s)
  PROVE  TableInStep' /\ (verdict[s] = "right" => verdict'[s] = "right")
  <1>0. \A t \in Source, e \in Id : Tracked(t, e)
    BY DEF TableInStep, Tracked
  <1> SUFFICES (\A t \in Source, e \in Id : Tracked(t, e)')
               /\ (verdict[s] = "right" => verdict'[s] = "right")
    BY DEF TableInStep, Tracked
  <1>1. CASE ReadEmpty(s)
    <2>1. UNCHANGED <<asked, lost, verdict>> /\ Finish(s)
      BY <1>1 DEF ReadEmpty, Deliver
    <2> QED
      BY <1>0, <2>1, FinishTakesOld, StaysTracked
  <1>2. CASE Malformed(s) \/ ReadEnds(s)
    <2>1. UNCHANGED <<asked, lost, filtered, verdict>>
      BY <1>2 DEF Malformed, ReadEnds, Deliver
    <2> QED
      BY <1>0, <2>1, StaysTracked
  <1>3. ASSUME NEW d \in Id, RequestFiltered(s, d)
        PROVE  (\A t \in Source, e \in Id : Tracked(t, e)') /\ verdict' = verdict
    <2>1. lost' = lost /\ verdict' = verdict /\ Ask(s, d, TRUE) /\ Modifier
      BY <1>3 DEF RequestFiltered, Deliver
    <2>2. filtered'[s][d] = 0
      BY <1>3 DEF RequestFiltered, TypeOK
    <2>3. \A t \in Source, e \in Id : t # s \/ e # d =>
              filtered'[t][e] = filtered[t][e] /\ asked'[t][e] = asked[t][e]
      BY <1>3 DEF RequestFiltered, Ask, TypeOK
    <2>4. Tracked(s, d)'
      BY <1>0, <2>1, <2>2, AskTracked
    <2> QED
      BY <1>0, <2>1, <2>3, <2>4, StaysTracked
  <1>4. ASSUME NEW d \in Id, NEW bad \in Undecodable, RequestPasses(s, d, bad)
        PROVE  (\A t \in Source, e \in Id : Tracked(t, e)') /\ verdict' = verdict
    <2>1. UNCHANGED <<lost, verdict, filtered>> /\ Ask(s, d, FALSE)
      BY <1>4 DEF RequestPasses, Deliver
    <2>2. \A t \in Source, e \in Id : t # s \/ e # d => asked'[t][e] = asked[t][e]
      BY <2>1 DEF Ask, TypeOK
    <2>3. Tracked(s, d)'
      BY <1>0, <2>1, AskTracked
    <2> QED
      BY <1>0, <2>1, <2>2, <2>3, StaysTracked
  <1>5. ASSUME NEW d \in Id, NEW bad \in Undecodable, Response(s, d, bad)
        PROVE  /\ \A t \in Source, e \in Id : Tracked(t, e)'
               /\ verdict[s] = "right" => verdict'[s] = "right"
    <2>1. lost' = lost
      BY <1>5 DEF Response, Deliver
    <2>2. \A t \in Source, e \in Id : t # s \/ e # d =>
              filtered'[t][e] = filtered[t][e] /\ asked'[t][e] = asked[t][e]
      BY <1>5 DEF Response, TableAfter, TypeOK
    <2>3. bad \in BOOLEAN
      BY DEF Undecodable
    <2>4. Tracked(s, d)' /\ (verdict[s] = "right" => verdict'[s] = "right")
      BY <1>0, <1>5, <2>3, ResponseTracked
    <2> QED
      BY <1>0, <2>1, <2>2, <2>4, StaysTracked
  <1> QED
    BY <1>1, <1>2, <1>3, <1>4, <1>5 DEF Payload

\* So do writes, missed responses and time.
LEMMA OthersTracked ==
  ASSUME TypeOK, TableInStep, MaxAsked = 1,
         \/ Tick
         \/ \E s \in Source : Write(s) \/ WriteFails(s) \/ \E d \in Id : LoseResponse(s, d)
  PROVE  TableInStep' /\ verdict' = verdict
  <1>0. \A t \in Source, e \in Id : Tracked(t, e)
    BY DEF TableInStep, Tracked
  <1> SUFFICES (\A t \in Source, e \in Id : Tracked(t, e)') /\ verdict' = verdict
    BY DEF TableInStep, Tracked
  <1>1. CASE Tick
    BY <1>0, <1>1, TickTracked DEF Tick
  <1>2. ASSUME NEW s \in Source, Write(s) \/ WriteFails(s)
        PROVE  (\A t \in Source, e \in Id : Tracked(t, e)') /\ verdict' = verdict
    <2>1. UNCHANGED <<asked, lost, verdict>> /\ (filtered' = filtered \/ Finish(s))
      BY <1>2 DEF Write, WriteFails
    <2> QED
      BY <1>0, <2>1, FinishTakesOld, StaysTracked
  <1>3. ASSUME NEW s \in Source, NEW d \in Id, LoseResponse(s, d)
        PROVE  (\A t \in Source, e \in Id : Tracked(t, e)') /\ verdict' = verdict
    <2>1. /\ UNCHANGED <<filtered, verdict>> /\ asked[s][d] # <<>>
          /\ asked'[s][d] = Tail(asked[s][d]) /\ d \in lost'[s]
          /\ \A t \in Source, e \in Id : t # s \/ e # d =>
                /\ asked'[t][e] = asked[t][e]
                /\ e \in lost[t] <=> e \in lost'[t]
      BY <1>3, SMTT(30) DEF LoseResponse, TypeOK
    <2>2. Len(asked'[s][d]) <= 1
      <3>1. asked'[s][d] = <<>>
        BY <1>0, <2>1, OneAsked DEF Tracked
      <3> QED
        BY <3>1
    <2>3. Tracked(s, d)'
      BY <2>1, <2>2 DEF Tracked
    <2>4. ASSUME NEW t \in Source, NEW e \in Id, t # s \/ e # d
          PROVE  Tracked(t, e)'
      BY <1>0, <2>1, <2>4 DEF Tracked, Remembered
    <2> QED
      BY <2>1, <2>3, <2>4
  <1> QED
    BY <1>1, <1>2, <1>3

-----------------------------------------------------------------------------
(* The theorems                                                              *)

\* Initially nothing is written, asked or remembered.
LEMMA InitInv == Init => CopyInv /\ ResponseSharesFate
  <1> SUFFICES ASSUME Init PROVE CopyInv /\ ResponseSharesFate
    OBVIOUS
  <1>1. TypeOK
    BY Sizes, EmptySeq DEF Init, TypeOK
  <1>2. WritersInStep
    <2>1. \A s \in Source : Ahead(s) = 0
      BY DEF Init, Ahead
    <2>2. \A s \in Source, w \in Writer : count[s][w] = 0 /\ ~(w < Ahead(s))
      BY <2>1, Sizes DEF Init, Writer
    <2>3. \A s \in Source : pos[s] = 0 /\ wIndex[s] = 0
      BY DEF Init
    <2>4. \A s \in Source, w \in Writer :
              count[s][w] = count[s][NWriters - 1] + (IF w < Ahead(s) THEN 1 ELSE 0)
      BY <2>2, Sizes
    <2> QED
      BY <2>3, <2>4 DEF WritersInStep
  <1>3. TableInStep
    BY EmptySeq DEF Init, TableInStep, Remembered
  <1> QED
    BY <1>1, <1>2, <1>3, InStepIsBalanced DEF CopyInv, ResponseSharesFate, Init

\* Every step keeps the invariant.
LEMMA NextInv == CopyInv /\ [Next]_vars => CopyInv'
  <1> SUFFICES ASSUME CopyInv, [Next]_vars PROVE CopyInv'
    OBVIOUS
  <1> USE DEF CopyInv
  <1>1. CASE Tick
    <2>1. TypeOK'
      BY <1>1, EnvironmentType
    <2>2. WritersInStep'
      BY <1>1 DEF Tick, WritersInStep, Ahead
    <2>3. TableInStep'
      BY <1>1, OthersTracked DEF TableInStep
    <2> QED
      BY <2>1, <2>2, <2>3, InStepIsBalanced, PTL
  <1>2. ASSUME NEW s \in Source, Payload(s)
        PROVE  CopyInv'
    <2>1. TypeOK' /\ WritersInStep'
      BY <1>2, PayloadType, PayloadInStep
    <2>2. TableInStep'
      BY <1>2, PayloadTracked DEF TableInStep
    <2> QED
      BY <2>1, <2>2, InStepIsBalanced, PTL
  <1>3. ASSUME NEW s \in Source, Write(s)
        PROVE  CopyInv'
    <2>1. TypeOK' /\ WritersInStep'
      BY <1>3, WriteType, WriteInStep
    <2>2. TableInStep'
      BY <1>3, OthersTracked DEF TableInStep
    <2> QED
      BY <2>1, <2>2, InStepIsBalanced, PTL
  <1>4. ASSUME NEW s \in Source, WriteFails(s)
        PROVE  CopyInv'
    <2>1. TypeOK'
      BY <1>4 DEF WriteFails, TypeOK
    <2>2. WritersInStep'
      BY <1>4, NoWriteInStep DEF WriteFails, TypeOK
    <2>3. TableInStep'
      BY <1>4, OthersTracked DEF TableInStep
    <2> QED
      BY <2>1, <2>2, <2>3, InStepIsBalanced, PTL
  <1>5. ASSUME NEW s \in Source, NEW d \in Id, LoseResponse(s, d)
        PROVE  CopyInv'
    <2>1. TypeOK'
      BY <1>5, EnvironmentType
    <2>2. WritersInStep'
      BY <1>5 DEF LoseResponse, WritersInStep, Ahead
    <2>3. TableInStep'
      BY <1>5, OthersTracked DEF TableInStep
    <2> QED
      BY <2>1, <2>2, <2>3, InStepIsBalanced, PTL
  <1>6. CASE UNCHANGED vars
    <2>1. TypeOK' /\ Balanced'
      BY <1>6 DEF vars, TypeOK, Balanced
    <2>2. WritersInStep' /\ TableInStep'
      BY <1>6 DEF vars, WritersInStep, Ahead, TableInStep, Remembered
    <2> QED
      BY <2>1, <2>2
  <1> QED
    BY <1>1, <1>2, <1>3, <1>4, <1>5, <1>6 DEF Next

(***************************************************************************)
(* CopyMulty serves its writers equally, with --split-output and without,  *)
(* also when one of them fails.                                            *)
(***************************************************************************)
THEOREM WritersServedEqually == Spec => []CopyInv
  <1>1. Init => CopyInv
    BY InitInv
  <1> QED
    BY <1>1, NextInv, PTL DEF Spec

(***************************************************************************)
(* On a connection without pipelining, where the single entry of an id can *)
(* stand for one request, a response is filtered if and only if its        *)
(* request was, unless it comes after the entry may have expired or after  *)
(* a response that the capture has missed.                                 *)
(***************************************************************************)
THEOREM ResponseFollowsRequest == MaxAsked = 1 => (Spec => []ResponseSharesFate)
  <1> SUFFICES ASSUME MaxAsked = 1 PROVE Spec => []ResponseSharesFate
    OBVIOUS
  <1>1. Init => ResponseSharesFate
    BY InitInv
  <1>2. CopyInv /\ ResponseSharesFate /\ [Next]_vars => ResponseSharesFate'
    <2> SUFFICES ASSUME CopyInv, ResponseSharesFate, [Next]_vars PROVE ResponseSharesFate'
      OBVIOUS
    <2> USE DEF CopyInv
    <2>1. ASSUME NEW s \in Source, Payload(s)
          PROVE  ResponseSharesFate'
      <3>1. verdict'[s] = "right"
        BY <2>1, PayloadTracked DEF ResponseSharesFate
      <3>2. \A t \in Source \ {s} : verdict'[t] = verdict[t]
        BY <2>1, ZenonT(40) DEF Payload, ReadEmpty, Malformed, ReadEnds, RequestFiltered, RequestPasses,
                    Response, Deliver, TypeOK
      <3> QED
        BY <3>1, <3>2 DEF ResponseSharesFate
    <2>2. CASE \/ Tick
               \/ \E s \in Source :
                     Write(s) \/ WriteFails(s) \/ \E d \in Id : LoseResponse(s, d)
      BY <2>2, OthersTracked DEF ResponseSharesFate
    <2>3. CASE UNCHANGED vars
      BY <2>3 DEF vars, ResponseSharesFate
    <2> QED
      BY <2>1, <2>2, <2>3 DEF Next
  <1> QED
    BY <1>1, <1>2, WritersServedEqually, PTL DEF Spec
=============================================================================
