-------------------------- MODULE FileReplayProofs -------------------------
(***************************************************************************)
(* Recordings and replays for all limits, numbers of writers, runs,        *)
(* payloads and files: a recording keeps what it was given, in chunks that *)
(* are not too long, and a replay emits what is on disk, each payload      *)
(* once, merged by time, and its Close releases the files.                 *)
(***************************************************************************)
EXTENDS FileReplay, FiniteSetTheorems, SequenceTheorems, WellFoundedInduction, TLAPS

\* A set of numbers has a least one.
LEMMA LeastNumber == \A T \in SUBSET Nat : T # {} => \E x \in T : \A y \in T : x <= y
  <1> DEFINE R == {ij \in Nat \X Nat : ij[1] < ij[2]}
  <1>1. IsWellFoundedOn(R, Nat)
    BY NatLessThanWellFounded DEF OpToRel
  <1> SUFFICES ASSUME NEW T \in SUBSET Nat, T # {} PROVE \E x \in T : \A y \in T : x <= y
    OBVIOUS
  <1>2. \E x \in T : \A y \in T : ~(<<y, x>> \in R)
    BY <1>1, WFMin, Zenon
  <1>3. \A x, y \in Nat : y < x => <<y, x>> \in R
    OBVIOUS
  <1> HIDE DEF R
  <1>4. \A x, y \in T : ~(<<y, x>> \in R) => x <= y
    <2> SUFFICES ASSUME NEW x \in T, NEW y \in T, ~(<<y, x>> \in R) PROVE x <= y
      OBVIOUS
    <2>1. x \in Nat /\ y \in Nat
      OBVIOUS
    <2>2. ~(y < x)
      BY <1>3, <2>1
    <2> QED
      BY ONLY <2>1, <2>2
  <1> QED
    BY <1>2, <1>4, Zenon

\* Hence Max is the greatest element of a set that has a bound.
LEMMA MaxOfBounded ==
  ASSUME NEW S \in SUBSET Int, S # {}, NEW n \in Int, \A x \in S : x <= n
  PROVE  Max(S) \in S /\ \A x \in S : Max(S) >= x
  <1> DEFINE T == {n - x : x \in S}
  <1>1. T \in SUBSET Nat /\ T # {}
    <2>1. \A x \in S : n - x \in Nat
      OBVIOUS
    <2> HIDE DEF T
    <2>2. T \subseteq Nat
      BY <2>1 DEF T
    <2>3. T # {}
      BY DEF T
    <2> QED
      BY <2>2, <2>3
  <1>2. PICK t \in T : \A u \in T : t <= u
    BY <1>1, LeastNumber, Zenon
  <1>3. PICK m \in S : t = n - m
    OBVIOUS
  <1>4. \A x \in S : m >= x
    <2> SUFFICES ASSUME NEW x \in S PROVE m >= x
      OBVIOUS
    <2>1. n - m <= n - x
      BY <1>2, <1>3
    <2>2. \A a, b, c \in Int : a - b <= a - c => b >= c
      OBVIOUS
    <2>3. m \in Int /\ x \in Int
      OBVIOUS
    <2> QED
      BY <2>1, <2>2, <2>3, Zenon
  <1> QED
    BY <1>4, Zenon DEF Max

-----------------------------------------------------------------------------
(* Types and names                                                           *)

\* A file is on disk because a payload was written, or because a run was killed when it
\* had opened it.  Every name in use or on disk has an index below that number.
Bound == IF Running THEN ids + run ELSE ids + run + 1

Indexed ==
    /\ \A f \in DOMAIN disk : f[2] < Bound
    /\ \A n \in {currentName, fname} : n # NoName => n[2] <= Bound
    /\ \A w \in Writers : wname[w] # NoName => wname[w][2] <= Bound

\* What the control points say about names, counters and files.
Started ==
    /\ Running => run \in 1 .. MaxRuns /\ currentName \in Name
    /\ \A w \in Writers : wpc[w] = "set" => wname[w] \in Name
    /\ fpc = "set" => fname \in Name
    /\ file # NoName => file \in DOMAIN disk

OutputOK == OutputTypeOK /\ Indexed /\ Started

\* The bounds and the limits are numbers.
LEMMA Limits ==
  /\ MaxRecords \in Nat /\ MaxStem \in Nat /\ MaxRuns \in Nat /\ BufCap \in Nat \ {0}
  /\ Stamp \subseteq Nat \ {0} /\ Torn \notin Record
  BY LimitAssumption, TornAssumption DEF LimitAssumption, TornAssumption

\* The bound is one, and grows when a process ends.
LEMMA BoundType ==
  ASSUME OutputOK
  PROVE  /\ Bound \in Nat /\ ids \in Nat /\ run \in Nat
         /\ Running => Bound = ids + run
         /\ ~Running => Bound = ids + run + 1
  BY Limits DEF OutputOK, OutputTypeOK, Bound

\* Nothing is on disk, in the buffer or in the log.
LEMMA Empty == <<>> \in Seq(Record) /\ DOMAIN <<>> = {}
  OBVIOUS

\* The name of no file is not one of a file.
LEMMA NoNameIsNone == NoName \notin Name
  BY DEF NoName, Name

\* filename returns a name whose index is at most one above those on disk.
LEMMA FilenameType ==
  ASSUME OutputOK, NEW c, NEW q
  PROVE  filename(c, q) \in Name /\ filename(c, q)[2] <= Bound
  <1>1. stem \in 0 .. MaxStem /\ Bound \in Nat
    BY Limits, BoundType DEF OutputOK, OutputTypeOK
  <1>2. Indexes \in SUBSET Int /\ \A x \in Indexes : x < Bound
    BY DEF OutputOK, OutputTypeOK, Indexed, Indexes, Name
  <1>3. CASE append
    <2>1. filename(c, q) = <<stem, Plain>>
      BY <1>3 DEF filename
    <2> QED
      BY <1>1, <2>1 DEF Name, Plain
  <1>4. CASE ~append /\ Indexes \subseteq {Plain}
    <2>1. filename(c, q) = <<stem, 0>>
      BY <1>4 DEF filename
    <2> QED
      BY <1>1, <2>1 DEF Name
  <1>5. CASE ~append /\ ~(Indexes \subseteq {Plain})
    <2>1. Max(Indexes) \in Indexes
      <3>1. Indexes # {} /\ \A x \in Indexes : x <= Bound
        BY <1>1, <1>2, <1>5
      <3> QED
        BY <1>1, <1>2, <3>1, MaxOfBounded
    <2>2. PICK m : m = Max(Indexes)
      OBVIOUS
    <2>3. PICK k \in {0, 1} : filename(c, q) = <<stem, m + k>>
      BY <1>5, <2>2 DEF filename
    <2>4. m \in Int /\ m < Bound
      BY <1>2, <2>1, <2>2, Zenon
    <2>5. m + k \in Int /\ m + k <= Bound
      BY <1>1, <2>4
    <2> QED
      BY <1>1, <2>3, <2>5 DEF Name
  <1> QED
    BY <1>3, <1>4, <1>5
\* Flushing changes the contents of the open file only.
LEMMA FlushedType ==
  ASSUME OutputOK
  PROVE  /\ DOMAIN Flushed(disk) = DOMAIN disk
         /\ \A f \in DOMAIN disk : Flushed(disk)[f] \in Seq(Record \cup {Torn})
  <1>1. buffer \in Seq(Record \cup {Torn})
    BY DEF OutputOK, OutputTypeOK
  <1>2. \A f \in DOMAIN disk : disk[f] \in Seq(Record \cup {Torn})
    BY DEF OutputOK, OutputTypeOK
  <1> QED
    BY <1>1, <1>2 DEF Flushed

\* No process runs, and nothing is on disk.
LEMMA OutputInitOK == OutputInit => OutputOK
  <1> SUFFICES ASSUME OutputInit PROVE OutputOK
    OBVIOUS
  <1>1. OutputTypeOK
    <2>1. \A f \in DOMAIN disk : f \in Name /\ disk[f] \in Seq(Record \cup {Torn})
      BY Empty, Zenon DEF OutputInit
    <2>2. log \in Seq(Record) /\ buffer \in Seq(Record)
      BY Empty, Zenon DEF OutputInit
    <2>3. {currentName, file, fname} \subseteq Name \cup {NoName}
      BY Zenon DEF OutputInit
    <2>4. stem \in 0 .. MaxStem /\ run \in 0 .. MaxRuns /\ ids \in 0 .. MaxRecords
      BY Limits DEF OutputInit
    <2> QED
      BY <2>1, <2>2, <2>3, <2>4 DEF OutputInit, OutputTypeOK
  <1>2. Indexed /\ Started
    BY Empty DEF OutputInit, Indexed, Started, Running
  <1> QED
    BY <1>1, <1>2 DEF OutputOK

\* A new run starts with a name and no file.
LEMMA NewRunOK == OutputOK /\ NewFileOutput => OutputOK'
  <1> SUFFICES ASSUME OutputOK, NewFileOutput PROVE OutputOK'
    OBVIOUS
  <1>1. currentName' \in Name /\ currentName'[2] <= Bound
    <2>1. Bound \in Nat /\ stem \in 0 .. MaxStem
      BY BoundType DEF OutputOK, OutputTypeOK
    <2> QED
      BY <2>1, FilenameType DEF NewFileOutput, Name, Plain
  <1>2. run' \in 1 .. MaxRuns
    BY Limits DEF OutputOK, OutputTypeOK, NewFileOutput
  <1>a. Bound' = Bound
    BY BoundType DEF NewFileOutput, Bound, Running
  <1>3. OutputTypeOK'
    <2>1. log' \in Seq(Record) /\ buffer' \in Seq(Record)
      BY Empty, Zenon DEF NewFileOutput
    <2>2. {currentName, file, fname}' \subseteq Name \cup {NoName}
      BY <1>1 DEF NewFileOutput
    <2>3. run' \in 0 .. MaxRuns
      BY <1>2
    <2> QED
      BY <2>1, <2>2, <2>3 DEF OutputOK, OutputTypeOK, NewFileOutput
  <1>4. Indexed'
    BY <1>1, <1>a DEF OutputOK, Indexed, NewFileOutput
  <1>5. Started'
    BY <1>1, <1>2 DEF NewFileOutput, Started, Running
  <1> QED
    BY <1>3, <1>4, <1>5 DEF OutputOK

\* The two halves of updateName, called by Write or by the flush goroutine, and
\* the steps that only look.
NamesStep ==
    \/ \E w \in Writers : WriteName(w) \/ WriteSetName(w)
    \/ FlushCheck \/ FlushName \/ FlushSetName \/ Tick

\* They leave names that have an index.
LEMMA NamesOK ==
  ASSUME OutputOK, NamesStep
  PROVE  OutputOK'
  <1>0. \A c, q : filename(c, q) \in Name /\ filename(c, q)[2] <= Bound
    BY FilenameType
  <1>a. Bound' = Bound
    BY DEF NamesStep, WriteName, WriteSetName, FlushCheck, FlushName, FlushSetName, Tick, Bound,
           Running, fileVars
  <1>1. ASSUME NEW w \in Writers, WriteName(w) PROVE OutputOK'
    <2>1. /\ wname' = [wname EXCEPT ![w] = filename(currentName, QueueLength)]
          /\ wpc' = [wpc EXCEPT ![w] = "set"]
          /\ UNCHANGED <<config, stem, phase, run, currentName, fname, fileVars, fpc, history>>
      BY <1>1 DEF WriteName
    <2>2. OutputTypeOK'
      BY <1>0, <2>1 DEF OutputOK, OutputTypeOK, config, fileVars, history
    <2>3. Indexed'
      BY <1>0, <1>a, <2>1 DEF OutputOK, OutputTypeOK, Indexed, fileVars
    <2>4. Started'
      BY <1>0, <2>1 DEF OutputOK, OutputTypeOK, Started, Running, fileVars
    <2> QED
      BY <2>2, <2>3, <2>4 DEF OutputOK
  <1>2. ASSUME NEW w \in Writers, WriteSetName(w) PROVE OutputOK'
    <2>1. /\ wpc[w] = "set" /\ currentName' = wname[w] /\ wname' = [wname EXCEPT ![w] = NoName]
          /\ wpc' = [wpc EXCEPT ![w] = "locked"]
          /\ UNCHANGED <<config, stem, phase, run, fname, fileVars, fpc, history>>
      BY <1>2 DEF WriteSetName
    <2>2. OutputTypeOK'
      BY <2>1 DEF OutputOK, OutputTypeOK, config, fileVars, history
    <2>3. Indexed'
      BY <1>a, <2>1 DEF OutputOK, OutputTypeOK, Indexed, fileVars
    <2>4. Started'
      BY <2>1 DEF OutputOK, OutputTypeOK, Started, Running, fileVars
    <2> QED
      BY <2>2, <2>3, <2>4 DEF OutputOK
  <1>3. CASE FlushCheck
    BY <1>a, <1>3
    DEF FlushCheck, OutputOK, OutputTypeOK, Indexed, Started, Running, config, fileVars, nameVars,
        history
  <1>4. CASE FlushName
    BY <1>0, <1>a, <1>4
    DEF FlushName, OutputOK, OutputTypeOK, Indexed, Started, Running, config, fileVars, history
  <1>5. CASE FlushSetName
    BY <1>a, <1>5
    DEF FlushSetName, OutputOK, OutputTypeOK, Indexed, Started, Running, config, fileVars
  <1>6. CASE Tick
    BY <1>a, <1>6, Limits
    DEF Tick, OutputOK, OutputTypeOK, Indexed, Started, Running, config, fileVars, nameVars, control,
        history
  <1> QED
    BY <1>1, <1>2, <1>3, <1>4, <1>5, <1>6 DEF NamesStep

\* The locked part of Write: the new file, if there is one, is on disk.
LEMMA WriteLockedOK ==
  ASSUME OutputOK, NEW w \in Writers, NEW ts \in Stamp, WriteLocked(w, ts)
  PROVE  OutputOK'
  <1> DEFINE rec == [id |-> ids + 1, run |-> run, ts |-> ts]
  <1>0. /\ Running /\ wpc[w] = "locked" /\ ids \in Nat /\ ids + 1 \in 1 .. MaxRecords
        /\ run \in 1 .. MaxRuns /\ currentName \in Name /\ currentName[2] <= Bound
        /\ currentName # NoName
    <2>1. Running /\ wpc[w] = "locked" /\ ids \in Nat
      BY Limits DEF WriteLocked, Reopens, OutputOK, OutputTypeOK
    <2>2. currentName \in Name /\ run \in 1 .. MaxRuns /\ ids < MaxRecords
      BY <2>1 DEF OutputOK, Started, WriteLocked
    <2>3. currentName # NoName
      BY <2>2, NoNameIsNone
    <2>4. currentName[2] <= Bound
      BY <2>3 DEF OutputOK, Indexed
    <2> QED
      BY <2>1, <2>2, <2>3, <2>4, Limits
  <1>1. rec \in Record
    BY <1>0 DEF Record
  <1>2. buffer' \in Seq(Record)
    BY <1>1 DEF WriteLocked, Reopens, Buffered, OutputOK, OutputTypeOK
  <1>3. /\ DOMAIN disk' = DOMAIN disk \/ DOMAIN disk' = DOMAIN disk \cup {currentName}
        /\ currentName \in DOMAIN disk'
        /\ \A f \in DOMAIN disk' : disk'[f] \in Seq(Record \cup {Torn})
    <2>1. CASE file = NoName \/ currentName # file
      <3>1. disk' = With(Flushed(disk), currentName, <<>>)
        BY <2>1 DEF WriteLocked, Reopens
      <3> QED
        BY <3>1, FlushedType DEF With
    <2>2. CASE ~(file = NoName \/ currentName # file)
      <3>1. disk' = Flushed(disk) \/ disk' = disk
        BY <2>2 DEF WriteLocked, Reopens
      <3>2. currentName \in DOMAIN disk
        BY <2>2 DEF OutputOK, Started
      <3> QED
        BY <3>1, <3>2, FlushedType DEF OutputOK, OutputTypeOK
    <2> QED
      BY <2>1, <2>2
  <1>4. OutputTypeOK'
    <2>1. \A f \in DOMAIN disk' : f \in Name /\ disk'[f] \in Seq(Record \cup {Torn})
      BY <1>0, <1>3 DEF OutputOK, OutputTypeOK
    <2>2. ids' \in 0 .. MaxRecords
      BY <1>0 DEF WriteLocked, Reopens
    <2>3. log' \in Seq(Record)
      BY <1>1 DEF WriteLocked, Reopens, OutputOK, OutputTypeOK
    <2>4. {currentName, file, fname}' \subseteq Name \cup {NoName}
      BY <1>0 DEF WriteLocked, Reopens, OutputOK, OutputTypeOK, nameVars
    <2>5. QueueLength' \in Nat /\ chunkSize' \in Nat /\ total' \in Nat
      BY DEF WriteLocked, Reopens, OutputOK, OutputTypeOK
    <2>6. /\ isOpen' \in BOOLEAN /\ closed' \in BOOLEAN
          /\ wpc' \in [Writers -> {"idle", "set", "locked", "error"}]
          /\ wname' \in [Writers -> Name \cup {NoName}]
          /\ reverted' \in BOOLEAN /\ crowded' \in BOOLEAN
      BY DEF WriteLocked, Reopens, OutputOK, OutputTypeOK, nameVars
    <2>7. UNCHANGED <<config, stem, phase, run, fpc>>
      BY DEF WriteLocked, Reopens
    <2> QED
      BY <1>2, <2>1, <2>2, <2>3, <2>4, <2>5, <2>6, <2>7 DEF OutputOK, OutputTypeOK, config
  <1>5. Indexed'
    <2>1. ids' = ids + 1 /\ UNCHANGED <<nameVars, phase, run>>
      BY DEF WriteLocked
    <2>2. Bound' = Bound + 1 /\ Bound \in Nat
      BY <1>0, <2>1, BoundType DEF Bound, Running
    <2>3. \A f \in DOMAIN disk' : f[2] < Bound + 1
      <3>1. \A f \in DOMAIN disk : f[2] \in Int /\ f[2] < Bound
        BY DEF OutputOK, OutputTypeOK, Indexed, Name
      <3>2. currentName[2] \in Int
        BY <1>0 DEF Name
      <3> QED
        BY <1>0, <1>3, <2>2, <3>1, <3>2
    <2>4. \A n \in {currentName, fname} : n # NoName => n[2] <= Bound + 1
      <3>1. \A n \in {currentName, fname} : n # NoName => n[2] \in Int /\ n[2] <= Bound
        BY DEF OutputOK, OutputTypeOK, Indexed, Name
      <3> QED
        BY <2>2, <3>1
    <2>5. \A v \in Writers : wname[v] # NoName => wname[v][2] <= Bound + 1
      <3>1. \A v \in Writers : wname[v] # NoName => wname[v][2] \in Int /\ wname[v][2] <= Bound
        BY DEF OutputOK, OutputTypeOK, Indexed, Name
      <3> QED
        BY <2>2, <3>1
    <2> QED
      BY <2>1, <2>2, <2>3, <2>4, <2>5 DEF Indexed, nameVars
  <1>6. Started'
    <2>1. /\ UNCHANGED <<phase, run, nameVars, fpc>> /\ file' = currentName
          /\ \A v \in Writers : wpc'[v] = "set" => wpc[v] = "set"
      BY DEF WriteLocked, OutputOK, OutputTypeOK
    <2> QED
      BY <1>0, <1>3, <2>1 DEF OutputOK, Started, Running, nameVars
  <1> QED
    BY <1>4, <1>5, <1>6 DEF OutputOK

\* A process that ends has no names and no file.
LEMMA EndsOK ==
  ASSUME OutputOK, Running, Ends, \A f \in DOMAIN disk' : f \in DOMAIN disk \/ f = currentName,
         \A f \in DOMAIN disk' : disk'[f] \in Seq(Record \cup {Torn})
  PROVE  OutputOK'
  <1>1. currentName \in Name /\ currentName[2] <= Bound /\ currentName[2] \in Int
    BY NoNameIsNone DEF OutputOK, Started, Indexed, Name
  <1>2. Bound' = Bound + 1 /\ Bound \in Nat
    BY BoundType DEF Ends, Bound, Running
  <1>3. \A f \in DOMAIN disk' : f \in Name /\ f[2] < Bound'
    <2>1. \A f \in DOMAIN disk : f \in Name /\ f[2] \in Int /\ f[2] < Bound
      BY DEF OutputOK, OutputTypeOK, Indexed, Name
    <2> QED
      BY <1>1, <1>2, <2>1
  <1>4. buffer' \in Seq(Record)
    BY Empty, Zenon DEF Ends
  <1> QED
    BY <1>3, <1>4
    DEF Ends, OutputOK, OutputTypeOK, Indexed, Started, Running, history

\* A kill inside of Write leaves one more file.
LEMMA KilledOK ==
  ASSUME OutputOK, NEW w \in Writers, KilledOpening(w)
  PROVE  OutputOK'
  <1>1. disk' = With(Flushed(disk), currentName, <<>>) /\ Running /\ Ends
    BY DEF KilledOpening
  <1>2. <<>> \in Seq(Record \cup {Torn})
    OBVIOUS
  <1>3. /\ \A f \in DOMAIN disk' : f \in DOMAIN disk \/ f = currentName
        /\ \A f \in DOMAIN disk' : disk'[f] \in Seq(Record \cup {Torn})
    BY <1>1, <1>2, FlushedType DEF With
  <1> QED
    BY <1>1, <1>3, EndsOK

\* Flush, Close and the end of the process.
LEMMA EndOK == OutputOK /\ (Flush \/ Close \/ Exit) => OutputOK'
  <1> SUFFICES ASSUME OutputOK, Flush \/ Close \/ Exit PROVE OutputOK'
    OBVIOUS
  <1>0. Flush \/ Close => Bound' = Bound
    BY DEF Flush, Close, Bound, Running
  <1>1. CASE Flush
    <2>1. DOMAIN disk' = DOMAIN disk /\ \A f \in DOMAIN disk' : disk'[f] \in Seq(Record \cup {Torn})
      BY <1>1, FlushedType DEF Flush, OutputOK, OutputTypeOK
    <2>2. chunkSize' \in Nat
      <3>1. file # NoName => Len(disk'[file]) \in Nat
        BY <2>1, LenProperties DEF OutputOK, Started
      <3> QED
        BY <1>1, <3>1 DEF Flush, OutputOK, OutputTypeOK
    <2>3. buffer' \in Seq(Record)
      BY <1>1, Empty, Zenon DEF Flush, OutputOK, OutputTypeOK
    <2> QED
      BY <1>0, <1>1, <2>1, <2>2, <2>3
      DEF Flush, OutputOK, OutputTypeOK, Indexed, Started, Running, config, nameVars, history
  <1>2. CASE Close
    <2>1. DOMAIN disk' = DOMAIN disk /\ \A f \in DOMAIN disk' : disk'[f] \in Seq(Record \cup {Torn})
      BY <1>2, FlushedType DEF Close, OutputOK, OutputTypeOK
    <2>2. buffer' \in Seq(Record) /\ isOpen' \in BOOLEAN /\ closed' \in BOOLEAN
      BY <1>2, Empty, Zenon DEF Close, OutputOK, OutputTypeOK
    <2>3. UNCHANGED <<config, stem, run, nameVars, file, QueueLength, chunkSize, total, log, ids, control>>
      BY <1>2 DEF Close
    <2> QED
      BY <1>0, <1>2, <2>1, <2>2, <2>3
      DEF Close, OutputOK, OutputTypeOK, Indexed, Started, Running, config, nameVars, control, history
  <1>3. CASE Exit
    <2>1. DOMAIN disk' = DOMAIN disk /\ \A f \in DOMAIN disk' : disk'[f] \in Seq(Record \cup {Torn})
      <3>1. \/ disk' = disk
            \/ file # NoName /\ disk' = [disk EXCEPT ![file] = Append(@, Torn)]
        BY <1>3 DEF Exit, Left
      <3>2. \A f \in DOMAIN disk : disk[f] \in Seq(Record \cup {Torn})
        BY DEF OutputOK, OutputTypeOK
      <3>3. \A f \in DOMAIN disk : Append(disk[f], Torn) \in Seq(Record \cup {Torn})
        BY <3>2
      <3>4. CASE disk' = [disk EXCEPT ![file] = Append(@, Torn)]
        BY <3>2, <3>3, <3>4
      <3> QED
        BY <3>1, <3>2, <3>4
    <2> QED
      BY <1>3, <2>1, EndsOK DEF Exit
  <1> QED
    BY <1>1, <1>2, <1>3
\* A replay does not touch the files, nor what the recording has left.
LEMMA NotRecordingOK ==
  ASSUME OutputOK, UNCHANGED outVars \/ StartReplay
  PROVE  OutputOK'
  <1>1. /\ UNCHANGED <<config, stem, phase, run, nameVars, wpc, fpc, crowded, disk, ids,
                       file, isOpen, QueueLength, chunkSize, total, closed, buffer>>
        /\ log' \in Seq(Record) /\ reverted' \in BOOLEAN
    BY Empty, Zenon
    DEF outVars, fileVars, control, history, StartReplay, OutputOK, OutputTypeOK
  <1>2. OutputTypeOK'
    BY <1>1 DEF OutputOK, OutputTypeOK, config, nameVars
  <1>3. Indexed'
    BY <1>1 DEF OutputOK, Indexed, Bound, Running, nameVars
  <1>4. Started'
    BY <1>1 DEF OutputOK, Started, Running, nameVars
  <1> QED
    BY <1>2, <1>3, <1>4 DEF OutputOK

\* The types and the names hold through every step of a recording and a replay.
LEMMA NextOutputOK == OutputOK /\ [Next]_vars => OutputOK'
  <1> SUFFICES ASSUME OutputOK, [Next]_vars PROVE OutputOK'
    OBVIOUS
  <1>1. CASE OutputNext
    BY <1>1, NewRunOK, NamesOK, WriteLockedOK, KilledOK, EndOK DEF OutputNext, NamesStep
  <1>2. CASE StartReplay \/ UNCHANGED outVars
    BY <1>2, NotRecordingOK
  <1> QED
    BY <1>1, <1>2 DEF Next, vars

-----------------------------------------------------------------------------
(* Every payload is in one place                                             *)

\* No payload is on the disk d twice.
Once(d) ==
    \A f, g \in DOMAIN d : \A i \in 1 .. Len(d[f]), j \in 1 .. Len(d[g]) :
        d[f][i] = d[g][j] => d[f][i] = Torn \/ (f = g /\ i = j)

\* Nor is one of the buffer b on d, or in b twice.
Fresh(d, b) ==
    \A j \in 1 .. Len(b) :
        /\ \A k \in 1 .. Len(b) : b[j] = b[k] => j = k
        /\ \A f \in DOMAIN d : \A i \in 1 .. Len(d[f]) : d[f][i] # b[j]

\* Their numbers are at most n.
Numbered(d, b, n) ==
    /\ \A f \in DOMAIN d : \A i \in 1 .. Len(d[f]) : d[f][i] # Torn => d[f][i].id <= n
    /\ \A j \in 1 .. Len(b) : b[j].id <= n

RecordedOnce == Once(disk) /\ Fresh(disk, buffer) /\ Numbered(disk, buffer, ids)

\* Flushing the buffer does not change that.
LEMMA FlushedOnce ==
  ASSUME OutputOK, RecordedOnce
  PROVE  Once(Flushed(disk)) /\ Numbered(Flushed(disk), <<>>, ids)
  <1>0. /\ buffer \in Seq(Record) /\ \A f \in DOMAIN disk : disk[f] \in Seq(Record \cup {Torn})
        /\ Once(disk) /\ Fresh(disk, buffer) /\ Numbered(disk, buffer, ids)
    BY DEF OutputOK, OutputTypeOK, RecordedOnce
  <1>1. Numbered(disk, <<>>, ids)
    BY <1>0 DEF Numbered
  <1>2. CASE ~(file # NoName /\ isOpen)
    BY <1>0, <1>1, <1>2 DEF Flushed
  <1>3. CASE file # NoName /\ isOpen
    <2>1. PICK d : d = Flushed(disk)
      OBVIOUS
    <2>2. /\ file \in DOMAIN disk /\ DOMAIN d = DOMAIN disk
          /\ d[file] = disk[file] \o buffer
          /\ \A f \in DOMAIN disk \ {file} : d[f] = disk[f]
      BY <1>3, <2>1 DEF Flushed, OutputOK, Started
    <2>3. PICK m \in Nat : m = Len(disk[file])
      BY <1>0, <2>2
    <2>4. /\ Len(d[file]) = m + Len(buffer) /\ Len(buffer) \in Nat
          /\ \A i \in 1 .. Len(d[file]) :
               d[file][i] = IF i <= m THEN disk[file][i] ELSE buffer[i - m]
      BY <1>0, <2>2, <2>3
    <2>5. \A f \in DOMAIN d : \A i \in 1 .. Len(d[f]) :
             \/ i \in 1 .. Len(disk[f]) /\ d[f][i] = disk[f][i]
             \/ f = file /\ i - m \in 1 .. Len(buffer) /\ d[f][i] = buffer[i - m]
      <3> SUFFICES ASSUME NEW f \in DOMAIN d, NEW i \in 1 .. Len(d[f]), f = file
                   PROVE  \/ i \in 1 .. Len(disk[f]) /\ d[f][i] = disk[f][i]
                          \/ i - m \in 1 .. Len(buffer) /\ d[f][i] = buffer[i - m]
        BY <2>2
      <3>1. i \in Int /\ i >= 1 /\ i <= m + Len(buffer)
        BY <2>4
      <3>2. CASE i <= m
        BY <2>3, <2>4, <3>1, <3>2
      <3>3. CASE ~(i <= m)
        BY <2>4, <3>1, <3>3
      <3> QED
        BY <3>2, <3>3
    <2>6. Once(d)
      <3> SUFFICES ASSUME NEW f \in DOMAIN d, NEW g \in DOMAIN d,
                          NEW i \in 1 .. Len(d[f]), NEW j \in 1 .. Len(d[g]),
                          d[f][i] = d[g][j]
                   PROVE  d[f][i] = Torn \/ (f = g /\ i = j)
        BY DEF Once
      <3>1. CASE i \in 1 .. Len(disk[f]) /\ d[f][i] = disk[f][i]
        <4>1. CASE j \in 1 .. Len(disk[g]) /\ d[g][j] = disk[g][j]
          <5>1. disk[f][i] = disk[g][j] /\ f \in DOMAIN disk /\ g \in DOMAIN disk
            BY <2>2, <3>1, <4>1, Zenon
          <5>2. i \in 1 .. Len(disk[f]) /\ j \in 1 .. Len(disk[g])
            BY <3>1, <4>1, Zenon
          <5>3. disk[f][i] = Torn \/ (f = g /\ i = j)
            <6>1. Once(disk)
              BY <1>0, Zenon
            <6> QED
              BY ONLY <5>1, <5>2, <6>1 DEF Once
          <5> QED
            BY <3>1, <5>3, Zenon
        <4>2. CASE g = file /\ j - m \in 1 .. Len(buffer) /\ d[g][j] = buffer[j - m]
          <5>1. disk[f][i] = buffer[j - m] /\ f \in DOMAIN disk
            BY <2>2, <3>1, <4>2, Zenon
          <5> QED
            BY <1>0, <3>1, <4>2, <5>1, Zenon DEF Fresh
        <4> QED
          BY <2>5, <4>1, <4>2
      <3>2. CASE f = file /\ i - m \in 1 .. Len(buffer) /\ d[f][i] = buffer[i - m]
        <4>1. CASE j \in 1 .. Len(disk[g]) /\ d[g][j] = disk[g][j]
          <5>1. buffer[i - m] = disk[g][j] /\ g \in DOMAIN disk
            BY <2>2, <3>2, <4>1, Zenon
          <5> QED
            BY <1>0, <3>2, <4>1, <5>1, Zenon DEF Fresh
        <4>2. CASE g = file /\ j - m \in 1 .. Len(buffer) /\ d[g][j] = buffer[j - m]
          <5>1. i - m = j - m
            <6>1. buffer[i - m] = buffer[j - m]
              BY <3>2, <4>2, Zenon
            <6> QED
              BY <1>0, <3>2, <4>2, <6>1, Zenon DEF Fresh
          <5>2. i \in Int /\ j \in Int
            OBVIOUS
          <5> QED
            BY <2>3, <3>2, <4>2, <5>1, <5>2
        <4> QED
          BY <2>5, <4>1, <4>2
      <3> QED
        BY <2>5, <3>1, <3>2
    <2>7. Numbered(d, <<>>, ids)
      <3> SUFFICES ASSUME NEW f \in DOMAIN d, NEW i \in 1 .. Len(d[f]), d[f][i] # Torn
                   PROVE  d[f][i].id <= ids
        BY DEF Numbered
      <3> QED
        BY <1>0, <2>2, <2>5 DEF Numbered
    <2> QED
      BY <2>1, <2>6, <2>7
  <1> QED
    BY <1>2, <1>3

\* A payload that is written has a number of its own.
LEMMA WriteLockedOnce ==
  ASSUME OutputOK, RecordedOnce, NEW w \in Writers, NEW ts \in Stamp, WriteLocked(w, ts)
  PROVE  RecordedOnce'
  <1>1. PICK rec : rec = [id |-> ids + 1, run |-> run, ts |-> ts]
    OBVIOUS
  <1>2. ids \in Nat /\ ids' = ids + 1 /\ rec.id = ids + 1
    BY <1>1, Limits DEF WriteLocked, Reopens, OutputOK, OutputTypeOK
  <1>3. rec \in Record
    BY <1>1, Limits DEF Record, OutputOK, OutputTypeOK, Started, WriteLocked, Reopens
  <1>4. \A d : Numbered(d, <<>>, ids) /\ Once(d) /\ (\A f \in DOMAIN d : d[f] \in Seq(Record \cup {Torn}))
          => Fresh(d, <<rec>>) /\ Numbered(d, <<rec>>, ids + 1)
    <2> SUFFICES ASSUME NEW d, Numbered(d, <<>>, ids), Once(d),
                        \A f \in DOMAIN d : d[f] \in Seq(Record \cup {Torn})
                 PROVE  Fresh(d, <<rec>>) /\ Numbered(d, <<rec>>, ids + 1)
      OBVIOUS
    <2>1. \A f \in DOMAIN d : \A i \in 1 .. Len(d[f]) :
             /\ d[f][i] # rec
             /\ d[f][i] # Torn => d[f][i].id <= ids + 1
      <3> SUFFICES ASSUME NEW f \in DOMAIN d, NEW i \in 1 .. Len(d[f])
                   PROVE  d[f][i] # rec /\ (d[f][i] # Torn => d[f][i].id <= ids + 1)
        OBVIOUS
      <3>1. d[f][i] \in Record \cup {Torn}
        OBVIOUS
      <3>2. d[f][i] # Torn => d[f][i].id \in Nat /\ d[f][i].id <= ids
        BY <3>1, Limits DEF Numbered, Record
      <3>3. rec # Torn
        BY <1>3, Limits
      <3> QED
        BY <1>2, <3>2, <3>3
    <2> QED
      BY <1>2, <2>1 DEF Fresh, Numbered
  <1>5. CASE file = NoName \/ currentName # file
    <2>1. PICK d : d = With(Flushed(disk), currentName, <<>>)
      OBVIOUS
    <2>2. disk' = d /\ buffer' = <<rec>>
      <3>1. disk' = d /\ buffer' = Buffered(<<>>, rec)
        BY <1>1, <1>5, <2>1 DEF WriteLocked, Reopens
      <3>2. Len(<<>>) # BufCap /\ Append(<<>>, rec) = <<rec>>
        BY Limits
      <3> QED
        BY <3>1, <3>2 DEF Buffered
    <2>3. /\ d[currentName] = <<>> /\ DOMAIN d = DOMAIN Flushed(disk) \cup {currentName}
          /\ \A f \in DOMAIN d \ {currentName} : f \in DOMAIN Flushed(disk) /\ d[f] = Flushed(disk)[f]
      BY <2>1 DEF With
    <2>4. Once(d) /\ Numbered(d, <<>>, ids)
      BY <2>3, FlushedOnce DEF Once, Numbered
    <2>5. \A f \in DOMAIN d : d[f] \in Seq(Record \cup {Torn})
      <3>1. d[currentName] \in Seq(Record \cup {Torn})
        BY <2>3
      <3>2. \A f \in DOMAIN d \ {currentName} : d[f] \in Seq(Record \cup {Torn})
        BY <2>3, FlushedType
      <3> QED
        BY <3>1, <3>2
    <2>6. Fresh(d, <<rec>>) /\ Numbered(d, <<rec>>, ids + 1)
      BY <1>4, <2>4, <2>5
    <2> QED
      BY <1>2, <2>2, <2>4, <2>6 DEF RecordedOnce
  <1>6. CASE ~(file = NoName \/ currentName # file) /\ Len(buffer) = BufCap
    <2>1. PICK d : d = Flushed(disk)
      OBVIOUS
    <2>2. disk' = d /\ buffer' = <<rec>>
      BY <1>1, <1>6, <2>1 DEF WriteLocked, Reopens, Buffered
    <2>3. Once(d) /\ Numbered(d, <<>>, ids)
      BY <2>1, FlushedOnce
    <2>4. Fresh(d, <<rec>>) /\ Numbered(d, <<rec>>, ids + 1)
      BY <1>4, <2>1, <2>3, FlushedType
    <2> QED
      BY <1>2, <2>2, <2>3, <2>4 DEF RecordedOnce
  <1>7. CASE ~(file = NoName \/ currentName # file) /\ Len(buffer) # BufCap
    <2>1. disk' = disk /\ buffer' = Append(buffer, rec)
      BY <1>1, <1>7 DEF WriteLocked, Reopens, Buffered
    <2>2. buffer \in Seq(Record) /\ Len(buffer) \in Nat
      BY DEF OutputOK, OutputTypeOK
    <2>3. PICK b : b = Append(buffer, rec)
      OBVIOUS
    <2>4. /\ Len(b) = Len(buffer) + 1 /\ b[Len(buffer) + 1] = rec
          /\ \A j \in 1 .. Len(buffer) : b[j] = buffer[j]
      BY <1>3, <2>2, <2>3
    <2>5. Once(disk) /\ Fresh(disk, buffer) /\ Numbered(disk, buffer, ids)
      BY DEF RecordedOnce
    <2>6. Numbered(disk, <<>>, ids)
      BY <2>5 DEF Numbered
    <2>7. Fresh(disk, <<rec>>) /\ Numbered(disk, <<rec>>, ids + 1)
      BY <1>4, <2>5, <2>6 DEF OutputOK, OutputTypeOK
    <2>8. \A j \in 1 .. Len(buffer) : buffer[j].id \in Nat /\ buffer[j].id <= ids
      <3>1. \A j \in 1 .. Len(buffer) : buffer[j] \in Record
        BY <2>2
      <3>2. \A x \in Record : x.id \in Nat
        BY Limits DEF Record
      <3> QED
        BY <2>5, <3>1, <3>2 DEF Numbered
    <2>9. \A j \in 1 .. Len(b) : j \in 1 .. Len(buffer) \/ j = Len(buffer) + 1
      BY <2>2, <2>4
    <2>10. \A j \in 1 .. Len(buffer) : b[j] # rec
      BY <1>2, <2>4, <2>8
    <2>11. \A f \in DOMAIN disk : \A i \in 1 .. Len(disk[f]) : disk[f][i] # rec
      BY <2>7 DEF Fresh
    <2>12. Fresh(disk, b)
      BY <2>4, <2>5, <2>9, <2>10, <2>11 DEF Fresh
    <2>13. Numbered(disk, b, ids + 1)
      BY <1>2, <2>4, <2>7, <2>8, <2>9 DEF Numbered
    <2> QED
      BY <1>2, <2>1, <2>3, <2>5, <2>12, <2>13 DEF RecordedOnce
  <1> QED
    BY <1>5, <1>6, <1>7
\* The disk at a flush, and when a process ends in the middle of a payload.
LEMMA EndOnce ==
  ASSUME OutputOK, RecordedOnce, Flush \/ Close \/ Exit
  PROVE  RecordedOnce'
  <1>1. ids' = ids
    BY DEF Flush, Close, Exit, Ends
  <1>2. CASE disk' = disk /\ buffer' = buffer
    BY <1>1, <1>2 DEF RecordedOnce
  <1>3. \A d : Once(d) /\ Numbered(d, <<>>, ids) => Fresh(d, <<>>)
    BY DEF Fresh
  <1>4. CASE disk' = Flushed(disk) /\ buffer' = <<>>
    <2>1. PICK d : d = Flushed(disk)
      OBVIOUS
    <2>2. Once(d) /\ Numbered(d, <<>>, ids) /\ Fresh(d, <<>>)
      BY <1>3, <2>1, FlushedOnce
    <2> QED
      BY <1>1, <1>4, <2>1, <2>2 DEF RecordedOnce
  <1>5. CASE disk' = disk /\ buffer' = <<>>
    <2>1. Once(disk) /\ Numbered(disk, <<>>, ids)
      BY DEF RecordedOnce, Numbered
    <2> QED
      BY <1>1, <1>3, <1>5, <2>1 DEF RecordedOnce
  <1>6. CASE /\ file \in DOMAIN disk /\ disk' = [disk EXCEPT ![file] = Append(@, Torn)]
             /\ buffer' = <<>>
    <2>1. PICK d : d = [disk EXCEPT ![file] = Append(@, Torn)]
      OBVIOUS
    <2>2. disk[file] \in Seq(Record \cup {Torn}) /\ Len(disk[file]) \in Nat
      BY <1>6 DEF OutputOK, OutputTypeOK
    <2>3. /\ DOMAIN d = DOMAIN disk
          /\ \A f \in DOMAIN disk \ {file} : d[f] = disk[f]
          /\ d[file] = Append(disk[file], Torn)
      BY <1>6, <2>1
    <2>4. \A f \in DOMAIN d : \A i \in 1 .. Len(d[f]) :
             d[f][i] = Torn \/ (i \in 1 .. Len(disk[f]) /\ d[f][i] = disk[f][i])
      <3>1. \A i \in 1 .. Len(d[file]) :
               d[file][i] = Torn \/ (i \in 1 .. Len(disk[file]) /\ d[file][i] = disk[file][i])
        BY <2>2, <2>3
      <3> QED
        BY <2>3, <3>1
    <2>5. Once(disk) /\ Numbered(disk, <<>>, ids)
      BY DEF RecordedOnce, Numbered
    <2>6. Once(d)
      <3> SUFFICES ASSUME NEW f \in DOMAIN d, NEW g \in DOMAIN d,
                          NEW i \in 1 .. Len(d[f]), NEW j \in 1 .. Len(d[g]),
                          d[f][i] = d[g][j], d[f][i] # Torn
                   PROVE  f = g /\ i = j
        BY DEF Once
      <3>1. /\ i \in 1 .. Len(disk[f]) /\ j \in 1 .. Len(disk[g])
            /\ disk[f][i] = disk[g][j] /\ disk[f][i] # Torn
            /\ f \in DOMAIN disk /\ g \in DOMAIN disk
        BY <2>3, <2>4
      <3> QED
        BY ONLY <2>5, <3>1 DEF Once
    <2>7. Numbered(d, <<>>, ids)
      BY <2>3, <2>4, <2>5 DEF Numbered
    <2> QED
      BY <1>1, <1>3, <1>6, <2>1, <2>6, <2>7 DEF RecordedOnce
  <1>7. CASE Flush
    <2>1. isOpen \/ Flushed(disk) = disk
      BY DEF Flushed
    <2> QED
      BY <1>2, <1>4, <1>7, <2>1 DEF Flush
  <1>8. CASE Close
    BY <1>2, <1>4, <1>8 DEF Close
  <1>9. CASE Exit
    BY <1>5, <1>6, <1>9 DEF Exit, Ends, Left, OutputOK, Started
  <1> QED
    BY <1>7, <1>8, <1>9

\* And when it is killed inside of Write.
LEMMA KilledOnce ==
  ASSUME OutputOK, RecordedOnce, NEW w \in Writers, KilledOpening(w)
  PROVE  RecordedOnce'
  <1>1. PICK d : d = With(Flushed(disk), currentName, <<>>)
    OBVIOUS
  <1>2. disk' = d /\ buffer' = <<>> /\ ids' = ids
    BY <1>1 DEF KilledOpening, Ends
  <1>3. /\ d[currentName] = <<>> /\ DOMAIN d = DOMAIN Flushed(disk) \cup {currentName}
        /\ \A f \in DOMAIN d \ {currentName} : f \in DOMAIN Flushed(disk) /\ d[f] = Flushed(disk)[f]
    BY <1>1 DEF With
  <1>4. Once(d) /\ Numbered(d, <<>>, ids)
    BY <1>3, FlushedOnce DEF Once, Numbered
  <1>5. Fresh(d, <<>>)
    BY DEF Fresh
  <1> QED
    BY <1>2, <1>4, <1>5 DEF RecordedOnce

\* No step records a payload twice.
LEMMA NextOnce == OutputOK /\ RecordedOnce /\ [Next]_vars => RecordedOnce'
  <1> SUFFICES ASSUME OutputOK, RecordedOnce, [Next]_vars PROVE RecordedOnce'
    OBVIOUS
  <1>1. CASE NewFileOutput
    <2>1. disk' = disk /\ buffer' = <<>> /\ ids' = ids
      BY <1>1 DEF NewFileOutput
    <2> QED
      BY <2>1 DEF RecordedOnce, Fresh, Numbered
  <1>2. CASE UNCHANGED <<disk, buffer, ids>>
    BY <1>2 DEF RecordedOnce
  <1>3. CASE NamesStep \/ StartReplay \/ UNCHANGED outVars
    BY <1>2, <1>3
    DEF NamesStep, WriteName, WriteSetName, FlushCheck, FlushName, FlushSetName, Tick, StartReplay, outVars,
        fileVars
  <1> QED
    BY <1>1, <1>3, WriteLockedOnce, KilledOnce, EndOnce DEF Next, vars, OutputNext, NamesStep

\* The invariant of the recording.
RecordingOK == OutputOK /\ RecordedOnce

\* What every recording keeps to.
LEMMA RecordingAlwaysOK == Spec => []RecordingOK
  <1>1. Init => RecordingOK
    <2> SUFFICES ASSUME Init PROVE RecordedOnce
      BY OutputInitOK DEF Init, RecordingOK
    <2>1. disk = <<>> /\ buffer = <<>> /\ DOMAIN disk = {}
      BY Empty, Zenon DEF Init, OutputInit
    <2> QED
      BY <2>1 DEF RecordedOnce, Once, Fresh, Numbered
  <1> QED
    BY <1>1, NextOutputOK, NextOnce, PTL DEF Spec, RecordingOK
-----------------------------------------------------------------------------
(* Readers                                                                   *)

\* The payloads of s that r has left behind, or holds.
Passed(r, s) == Len(s) - Len(r.rest)

\* r is at a payload of s, with the rest of s before it.
Inside(r, s) ==
    /\ Passed(r, s) \in Nat
    /\ \A m \in 1 .. Len(r.rest) : r.rest[m] = s[Passed(r, s) + m]
    /\ \A m \in 1 .. Passed(r, s) : s[m] # Torn
    /\ Passed(r, s) > 0 => r.data = s[Passed(r, s)] /\ r.timestamp = s[Passed(r, s)].ts

\* A reader that is open holds a payload, unless the file does not even have one.
Follows(r, s) ==
    Inside(r, s) /\ (r.closed \/ Passed(r, s) > 0 \/ (gz /\ Contains(s, Torn)))

\* parseNext stays within the file, whatever its end looks like.
LEMMA ParseNextFollows ==
  ASSUME NEW s \in Seq(Record \cup {Torn}), NEW r \in Reader, Inside(r, s)
  PROVE  /\ parseNext(r) \in Reader /\ Follows(parseNext(r), s)
         /\ Passed(parseNext(r), s) >= Passed(r, s)
  <1>1. /\ r.rest \in Seq(Record \cup {Torn}) /\ Len(r.rest) \in Nat /\ Len(s) \in Nat
        /\ Passed(r, s) = Len(s) - Len(r.rest) /\ Passed(r, s) \in Nat
    BY DEF Reader, Passed, Inside
  <1>2. CASE r.rest # <<>> /\ Head(r.rest) # Torn
    <2>1. PICK q : q = [r EXCEPT !.data = Head(r.rest), !.timestamp = Head(r.rest).ts,
                                 !.rest = Tail(r.rest)]
      OBVIOUS
    <2>2. parseNext(r) = q
      BY <1>2, <2>1 DEF parseNext
    <2>3. Head(r.rest) \in Record /\ Head(r.rest).ts \in Nat
      <3>1. Head(r.rest) \in Record \cup {Torn}
        BY <1>1, <1>2
      <3>2. \A x \in Record : x.ts \in Nat
        BY Limits DEF Record
      <3> QED
        BY <1>2, <3>1, <3>2
    <2>4. /\ Tail(r.rest) \in Seq(Record \cup {Torn}) /\ Len(Tail(r.rest)) = Len(r.rest) - 1
          /\ \A m \in 1 .. Len(Tail(r.rest)) : Tail(r.rest)[m] = r.rest[m + 1]
          /\ Head(r.rest) = r.rest[1] /\ Len(r.rest) >= 1
      BY <1>1, <1>2
    <2>5. /\ q.data = Head(r.rest) /\ q.timestamp = Head(r.rest).ts /\ q.rest = Tail(r.rest)
          /\ q.closed = r.closed
      BY <2>1 DEF Reader
    <2>6. q \in Reader
      BY <2>1, <2>3, <2>4 DEF Reader
    <2>7. Passed(q, s) = Passed(r, s) + 1
      <3>1. Len(q.rest) = Len(r.rest) - 1
        BY <2>4, <2>5, Zenon
      <3>2. Passed(q, s) = Len(s) - Len(q.rest)
        BY DEF Passed
      <3>3. Passed(q, s) = Len(s) - (Len(r.rest) - 1)
        BY <3>1, <3>2, Zenon
      <3>4. \A a, b \in Int : a - (b - 1) = (a - b) + 1
        OBVIOUS
      <3>5. Len(r.rest) \in Int /\ Len(s) \in Int
        BY <1>1
      <3> QED
        BY <1>1, <3>3, <3>4, <3>5, Zenon
    <2>8. Head(r.rest) = s[Passed(r, s) + 1]
      <3>1. 1 \in 1 .. Len(r.rest)
        BY <1>1, <2>4
      <3>2. r.rest[1] = s[Passed(r, s) + 1]
        BY <3>1, Zenon DEF Inside
      <3> QED
        BY <2>4, <3>2, Zenon
    <2>9. Inside(q, s)
      <3>1. Passed(q, s) \in Nat
        BY <1>1, <2>7
      <3>2. \A m \in 1 .. Len(q.rest) : q.rest[m] = s[Passed(q, s) + m]
        <4> SUFFICES ASSUME NEW m \in 1 .. Len(q.rest) PROVE q.rest[m] = s[Passed(q, s) + m]
          OBVIOUS
        <4>1. m + 1 \in 1 .. Len(r.rest) /\ q.rest[m] = r.rest[m + 1]
          BY <1>1, <2>4, <2>5
        <4>2. r.rest[m + 1] = s[Passed(r, s) + (m + 1)]
          BY <4>1 DEF Inside
        <4>3. Passed(r, s) + (m + 1) = Passed(q, s) + m
          BY <1>1, <2>7
        <4> QED
          BY <4>1, <4>2, <4>3
      <3>3. \A m \in 1 .. Passed(q, s) : s[m] # Torn
        <4>1. \A m \in 1 .. Passed(q, s) : m \in 1 .. Passed(r, s) \/ m = Passed(r, s) + 1
          BY <1>1, <2>7
        <4> QED
          BY <1>2, <2>8, <4>1 DEF Inside
      <3>4. q.data = s[Passed(q, s)] /\ q.timestamp = s[Passed(q, s)].ts
        BY <2>5, <2>7, <2>8
      <3> QED
        BY <3>1, <3>2, <3>3, <3>4 DEF Inside
    <2>10. Passed(q, s) > 0 /\ Passed(q, s) >= Passed(r, s)
      <3>1. \A n \in Nat : n + 1 > 0 /\ n + 1 >= n
        OBVIOUS
      <3> QED
        BY <1>1, <2>7, <3>1, Zenon
    <2>11. Follows(q, s)
      BY <2>9, <2>10, Zenon DEF Follows
    <2> QED
      BY <2>2, <2>6, <2>10, <2>11, Zenon
  <1>3. CASE ~(r.rest # <<>> /\ Head(r.rest) # Torn) /\ r.rest # <<>> /\ gz
    <2>1. parseNext(r) = r
      BY <1>3 DEF parseNext
    <2>2. r.rest[1] = Torn /\ 1 \in 1 .. Len(r.rest)
      BY <1>1, <1>3
    <2>3. s[Passed(r, s) + 1] = Torn /\ Passed(r, s) + 1 \in 1 .. Len(s)
      <3>1. r.rest[1] = s[Passed(r, s) + 1]
        BY <2>2, Zenon DEF Inside
      <3>2. PICK n \in Nat : n = Len(r.rest)
        BY <1>1
      <3>3. n >= 1
        BY <2>2, <3>2
      <3>4. Passed(r, s) = Len(s) - n
        BY <1>1, <3>2, Zenon
      <3>5. Passed(r, s) + 1 \in 1 .. Len(s)
        BY <1>1, <3>3, <3>4
      <3> QED
        BY <2>2, <3>1, <3>5, Zenon
    <2>4. Contains(s, Torn)
      BY <2>3 DEF Contains
    <2> QED
      BY <1>1, <1>3, <2>1, <2>4 DEF Follows
  <1>4. CASE ~(r.rest # <<>> /\ Head(r.rest) # Torn) /\ ~(r.rest # <<>> /\ gz)
    <2>1. PICK q : q = [r EXCEPT !.closed = TRUE]
      OBVIOUS
    <2>2. parseNext(r) = q
      BY <1>4, <2>1 DEF parseNext
    <2>3. /\ q \in Reader /\ q.data = r.data /\ q.timestamp = r.timestamp /\ q.rest = r.rest
          /\ q.closed
      BY <2>1 DEF Reader
    <2>4. Passed(q, s) = Passed(r, s)
      BY <2>3 DEF Passed
    <2>5. Inside(q, s)
      BY <2>3, <2>4 DEF Inside
    <2> QED
      BY <1>1, <2>2, <2>3, <2>4, <2>5 DEF Follows
  <1> QED
    BY <1>2, <1>3, <1>4

\* Only a file that cannot be opened, or is compressed and empty, has no reader.
ReadersOK ==
    /\ epc # "off" => DOMAIN readers = DOMAIN disk
    /\ \A f \in DOMAIN readers :
          \/ readers[f] = NoReader /\ Unreadable(f)
          \/ readers[f] \in Reader /\ Follows(readers[f], disk[f]) /\ ~Unreadable(f)

\* emit has chosen the reader with the smallest timestamp, unless Close came after it.
ChosenOK == epc = "read" /\ ~exit => nextReader(cur)

\* Close has closed them all, before the replay can stop for it.
ClosedOK ==
    exit /\ ~loop /\ ~panicked =>
        \A f \in DOMAIN readers : readers[f] # NoReader /\ readers[f].closed

\* Before the replay begins.
OffOK == epc = "off" => ~exit /\ ~panicked /\ readers = <<>> /\ emitted = <<>>

InputOK == InputTypeOK /\ ReadersOK /\ ChosenOK /\ ClosedOK /\ OffOK /\ PanicNeedsUnreadable

\* A reader is something.
LEMMA NoReaderIsNone == NoReader \notin Reader
  <1> SUFFICES ASSUME NEW r \in Reader PROVE r # NoReader
    OBVIOUS
  <1>1. DOMAIN r = {"data", "timestamp", "rest", "closed"}
    BY DEF Reader
  <1> QED
    BY <1>1, Empty, Zenon DEF NoReader

\* init opens all files there are, and some may fail.
LEMMA OpenReadersOK ==
  ASSUME OutputOK, OpenReaders, UNCHANGED <<gz, disk>>
  PROVE  /\ DOMAIN readers' = DOMAIN disk /\ unopened' \subseteq DOMAIN disk
         /\ \A f \in DOMAIN disk :
               \/ readers'[f] = NoReader /\ Unreadable(f)'
               \/ readers'[f] \in Reader /\ Follows(readers'[f], disk[f]) /\ ~Unreadable(f)'
  <1>1. DOMAIN readers' = DOMAIN disk /\ unopened' \subseteq DOMAIN disk
    BY DEF OpenReaders
  <1> SUFFICES ASSUME NEW f \in DOMAIN disk
               PROVE  \/ readers'[f] = NoReader /\ Unreadable(f)'
                      \/ readers'[f] \in Reader /\ Follows(readers'[f], disk[f]) /\ ~Unreadable(f)'
    BY <1>1
  <1>2. readers'[f] = NewFileInputReader(f, f \notin unopened')
    BY DEF OpenReaders
  <1>0. Unreadable(f)' <=> (f \in unopened' \/ (gz /\ disk[f] = <<>>))
    BY DEF Unreadable
  <1>3. CASE f \in unopened' \/ (gz /\ disk[f] = <<>>)
    BY <1>0, <1>2, <1>3 DEF NewFileInputReader
  <1>4. CASE ~(f \in unopened' \/ (gz /\ disk[f] = <<>>))
    <2>1. PICK r : r = [data |-> NoData, timestamp |-> 0, rest |-> disk[f], closed |-> FALSE]
      OBVIOUS
    <2>2. readers'[f] = parseNext(r)
      BY <1>2, <1>4, <2>1 DEF NewFileInputReader
    <2>3. disk[f] \in Seq(Record \cup {Torn}) /\ Len(disk[f]) \in Nat
      BY DEF OutputOK, OutputTypeOK
    <2>4. r \in Reader /\ r.rest = disk[f]
      BY <2>1, <2>3 DEF Reader
    <2>5. Passed(r, disk[f]) = 0
      BY <2>3, <2>4 DEF Passed
    <2>6. Inside(r, disk[f])
      BY <2>3, <2>4, <2>5 DEF Inside
    <2> QED
      BY <1>0, <1>4, <2>2, <2>3, <2>4, <2>6, ParseNextFollows
  <1> QED
    BY <1>3, <1>4

\* The steps of emit that choose, stop, loop or send.
LEMMA EmitOK ==
  ASSUME OutputOK, InputOK, ~panicked, UNCHANGED outVars,
         EmitStopped \/ EmitNext \/ EmitEnd \/ EmitLoop \/ EmitSend
  PROVE  InputOK'
  <1>0. UNCHANGED <<gz, disk>>
    BY DEF outVars, config, fileVars
  <1>1. CASE EmitStopped \/ EmitEnd
    <2>1. epc' = "end" /\ UNCHANGED <<loop, readers, unopened, cur, hand, data, exit, panicked, reading, passes, emitted>>
      BY <1>1 DEF EmitStopped, EmitEnd
    <2>2. epc # "off"
      BY <1>1 DEF EmitStopped, EmitEnd
    <2> QED
      BY <1>0, <2>1, <2>2
      DEF InputOK, InputTypeOK, ReadersOK, ChosenOK, ClosedOK, OffOK, PanicNeedsUnreadable,
          Follows, Inside, Unreadable, Readable
  <1>2. CASE EmitNext
    <2>1. /\ epc = "next" /\ epc' = "read"
          /\ UNCHANGED <<loop, readers, unopened, hand, data, exit, reading, panicked, passes, emitted>>
      BY <1>2 DEF EmitNext
    <2>2. nextReader(cur') /\ cur' \in Candidates
      BY <1>2 DEF EmitNext
    <2>3. nextReader(cur)'
      BY <2>1, <2>2 DEF nextReader, Candidates
    <2>4. cur' \in DOMAIN readers
      BY <2>2 DEF Candidates
    <2> QED
      BY <1>0, <2>1, <2>3, <2>4
      DEF InputOK, InputTypeOK, ReadersOK, ChosenOK, ClosedOK, OffOK, PanicNeedsUnreadable,
          Follows, Inside, Unreadable, Readable
  <1>3. CASE EmitLoop
    <2>1. /\ epc = "next" /\ OpenReaders /\ emitted' = <<>> /\ passes' = passes + 1
          /\ passes < MaxPasses /\ loop
          /\ UNCHANGED <<loop, epc, cur, hand, data, exit, reading, panicked>>
      BY <1>3 DEF EmitLoop
    <2>2. ReadersOK'
      BY <1>0, <2>1, OpenReadersOK DEF ReadersOK, Follows, Inside, Unreadable, Readable
    <2>3. DOMAIN readers' = DOMAIN readers
      BY <1>0, <2>1, OpenReadersOK DEF InputOK, ReadersOK
    <2>4. emitted' \in Seq(Record \cup {NoData}) /\ Len(emitted') <= MaxEmitted
      BY <2>1, InputAssumption DEF InputAssumption
    <2>5. passes' \in 0 .. MaxPasses
      BY <2>1, InputAssumption DEF InputAssumption, InputOK, InputTypeOK
    <2>6. \A f \in DOMAIN readers' : readers'[f] \in Reader \cup {NoReader}
      BY <2>2 DEF ReadersOK
    <2>7. InputTypeOK'
      BY <1>0, <2>1, <2>3, <2>4, <2>5, <2>6, OpenReadersOK DEF InputOK, InputTypeOK, ReadersOK
    <2> QED
      BY <1>0, <2>1, <2>2, <2>7
      DEF InputOK, ChosenOK, ClosedOK, OffOK, PanicNeedsUnreadable
  <1>4. CASE EmitSend
    <2>1. /\ epc = "send" /\ epc' = "next" /\ Len(data) < DataCap
          /\ data' = Append(data, hand) /\ hand' = NoData
          /\ UNCHANGED <<loop, readers, unopened, cur, exit, reading, panicked, passes, emitted>>
      BY <1>4 DEF EmitSend
    <2>2. data' \in Seq(Record \cup {NoData}) /\ Len(data') <= DataCap
      BY <2>1, InputAssumption DEF InputAssumption, InputOK, InputTypeOK
    <2>3. InputTypeOK'
      BY <2>1, <2>2 DEF InputOK, InputTypeOK
    <2> QED
      BY <1>0, <2>1, <2>3
      DEF InputOK, ReadersOK, ChosenOK, ClosedOK, OffOK, PanicNeedsUnreadable,
          Follows, Inside, Unreadable, Readable
  <1> QED
    BY <1>1, <1>2, <1>3, <1>4

\* emit takes the payload of the reader it has chosen.
LEMMA EmitReadOK ==
  ASSUME OutputOK, InputOK, UNCHANGED outVars, EmitRead
  PROVE  InputOK'
  <1>0. UNCHANGED <<gz, disk>>
    BY DEF outVars, config, fileVars
  <1>1. /\ epc = "read" /\ ~exit /\ epc' = "send" /\ Len(emitted) < MaxEmitted
        /\ hand' = readers[cur].data /\ emitted' = Append(emitted, readers[cur].data)
        /\ readers' = [readers EXCEPT ![cur] = parseNext(@)]
        /\ UNCHANGED <<loop, unopened, cur, data, exit, reading, panicked, passes>>
    BY DEF EmitRead
  <1>2. cur \in DOMAIN readers /\ readers[cur] # NoReader
    BY <1>1 DEF InputOK, ChosenOK, nextReader, Candidates
  <1>3. readers[cur] \in Reader /\ Inside(readers[cur], disk[cur])
    BY <1>2 DEF InputOK, ReadersOK, Follows
  <1>4. disk[cur] \in Seq(Record \cup {Torn})
    BY <1>1, <1>2 DEF OutputOK, OutputTypeOK, InputOK, ReadersOK
  <1>5. parseNext(readers[cur]) \in Reader /\ Follows(parseNext(readers[cur]), disk[cur])
    BY <1>3, <1>4, ParseNextFollows
  <1>6. /\ DOMAIN readers' = DOMAIN readers /\ readers'[cur] = parseNext(readers[cur])
        /\ \A f \in DOMAIN readers \ {cur} : readers'[f] = readers[f]
    BY <1>1, <1>2
  <1>a. \A f : Unreadable(f)' <=> Unreadable(f)
    BY <1>0, <1>1 DEF Unreadable
  <1>b. ~Unreadable(cur)
    BY <1>2 DEF InputOK, ReadersOK
  <1>7. ReadersOK'
    <2>1. \A f \in DOMAIN readers' :
             \/ readers'[f] = NoReader /\ Unreadable(f)
             \/ readers'[f] \in Reader /\ Follows(readers'[f], disk[f]) /\ ~Unreadable(f)
      BY <1>5, <1>6, <1>b DEF InputOK, ReadersOK
    <2> QED
      BY <1>0, <1>1, <1>6, <1>a, <2>1 DEF InputOK, ReadersOK, Follows, Inside
  <1>8. \A f \in DOMAIN readers' : readers'[f] \in Reader \cup {NoReader}
    BY <1>7 DEF ReadersOK
  <1>9. readers[cur].data \in Record \cup {NoData}
    BY <1>3 DEF Reader
  <1>10. emitted' \in Seq(Record \cup {NoData}) /\ Len(emitted') <= MaxEmitted
    BY <1>1, <1>9, InputAssumption DEF InputAssumption, InputOK, InputTypeOK
  <1>11. InputTypeOK'
    BY <1>1, <1>6, <1>8, <1>9, <1>10 DEF InputOK, InputTypeOK
  <1> QED
    BY <1>0, <1>1, <1>7, <1>11
    DEF InputOK, ChosenOK, ClosedOK, OffOK, PanicNeedsUnreadable, Unreadable, Readable
\* Read and Close, at any point of emit.
LEMMA ReadCloseOK ==
  ASSUME OutputOK, InputOK, UNCHANGED outVars, Read \/ ReadStopped \/ InputClose
  PROVE  InputOK'
  <1>0. UNCHANGED <<gz, disk>>
    BY DEF outVars, config, fileVars
  <1>1. CASE Read \/ ReadStopped
    <2>1. /\ UNCHANGED <<loop, readers, unopened, epc, cur, hand, exit, panicked, passes, emitted>>
          /\ reading' \in BOOLEAN
      BY <1>1 DEF Read, ReadStopped, InputOK, InputTypeOK
    <2>2. data' \in Seq(Record \cup {NoData}) /\ Len(data') <= DataCap
      <3>1. data \in Seq(Record \cup {NoData}) /\ Len(data) <= DataCap /\ DataCap \in Nat
        BY InputAssumption DEF InputAssumption, InputOK, InputTypeOK
      <3>2. data' = data \/ (data # <<>> /\ data' = Tail(data))
        BY <1>1 DEF Read, ReadStopped
      <3>3. ASSUME data # <<>>
            PROVE  Tail(data) \in Seq(Record \cup {NoData}) /\ Len(Tail(data)) = Len(data) - 1
        BY <3>1, <3>3
      <3> QED
        BY <3>1, <3>2, <3>3
    <2>3. InputTypeOK'
      BY <2>1, <2>2 DEF InputOK, InputTypeOK
    <2>4. ChosenOK'
      BY <2>1 DEF InputOK, ChosenOK, nextReader, Candidates
    <2> QED
      BY <1>0, <2>1, <2>3, <2>4
      DEF InputOK, ReadersOK, ClosedOK, OffOK, PanicNeedsUnreadable, Follows, Inside, Unreadable, Readable
  <1>2. CASE InputClose
    <2> DEFINE nil == {f \in DOMAIN readers : readers[f] = NoReader}
    <2>1. /\ epc # "off" /\ exit' /\ panicked' = (nil # {})
          /\ readers' = [f \in DOMAIN readers |->
                            IF \E g \in nil : GlobBefore(g, f) THEN readers[f]
                            ELSE [readers[f] EXCEPT !.closed = TRUE]]
          /\ UNCHANGED <<loop, unopened, epc, cur, hand, data, reading, passes, emitted>>
      BY <1>2 DEF InputClose
    <2>2. \A f \in nil : GlobBefore(f, f)
      BY DEF GlobBefore
    <2>3. ASSUME NEW f \in DOMAIN readers
          PROVE  \/ readers'[f] = NoReader /\ Unreadable(f)
                 \/ readers'[f] \in Reader /\ Follows(readers'[f], disk[f]) /\ ~Unreadable(f)
      <3>1. CASE readers'[f] = readers[f]
        BY <3>1 DEF InputOK, ReadersOK
      <3>2. CASE f \notin nil /\ readers'[f] = [readers[f] EXCEPT !.closed = TRUE]
        <4>1. readers[f] \in Reader /\ Follows(readers[f], disk[f]) /\ ~Unreadable(f)
          BY <3>2 DEF InputOK, ReadersOK
        <4>2. PICK q : q = readers'[f]
          OBVIOUS
        <4>3. /\ q \in Reader /\ q.data = readers[f].data /\ q.timestamp = readers[f].timestamp
              /\ q.rest = readers[f].rest /\ q.closed
          BY <3>2, <4>1, <4>2 DEF Reader
        <4>4. Passed(q, disk[f]) = Passed(readers[f], disk[f])
          BY <4>3 DEF Passed
        <4>5. Follows(q, disk[f])
          BY <4>1, <4>3, <4>4 DEF Follows, Inside, Unreadable, Readable
        <4> QED
          BY <4>1, <4>2, <4>3, <4>5
      <3> QED
        BY <2>1, <2>2, <3>1, <3>2
    <2>4. DOMAIN readers' = DOMAIN readers
      BY <2>1
    <2>5. ReadersOK'
      BY <1>0, <2>1, <2>3, <2>4 DEF InputOK, ReadersOK, Follows, Inside, Unreadable, Readable
    <2>6. InputTypeOK'
      <3>1. \A f \in DOMAIN readers' : readers'[f] \in Reader \cup {NoReader}
        BY <2>5 DEF ReadersOK
      <3>2. exit' \in BOOLEAN /\ panicked' \in BOOLEAN
        BY <2>1
      <3> QED
        BY <2>1, <2>4, <3>1, <3>2 DEF InputOK, InputTypeOK
    <2>7. ClosedOK'
      <3> SUFFICES ASSUME ~panicked', NEW f \in DOMAIN readers
                   PROVE  readers'[f] # NoReader /\ readers'[f].closed
        BY <2>4 DEF ClosedOK
      <3>1. nil = {}
        BY <2>1
      <3>2. readers'[f] = [readers[f] EXCEPT !.closed = TRUE]
        BY <2>1, <3>1
      <3>3. readers[f] \in Reader
        BY <3>1 DEF InputOK, ReadersOK
      <3>4. readers'[f] \in Reader /\ readers'[f].closed
        BY <3>2, <3>3 DEF Reader
      <3> QED
        BY <3>4, NoReaderIsNone
    <2>8. PanicNeedsUnreadable'
      <3>1. DOMAIN readers = DOMAIN disk
        BY <2>1 DEF InputOK, ReadersOK
      <3>2. \A f \in DOMAIN disk : f \in nil <=> Unreadable(f)
        BY <3>1, NoReaderIsNone DEF InputOK, ReadersOK
      <3>3. \A f : Unreadable(f)' <=> Unreadable(f)
        BY <1>0, <2>1 DEF Unreadable
      <3> QED
        BY <1>0, <2>1, <3>1, <3>2, <3>3 DEF PanicNeedsUnreadable, Readable
    <2> QED
      BY <2>1, <2>5, <2>6, <2>7, <2>8 DEF InputOK, ChosenOK, OffOK
  <1> QED
    BY <1>1, <1>2

\* The replay begins.
LEMMA StartReplayOK ==
  ASSUME OutputOK, InputOK, StartReplay
  PROVE  InputOK'
  <1>1. /\ epc = "off" /\ epc' \in {"end", "next"} /\ OpenReaders /\ passes' = 1
        /\ loop' \in BOOLEAN /\ UNCHANGED <<gz, disk>>
        /\ UNCHANGED <<cur, hand, data, exit, reading, panicked, emitted>>
    BY DEF StartReplay, NewFileInput, config
  <1>2. ReadersOK'
    BY <1>1, OpenReadersOK DEF ReadersOK, Follows, Inside, Unreadable, Readable
  <1>3. InputTypeOK'
    <2>1. \A f \in DOMAIN readers' : readers'[f] \in Reader \cup {NoReader}
      BY <1>2 DEF ReadersOK
    <2>2. cur' = NoName
      BY <1>1, Empty DEF InputOK, InputTypeOK, OffOK
    <2>3. passes' \in 0 .. MaxPasses
      BY <1>1, InputAssumption DEF InputAssumption
    <2> QED
      BY <1>1, <2>1, <2>2, <2>3, OpenReadersOK DEF InputOK, InputTypeOK
  <1> QED
    BY <1>1, <1>2, <1>3 DEF InputOK, ChosenOK, ClosedOK, OffOK, PanicNeedsUnreadable

\* Recording changes nothing a replay has, and a replay keeps its readers in order.
LEMMA NextInputOK == OutputOK /\ InputOK /\ [Next]_vars => InputOK'
  <1> SUFFICES ASSUME OutputOK, InputOK, [Next]_vars PROVE InputOK'
    OBVIOUS
  <1>1. CASE epc = "off" /\ UNCHANGED inVars
    <2>1. readers = <<>> /\ DOMAIN readers = {} /\ ~panicked /\ ~exit
      BY <1>1, Empty, Zenon DEF InputOK, OffOK
    <2>2. UNCHANGED <<loop, readers, unopened, epc, cur, hand, data, exit, reading, panicked, passes, emitted>>
      BY <1>1 DEF inVars
    <2>3. ReadersOK'
      BY <1>1, <2>1, <2>2 DEF ReadersOK
    <2>4. InputTypeOK' /\ ClosedOK' /\ OffOK'
      BY <2>2 DEF InputOK, InputTypeOK, ClosedOK, OffOK
    <2>5. ChosenOK' /\ PanicNeedsUnreadable'
      BY <1>1, <2>1, <2>2 DEF ChosenOK, PanicNeedsUnreadable
    <2> QED
      BY <2>3, <2>4, <2>5 DEF InputOK
  <1>2. CASE UNCHANGED vars
    BY <1>2
    DEF vars, inVars, outVars, config, fileVars, InputOK, InputTypeOK, ReadersOK, ChosenOK, ClosedOK,
        OffOK, PanicNeedsUnreadable, Follows, Inside, Unreadable, Readable, nextReader, Candidates
  <1> QED
    BY <1>1, <1>2, EmitOK, EmitReadOK, ReadCloseOK, StartReplayOK DEF Next, InputNext, emit

\* What recordings and replays keep to.
LEMMA ReplayAlwaysOK == Spec => [](RecordingOK /\ InputOK)
  <1>1. Init => InputOK
    <2> SUFFICES ASSUME Init PROVE InputOK
      OBVIOUS
    <2>1. readers = <<>> /\ DOMAIN readers = {}
      BY Empty, Zenon DEF Init, InputInit
    <2>2. <<>> \in Seq(Record \cup {NoData}) /\ Len(<<>>) = 0
      OBVIOUS
    <2>3. InputTypeOK
      <3>1. \A x \in Nat : 0 <= x /\ 0 \in 0 .. x
        OBVIOUS
      <3>2. DataCap \in Nat /\ MaxPasses \in Nat /\ MaxEmitted \in Nat
        BY InputAssumption DEF InputAssumption
      <3>3. data = <<>> /\ emitted = <<>> /\ passes = 0 /\ hand = NoData /\ cur = NoName
        BY DEF Init, InputInit
      <3>4. /\ data \in Seq(Record \cup {NoData}) /\ Len(data) <= DataCap
            /\ emitted \in Seq(Record \cup {NoData}) /\ Len(emitted) <= MaxEmitted
            /\ passes \in 0 .. MaxPasses
        BY <2>2, <3>1, <3>2, <3>3, Zenon
      <3> QED
        BY <2>1, <3>3, <3>4 DEF Init, InputInit, InputTypeOK
    <2> QED
      BY <2>1, <2>3
      DEF Init, InputInit, InputOK, ReadersOK, ChosenOK, ClosedOK, OffOK, PanicNeedsUnreadable
  <1> QED
    BY <1>1, NextInputOK, RecordingAlwaysOK, PTL DEF Spec, RecordingOK

(***************************************************************************)
(* For all files, passes and interleavings of emit, Read and Close: a      *)
(* replay that has stopped for Close has closed every file, unless it      *)
(* loops, and Close panics if, and only if, a file has no reader: it could *)
(* not be opened, or is compressed and does not even have a header.        *)
(***************************************************************************)
THEOREM ReplayCloses == Spec => []CloseInv
  <1>1. InputOK => CloseInv
    BY DEF InputOK, ClosedOK, CloseInv, ReadersReleased
  <1> QED
    BY <1>1, ReplayAlwaysOK, PTL
-----------------------------------------------------------------------------
(* The merge                                                                 *)

\* No compressed file lacks its end.
AllEnded == ~(\E f \in DOMAIN disk : Unended(f))

\* Wherever an open reader is, it has passed something as late as every payload
\* that was replayed before.
MergeOK ==
    AllEnded =>
        \A i \in 1 .. Len(emitted) :
            /\ emitted[i] \in Record
            /\ \A f \in Candidates :
                  \E m \in 1 .. Passed(readers[f], disk[f]) : disk[f][m].ts >= emitted[i].ts

\* A payload on disk is where Position says.
LEMMA PositionOf ==
  ASSUME RecordingOK, NEW f \in DOMAIN disk, NEW k \in 1 .. Len(disk[f]), disk[f][k] # Torn
  PROVE  Position(disk[f][k]) = <<f, k>>
  <1>1. PICK r : r = disk[f][k]
    OBVIOUS
  <1>2. \A g \in DOMAIN disk : \A j \in 1 .. Len(disk[g]) : disk[g][j] = r => g = f /\ j = k
    BY <1>1 DEF RecordingOK, RecordedOnce, Once
  <1>3. \A g \in DOMAIN disk : Contains(disk[g], r) <=> g = f
    <2>1. \A g \in DOMAIN disk : Contains(disk[g], r) => g = f
      BY <1>2 DEF Contains
    <2>2. Contains(disk[f], r)
      BY <1>1 DEF Contains
    <2> QED
      BY <2>1, <2>2
  <1>4. (CHOOSE g \in DOMAIN disk : Contains(disk[g], r)) = f
    BY <1>3, Zenon
  <1>5. DOMAIN disk[f] = 1 .. Len(disk[f])
    BY DEF RecordingOK, OutputOK, OutputTypeOK
  <1>6. (CHOOSE i \in DOMAIN disk[f] : disk[f][i] = r) = k
    BY <1>1, <1>2, <1>5, Zenon
  <1> QED
    BY <1>1, <1>4, <1>6, Zenon DEF Position

\* The payload that emit takes is at the place that its reader has reached.
LEMMA ChosenPayload ==
  ASSUME RecordingOK, InputOK, AllEnded, NEW f \in Candidates, epc # "off"
  PROVE  /\ f \in DOMAIN disk /\ readers[f] \in Reader /\ Follows(readers[f], disk[f])
         /\ Passed(readers[f], disk[f]) \in 1 .. Len(disk[f])
         /\ readers[f].data = disk[f][Passed(readers[f], disk[f])]
         /\ readers[f].timestamp = readers[f].data.ts
         /\ readers[f].data \in Record
  <1>1. f \in DOMAIN readers /\ readers[f] # NoReader /\ ~readers[f].closed
    BY DEF Candidates
  <1>2. f \in DOMAIN disk /\ readers[f] \in Reader /\ Follows(readers[f], disk[f])
    BY <1>1 DEF InputOK, ReadersOK
  <1>3. disk[f] \in Seq(Record \cup {Torn}) /\ readers[f].rest \in Seq(Record \cup {Torn})
    BY <1>2 DEF RecordingOK, OutputOK, OutputTypeOK, Reader
  <1>4. PICK k : k = Passed(readers[f], disk[f])
    OBVIOUS
  <1>5. ~(gz /\ Contains(disk[f], Torn))
    BY <1>2 DEF AllEnded, Unended
  <1>6. k \in Nat /\ k > 0
    BY <1>1, <1>2, <1>4, <1>5 DEF Follows, Inside
  <1>7. k <= Len(disk[f])
    <2>1. Len(disk[f]) \in Nat /\ Len(readers[f].rest) \in Nat
      BY <1>3
    <2>2. k = Len(disk[f]) - Len(readers[f].rest)
      BY <1>4 DEF Passed
    <2>3. \A a, b \in Nat : a - b <= a
      OBVIOUS
    <2> QED
      BY <2>1, <2>2, <2>3, Zenon
  <1>8. k \in 1 .. Len(disk[f]) /\ k \in 1 .. k
    <2>1. Len(disk[f]) \in Nat
      BY <1>3
    <2> QED
      BY <1>6, <1>7, <2>1
  <1>9. readers[f].data = disk[f][k] /\ readers[f].timestamp = disk[f][k].ts /\ disk[f][k] # Torn
    BY <1>2, <1>4, <1>6, <1>8 DEF Follows, Inside
  <1>10. disk[f][k] \in Record
    BY <1>3, <1>8, <1>9
  <1> QED
    BY <1>2, <1>4, <1>8, <1>9, <1>10

\* emit reads: of those that are open, its reader has the smallest timestamp.
LEMMA EmitReadMerges ==
  ASSUME RecordingOK, InputOK, MergeOK, MergedByTime, UNCHANGED outVars, EmitRead
  PROVE  MergeOK' /\ MergedByTime'
  <1>0. UNCHANGED <<gz, disk>>
    BY DEF outVars, config, fileVars
  <1>1. /\ epc = "read" /\ ~exit /\ emitted' = Append(emitted, readers[cur].data)
        /\ readers' = [readers EXCEPT ![cur] = parseNext(@)]
    BY DEF EmitRead
  <1>2. AllEnded' <=> AllEnded
    BY <1>0 DEF AllEnded, Unended
  <1>3. CASE ~AllEnded
    <2>1. MergeOK'
      BY <1>2, <1>3 DEF MergeOK
    <2>2. MergedByTime'
      BY <1>2, <1>3 DEF MergedByTime, AllEnded
    <2> QED
      BY <2>1, <2>2
  <1>4. CASE AllEnded
    <2>1. nextReader(cur) /\ cur \in Candidates
      BY <1>1 DEF InputOK, ChosenOK, nextReader
    <2>2. PICK k : k = Passed(readers[cur], disk[cur])
      OBVIOUS
    <2>3. PICK d : d = readers[cur].data
      OBVIOUS
    <2>4. /\ cur \in DOMAIN disk /\ readers[cur] \in Reader /\ Follows(readers[cur], disk[cur])
          /\ k \in 1 .. Len(disk[cur]) /\ d = disk[cur][k] /\ readers[cur].timestamp = d.ts
          /\ d \in Record
      BY <1>1, <1>4, <2>1, <2>2, <2>3, ChosenPayload
    <2>5. PICK n \in Nat : n = Len(emitted)
      BY DEF InputOK, InputTypeOK
    <2>6. /\ Len(emitted') = n + 1 /\ emitted'[n + 1] = d
          /\ \A i \in 1 .. n : emitted'[i] = emitted[i]
      BY <1>1, <2>3, <2>4, <2>5 DEF InputOK, InputTypeOK
    <2>7. \A x \in Record : x.ts \in Nat
      BY Limits DEF Record
    <2>8. \A i \in 1 .. n :
             /\ emitted[i] \in Record
             /\ \A f \in Candidates :
                   \E m \in 1 .. Passed(readers[f], disk[f]) : disk[f][m].ts >= emitted[i].ts
      BY <1>4, <2>5 DEF MergeOK
    <2>9. PICK q : q = parseNext(readers[cur])
      OBVIOUS
    <2>10. q \in Reader /\ Passed(q, disk[cur]) \in Nat /\ Passed(q, disk[cur]) >= k
      <3>1. disk[cur] \in Seq(Record \cup {Torn})
        BY <2>4 DEF RecordingOK, OutputOK, OutputTypeOK
      <3>2. Inside(readers[cur], disk[cur])
        BY <2>4 DEF Follows
      <3> QED
        BY <2>2, <2>4, <2>9, <3>1, <3>2, ParseNextFollows DEF Follows, Inside
    <2>11. /\ DOMAIN readers' = DOMAIN readers /\ readers'[cur] = q
           /\ \A f \in DOMAIN readers \ {cur} : readers'[f] = readers[f]
      BY <1>1, <2>1, <2>9 DEF Candidates
    <2>12. Candidates' \subseteq Candidates
      BY <2>1, <2>11 DEF Candidates
    <2>13. \A f \in Candidates :
              \E m \in 1 .. Passed(readers[f], disk[f]) : disk[f][m].ts >= d.ts
      <3> SUFFICES ASSUME NEW f \in Candidates
                   PROVE  \E m \in 1 .. Passed(readers[f], disk[f]) : disk[f][m].ts >= d.ts
        OBVIOUS
      <3>1. PICK m : m = Passed(readers[f], disk[f])
        OBVIOUS
      <3>2. /\ m \in 1 .. Len(disk[f]) /\ readers[f].data = disk[f][m]
            /\ readers[f].timestamp = disk[f][m].ts /\ disk[f][m] \in Record
        BY <1>1, <1>4, <3>1, ChosenPayload
      <3>3. readers[cur].timestamp <= readers[f].timestamp
        <4>1. readers[cur].timestamp \in Nat /\ readers[f].timestamp \in Nat
          BY <2>4, <2>7, <3>2
        <4> QED
          BY <2>1, <4>1 DEF nextReader
      <3>4. disk[f][m].ts >= d.ts /\ m \in 1 .. m
        BY <2>4, <2>7, <3>2, <3>3
      <3> QED
        BY <3>1, <3>4
    <2>14. ASSUME NEW x \in Record,
                  \A f \in Candidates :
                     \E m \in 1 .. Passed(readers[f], disk[f]) : disk[f][m].ts >= x.ts
           PROVE  \A f \in Candidates' :
                     \E m \in 1 .. Passed(readers'[f], disk[f]) : disk[f][m].ts >= x.ts
      <3> SUFFICES ASSUME NEW f \in Candidates'
                   PROVE  \E m \in 1 .. Passed(readers'[f], disk[f]) : disk[f][m].ts >= x.ts
        OBVIOUS
      <3>1. PICK m \in 1 .. Passed(readers[f], disk[f]) : disk[f][m].ts >= x.ts
        BY <2>12, <2>14
      <3>2. CASE f = cur
        <4>1. m \in 1 .. k
          BY <2>2, <3>1, <3>2
        <4>2. m \in 1 .. Passed(q, disk[cur])
          BY <2>4, <2>10, <4>1
        <4> QED
          BY <2>11, <3>1, <3>2, <4>2
      <3>3. CASE f # cur
        <4>1. readers'[f] = readers[f]
          BY <2>11, <2>12, <3>3 DEF Candidates
        <4> QED
          BY <3>1, <4>1
      <3> QED
        BY <3>2, <3>3
    <2>15. \A i \in 1 .. Len(emitted') : i \in 1 .. n \/ i = n + 1
      BY <2>5, <2>6
    <2>16. \A i \in 1 .. Len(emitted') :
              /\ emitted'[i] \in Record
              /\ \A f \in Candidates' :
                    \E m \in 1 .. Passed(readers'[f], disk[f]) : disk[f][m].ts >= emitted'[i].ts
      <3> SUFFICES ASSUME NEW i \in 1 .. Len(emitted')
                   PROVE  /\ emitted'[i] \in Record
                          /\ \A f \in Candidates' :
                                \E m \in 1 .. Passed(readers'[f], disk[f]) :
                                   disk[f][m].ts >= emitted'[i].ts
        OBVIOUS
      <3>1. CASE i \in 1 .. n
        BY <2>6, <2>8, <2>14, <3>1
      <3>2. CASE i = n + 1
        BY <2>4, <2>6, <2>13, <2>14, <3>2
      <3> QED
        BY <2>15, <3>1, <3>2
    <2>17. MergeOK'
      BY <1>0, <2>16 DEF MergeOK
    <2>18. Position(d) = <<cur, k>>
      BY <2>4, PositionOf, Limits
    <2>19. ASSUME NEW i \in 1 .. n, d.ts < emitted[i].ts
           PROVE  \E m \in 1 .. (k - 1) : disk[cur][m].ts >= emitted[i].ts
      <3>1. PICK m \in 1 .. k : disk[cur][m].ts >= emitted[i].ts
        BY <2>1, <2>2, <2>8
      <3>2. m # k
        <4>1. d.ts \in Nat /\ emitted[i].ts \in Nat
          BY <2>4, <2>7, <2>8
        <4> QED
          BY <2>4, <2>19, <3>1, <4>1
      <3>3. m \in 1 .. (k - 1)
        BY <2>4, <3>1, <3>2
      <3> QED
        BY <3>1, <3>3
    <2>20. MergedByTime'
      <3> SUFFICES ASSUME NEW j \in DOMAIN emitted', NEW i \in 1 .. (j - 1),
                          emitted'[j].ts < emitted'[i].ts
                   PROVE  \E m \in 1 .. ((Position(emitted[j]))'[2] - 1) :
                             disk'[(Position(emitted[j]))'[1]][m].ts >= emitted'[i].ts
        BY DEF MergedByTime
      <3>1. PICK p : p = Position(emitted'[j])
        OBVIOUS
      <3>2. (Position(emitted[j]))' = p
        BY <1>0, <3>1 DEF Position
      <3>3. j \in Int /\ j \in 1 .. Len(emitted') /\ i \in 1 .. n /\ emitted'[i] = emitted[i]
        <4>1. DOMAIN emitted' = 1 .. Len(emitted')
          BY <1>1, <2>3, <2>4 DEF InputOK, InputTypeOK
        <4>2. j \in Int /\ j >= 1 /\ j <= n + 1
          BY <2>6, <4>1
        <4>3. i \in 1 .. n
          BY <4>2
        <4> QED
          BY <2>6, <4>1, <4>2, <4>3
      <3>4. CASE j \in 1 .. n
        <4>1. emitted'[j] = emitted[j] /\ p = Position(emitted[j])
          BY <2>6, <3>1, <3>4
        <4>2. j \in DOMAIN emitted
          BY <2>5, <3>4 DEF InputOK, InputTypeOK
        <4>3. \E m \in 1 .. (p[2] - 1) : disk[p[1]][m].ts >= emitted[i].ts
          BY <1>4, <3>3, <4>1, <4>2 DEF MergedByTime, AllEnded
        <4> QED
          BY <1>0, <3>2, <3>3, <4>3
      <3>5. CASE j = n + 1
        <4>1. p = <<cur, k>> /\ d.ts < emitted[i].ts
          BY <2>6, <2>18, <3>1, <3>3, <3>5
        <4>2. \E m \in 1 .. (k - 1) : disk[cur][m].ts >= emitted[i].ts
          BY <2>19, <3>3, <4>1
        <4> QED
          BY <1>0, <3>2, <3>3, <4>1, <4>2
      <3> QED
        BY <2>15, <3>3, <3>4, <3>5
    <2> QED
      BY <2>17, <2>20
  <1> QED
    BY <1>3, <1>4
\* The other steps replay nothing, and open no reader but at the start of a pass.
LEMMA OthersMerge ==
  ASSUME UNCHANGED <<gz, disk>>, MergeOK, MergedByTime,
         \/ emitted' = <<>>
         \/ emitted' = emitted /\ readers' = readers
         \/ emitted' = emitted /\ InputClose /\ InputOK
  PROVE  MergeOK' /\ MergedByTime'
  <1>1. CASE emitted' = <<>>
    <2>1. Len(emitted') = 0 /\ DOMAIN emitted' = {}
      BY <1>1, Empty
    <2>2. MergeOK'
      BY <2>1 DEF MergeOK
    <2>3. MergedByTime'
      BY <2>1 DEF MergedByTime
    <2> QED
      BY <2>2, <2>3
  <1>2. ASSUME emitted' = emitted PROVE MergedByTime'
    <2> SUFFICES ASSUME AllEnded, NEW j \in DOMAIN emitted', NEW i \in 1 .. (j - 1),
                        emitted'[j].ts < emitted'[i].ts
                 PROVE  \E m \in 1 .. ((Position(emitted[j]))'[2] - 1) :
                           disk'[(Position(emitted[j]))'[1]][m].ts >= emitted'[i].ts
      BY DEF MergedByTime, AllEnded, Unended
    <2>1. PICK p : p = Position(emitted[j])
      OBVIOUS
    <2>2. (Position(emitted[j]))' = p
      BY <1>2, <2>1 DEF Position
    <2>3. \E m \in 1 .. (p[2] - 1) : disk[p[1]][m].ts >= emitted[i].ts
      BY <1>2, <2>1 DEF MergedByTime, AllEnded
    <2> QED
      BY <1>2, <2>2, <2>3
  <1>3. CASE emitted' = emitted /\ readers' = readers
    BY <1>2, <1>3 DEF MergeOK, AllEnded, Unended, Candidates, Passed
  <1>4. CASE emitted' = emitted /\ InputClose /\ InputOK
    <2>1. \A f \in Candidates' : f \in Candidates /\ readers'[f] = readers[f]
      <3> SUFFICES ASSUME NEW f \in Candidates' PROVE f \in Candidates /\ readers'[f] = readers[f]
        OBVIOUS
      <3>1. f \in DOMAIN readers /\ readers'[f] # NoReader /\ ~readers'[f].closed
        BY <1>4 DEF Candidates, InputClose
      <3>2. \/ readers'[f] = readers[f]
            \/ readers[f] \in Reader /\ readers'[f] = [readers[f] EXCEPT !.closed = TRUE]
            \/ readers[f] = NoReader /\ readers'[f] = [readers[f] EXCEPT !.closed = TRUE]
        BY <1>4, <3>1 DEF InputClose, InputOK, ReadersOK
      <3>3. ~(readers[f] \in Reader /\ readers'[f] = [readers[f] EXCEPT !.closed = TRUE])
        BY <3>1 DEF Reader
      <3>4. [NoReader EXCEPT !.closed = TRUE] = NoReader
        BY Empty DEF NoReader
      <3> QED
        BY <3>1, <3>2, <3>3, <3>4 DEF Candidates
    <2>2. MergeOK'
      BY <1>4, <2>1 DEF MergeOK, AllEnded, Unended
    <2> QED
      BY <1>2, <1>4, <2>2
  <1> QED
    BY <1>1, <1>3, <1>4

\* No step breaks the merge.
LEMMA NextMerges ==
  RecordingOK /\ InputOK /\ MergeOK /\ MergedByTime /\ [Next]_vars => MergeOK' /\ MergedByTime'
  <1> SUFFICES ASSUME RecordingOK, InputOK, MergeOK, MergedByTime, [Next]_vars
               PROVE  MergeOK' /\ MergedByTime'
    OBVIOUS
  <1>1. CASE epc = "off" /\ UNCHANGED emitted
    <2>1. emitted' = <<>> /\ Len(emitted') = 0 /\ DOMAIN emitted' = {}
      BY <1>1, Empty DEF InputOK, OffOK
    <2>2. MergeOK'
      BY <2>1 DEF MergeOK
    <2>3. MergedByTime'
      BY <2>1 DEF MergedByTime
    <2> QED
      BY <2>2, <2>3
  <1>2. CASE (epc = "off" /\ OutputNext /\ UNCHANGED inVars) \/ StartReplay
    BY <1>1, <1>2 DEF inVars, StartReplay, NewFileInput
  <1>3. CASE UNCHANGED outVars /\ (InputNext \/ UNCHANGED inVars)
    <2>1. UNCHANGED <<gz, disk>>
      BY <1>3 DEF outVars, config, fileVars
    <2>2. CASE EmitRead
      BY <1>3, <2>2, EmitReadMerges
    <2>3. CASE EmitStopped \/ EmitNext \/ EmitEnd \/ EmitSend \/ Read \/ ReadStopped \/ UNCHANGED inVars
      <3>1. emitted' = emitted /\ readers' = readers
        BY <2>3 DEF EmitStopped, EmitNext, EmitEnd, EmitSend, Read, ReadStopped, inVars
      <3> QED
        BY <2>1, <3>1, OthersMerge
    <2>4. CASE EmitLoop
      BY <2>1, <2>4, OthersMerge DEF EmitLoop
    <2>5. CASE InputClose
      <3>1. emitted' = emitted
        BY <2>5 DEF InputClose
      <3> QED
        BY <2>1, <2>5, <3>1, OthersMerge
    <2> QED
      BY <1>3, <2>2, <2>3, <2>4, <2>5 DEF InputNext, emit
  <1> QED
    BY <1>2, <1>3 DEF Next, vars

(***************************************************************************)
(* For any number of files and payloads, and any timestamps: a replay      *)
(* merges its files by time.  A payload comes after a later one only if    *)
(* its own file holds it back.                                             *)
(***************************************************************************)
THEOREM ReplayMerges == Spec => []MergedByTime
  <1>1. Init => MergeOK /\ MergedByTime
    <2> SUFFICES ASSUME Init PROVE MergeOK /\ MergedByTime
      OBVIOUS
    <2>1. Len(emitted) = 0 /\ DOMAIN emitted = {}
      BY Empty DEF Init, InputInit
    <2> QED
      BY <2>1 DEF MergeOK, MergedByTime
  <1> QED
    BY <1>1, NextMerges, ReplayAlwaysOK, PTL DEF Spec
-----------------------------------------------------------------------------
(* --output-file-queue-limit                                                 *)

\* Where payloads of run n are in s, and how many.
Places(s, n) == {i \in 1 .. Len(s) : s[i] # Torn /\ s[i].run = n}
Count(s, n) == Cardinality(Places(s, n))

Contents == Seq(Record \cup {Torn})

\* A number.
LEMMA CountType ==
  ASSUME NEW s \in Contents, NEW n
  PROVE  IsFiniteSet(Places(s, n)) /\ Count(s, n) \in Nat
  <1>1. Len(s) \in Nat
    BY DEF Contents
  <1>2. IsFiniteSet(1 .. Len(s))
    BY <1>1, FS_Interval
  <1>3. Places(s, n) \subseteq 1 .. Len(s)
    BY DEF Places
  <1>4. IsFiniteSet(Places(s, n))
    BY <1>2, <1>3, FS_Subset
  <1> QED
    BY <1>4, FS_CardinalityType DEF Count

\* A sequence that is continued has lost nothing.
LEMMA CountPrefix ==
  ASSUME NEW s \in Contents, NEW t \in Contents, NEW n
  PROVE  Count(s, n) <= Count(s \o t, n)
  <1>1. s \o t \in Contents /\ Len(s) \in Nat /\ Len(t) \in Nat /\ Len(s \o t) = Len(s) + Len(t)
    BY DEF Contents
  <1>2. \A i \in 1 .. Len(s) : i \in 1 .. Len(s \o t) /\ (s \o t)[i] = s[i]
    BY <1>1 DEF Contents
  <1>3. Places(s, n) \subseteq Places(s \o t, n)
    BY <1>2 DEF Places
  <1>4. IsFiniteSet(Places(s \o t, n))
    BY <1>1, CountType
  <1> QED
    BY <1>3, <1>4, FS_Subset DEF Count

\* One element makes a difference of one at most, and a torn end none.
LEMMA CountAppend ==
  ASSUME NEW s \in Contents, NEW x \in Record \cup {Torn}, NEW n
  PROVE  /\ Count(Append(s, x), n) <= Count(s, n) + 1
         /\ x = Torn => Count(Append(s, x), n) <= Count(s, n)
  <1>1. PICK t : t = Append(s, x)
    OBVIOUS
  <1>2. PICK l \in Nat : l = Len(s)
    BY DEF Contents
  <1>3. t \in Contents /\ Len(t) = l + 1 /\ t[l + 1] = x /\ \A i \in 1 .. l : t[i] = s[i]
    BY <1>1, <1>2 DEF Contents
  <1>4. \A i \in 1 .. (l + 1) : i \in 1 .. l \/ i = l + 1
    BY <1>2
  <1>5. Places(t, n) \subseteq Places(s, n) \cup {l + 1}
    BY <1>2, <1>3, <1>4 DEF Places
  <1>6. IsFiniteSet(Places(s, n)) /\ Count(s, n) \in Nat
    BY CountType
  <1>7. /\ IsFiniteSet(Places(s, n) \cup {l + 1})
        /\ Cardinality(Places(s, n) \cup {l + 1}) <= Count(s, n) + 1
    <2>1. PICK P : P = Places(s, n)
      OBVIOUS
    <2>2. /\ IsFiniteSet(P) /\ Cardinality(P) = Count(s, n) /\ IsFiniteSet(P \cup {l + 1})
          /\ \/ Cardinality(P \cup {l + 1}) = Cardinality(P)
             \/ Cardinality(P \cup {l + 1}) = Cardinality(P) + 1
      BY <1>6, <2>1, FS_AddElement, Zenon DEF Count
    <2> QED
      BY <1>6, <2>1, <2>2
  <1>8. Count(t, n) <= Count(s, n) + 1
    <2>1. Count(t, n) <= Cardinality(Places(s, n) \cup {l + 1})
      BY <1>5, <1>7, FS_Subset DEF Count
    <2>2. Count(t, n) \in Nat /\ Cardinality(Places(s, n) \cup {l + 1}) \in Nat
      BY <1>3, <1>7, CountType, FS_CardinalityType
    <2> QED
      BY <1>6, <1>7, <2>1, <2>2
  <1>9. ASSUME x = Torn PROVE Count(t, n) <= Count(s, n)
    <2>1. Places(t, n) \subseteq Places(s, n)
      BY <1>2, <1>3, <1>4, <1>9 DEF Places
    <2> QED
      BY <1>6, <2>1, FS_Subset DEF Count
  <1> QED
    BY <1>1, <1>8, <1>9

\* What is on disk or in the buffer was written in this run or before.
RunsOK ==
    /\ \A f \in DOMAIN disk : \A i \in 1 .. Len(disk[f]) : disk[f][i] # Torn => disk[f][i].run <= run
    /\ \A j \in 1 .. Len(buffer) : buffer[j].run <= run

\* The Write of w has taken the name of the file that is open.
Taken(w) == (wpc[w] = "set" /\ wname[w] = file) \/ (wpc[w] = "locked" /\ currentName = file)

\* A chunk that may be written to has room: a Write found that before it took the
\* name, and one that fills the chunk while another has it is marked in crowded.
RoomOK ==
    QueueLimit > 0 /\ ~crowded =>
        /\ file # NoName /\ file[2] # Plain =>
              Cardinality(OfThisRun(file)) <= QueueLength /\ QueueLength <= QueueLimit
        /\ file # NoName /\ file[2] # Plain /\ (\E w \in Writers : Taken(w)) => QueueLength < QueueLimit

ChunksOK == RunsOK /\ RoomOK /\ ChunkBounded

\* What a chunk holds is a sequence.
LEMMA HeldType ==
  ASSUME OutputOK, NEW f \in DOMAIN disk
  PROVE  /\ Held(f) \in Contents /\ disk[f] \in Contents /\ buffer \in Contents
         /\ OfThisRun(f) = Places(Held(f), run)
         /\ Cardinality(OfThisRun(f)) = Count(Held(f), run) /\ Count(Held(f), run) \in Nat
         /\ f = file /\ isOpen => Held(f) = disk[f] \o buffer
         /\ ~(f = file /\ isOpen) => Held(f) = disk[f]
  <1>1. disk[f] \in Contents /\ buffer \in Contents
    BY DEF OutputOK, OutputTypeOK, Contents
  <1>2. f = file /\ isOpen => Held(f) = disk[f] \o buffer
    BY DEF Held
  <1>3. ~(f = file /\ isOpen) => Held(f) = disk[f]
    BY <1>1, ConcatEmptySeq DEF Held, Contents
  <1>4. Held(f) \in Contents
    BY <1>1, <1>2, <1>3, ConcatProperties DEF Contents
  <1>5. OfThisRun(f) = Places(Held(f), run)
    BY <1>4, LenProperties DEF OfThisRun, Places, Contents
  <1>6. Count(Held(f), run) \in Nat
    BY <1>4, CountType
  <1> QED
    BY <1>1, <1>2, <1>3, <1>4, <1>5, <1>6 DEF Count

\* What HeldType says, after a step.
LEMMA HeldTypeNext ==
  ASSUME OutputOK', NEW f, f \in DOMAIN disk'
  PROVE  /\ Held(f)' \in Contents /\ disk'[f] \in Contents
         /\ Cardinality(OfThisRun(f))' = Count(Held(f)', run') /\ Count(Held(f)', run') \in Nat
         /\ f = file' /\ isOpen' => Held(f)' = disk'[f] \o buffer'
         /\ ~(f = file' /\ isOpen') => Held(f)' = disk'[f]
  <1>1. disk'[f] \in Contents /\ buffer' \in Contents
    BY DEF OutputOK, OutputTypeOK, Contents
  <1>2. f = file' /\ isOpen' => Held(f)' = disk'[f] \o buffer'
    BY DEF Held
  <1>3. ~(f = file' /\ isOpen') => Held(f)' = disk'[f]
    BY <1>1, ConcatEmptySeq DEF Held, Contents
  <1>4. Held(f)' \in Contents
    BY <1>1, <1>2, <1>3, ConcatProperties DEF Contents
  <1>5. OfThisRun(f)' = Places(Held(f)', run')
    BY <1>4, LenProperties DEF OfThisRun, Places, Contents
  <1>6. Count(Held(f)', run') \in Nat
    BY <1>4, CountType
  <1> QED
    BY <1>1, <1>2, <1>3, <1>4, <1>5, <1>6 DEF Count

\* In a new run no chunk has payloads of it.
LEMMA NewRunChunks ==
  ASSUME OutputOK, OutputOK', ChunksOK, NewFileOutput
  PROVE  ChunksOK'
  <1>1. disk' = disk /\ run' = run + 1 /\ file' = NoName /\ buffer' = <<>> /\ run \in Nat
    BY DEF NewFileOutput, OutputOK, OutputTypeOK
  <1>2. \A x \in Record : x.run \in Nat
    BY Limits DEF Record
  <1>3. \A f \in DOMAIN disk : \A i \in 1 .. Len(disk[f]) :
           disk[f][i] # Torn => disk[f][i].run \in Nat /\ disk[f][i].run <= run
    <2>1. \A f \in DOMAIN disk : \A i \in 1 .. Len(disk[f]) : disk[f][i] \in Record \cup {Torn}
      <3>1. \A f \in DOMAIN disk : disk[f] \in Seq(Record \cup {Torn})
        BY Zenon DEF OutputOK, OutputTypeOK
      <3>2. ASSUME NEW S, NEW q \in Seq(S) PROVE \A i \in 1 .. Len(q) : q[i] \in S
        OBVIOUS
      <3> QED
        BY <3>1, <3>2
    <2> QED
      BY <1>2, <2>1 DEF ChunksOK, RunsOK
  <1>4. RunsOK'
    BY <1>1, <1>3 DEF RunsOK
  <1>5. ASSUME NEW f \in DOMAIN disk PROVE (Cardinality(OfThisRun(f)))' = 0
    <2>1. ~(f = NoName)
      BY NoNameIsNone DEF OutputOK, OutputTypeOK
    <2>2. Held(f)' = disk[f] \o <<>>
      BY <1>1, <2>1 DEF Held
    <2>3. Held(f)' = disk[f]
      BY <2>2, ConcatEmptySeq DEF OutputOK, OutputTypeOK
    <2>4. DOMAIN disk[f] = 1 .. Len(disk[f])
      BY DEF OutputOK, OutputTypeOK
    <2>5. OfThisRun(f)' = {}
      BY <1>1, <1>3, <2>3, <2>4 DEF OfThisRun
    <2> QED
      BY <2>5, FS_EmptySet
  <1>6. ChunkBounded'
    BY <1>1, <1>5, LimitAssumption DEF LimitAssumption, ChunkBounded
  <1> QED
    BY <1>1, <1>4, <1>6 DEF ChunksOK, RoomOK

\* A full chunk is not written to: filename finds another index.
LEMMA FullChunkIsLeft ==
  ASSUME OutputOK, NEW c, LimitReached(QueueLength)
  PROVE  filename(c, QueueLength)[2] = Plain \/ filename(c, QueueLength) \notin DOMAIN disk
  <1>1. \A k : <<stem, k>> \in DOMAIN disk => k \in Indexes
    BY DEF Indexes
  <1>2. Indexes \in SUBSET Int /\ (\A x \in Indexes : x <= Bound) /\ Bound \in Int
    <2>1. Bound \in Nat
      BY BoundType
    <2>2. Indexes \in SUBSET Int /\ \A x \in Indexes : x < Bound
      BY DEF OutputOK, OutputTypeOK, Indexed, Indexes, Name
    <2> QED
      BY <2>1, <2>2
  <1>3. CASE append
    BY <1>3 DEF filename
  <1>4. CASE ~append /\ Indexes \subseteq {Plain}
    <2>1. filename(c, QueueLength) = <<stem, 0>>
      BY <1>4 DEF filename
    <2> QED
      BY <1>1, <1>4, <2>1 DEF Plain
  <1>5. CASE ~append /\ ~(Indexes \subseteq {Plain})
    <2>1. PICK m : m = Max(Indexes)
      OBVIOUS
    <2>2. m \in Int /\ \A x \in Indexes : m >= x
      <3>1. Indexes # {}
        BY <1>5
      <3>2. Max(Indexes) \in Indexes /\ \A x \in Indexes : Max(Indexes) >= x
        BY <1>2, <3>1, MaxOfBounded
      <3> QED
        BY <1>2, <2>1, <3>2, Zenon
    <2>3. filename(c, QueueLength) = <<stem, m + 1>>
      BY <1>5, <2>1 DEF filename
    <2>4. m + 1 \notin Indexes
      <3> SUFFICES ASSUME m + 1 \in Indexes PROVE FALSE
        OBVIOUS
      <3>1. m >= m + 1
        BY <2>2
      <3> QED
        BY <2>2, <3>1
    <2> QED
      BY <1>1, <2>3, <2>4
  <1> QED
    BY <1>3, <1>4, <1>5

\* Names are computed and set, and the date changes.
LEMMA NamesChunks ==
  ASSUME OutputOK, OutputOK', ChunksOK, NamesStep
  PROVE  ChunksOK'
  <1>1. UNCHANGED fileVars /\ run' = run
    BY DEF NamesStep, WriteName, WriteSetName, FlushCheck, FlushName, FlushSetName, Tick
  <1>2. UNCHANGED <<file, isOpen, QueueLength, buffer, disk>>
    BY <1>1 DEF fileVars
  <1>3. crowded => crowded'
    BY DEF NamesStep, WriteName, WriteSetName, FlushCheck, FlushName, FlushSetName, Tick, control,
           history
  <1>4. \A f : Cardinality(OfThisRun(f))' = Cardinality(OfThisRun(f))
    BY <1>1, <1>2 DEF OfThisRun, Held
  <1>5. RunsOK' /\ ChunkBounded'
    BY <1>1, <1>2, <1>3, <1>4 DEF ChunksOK, RunsOK, ChunkBounded
  <1>6. RoomOK'
    <2> SUFFICES ASSUME QueueLimit > 0, ~crowded', file # NoName, file[2] # Plain
                 PROVE  /\ Cardinality(OfThisRun(file)) <= QueueLength /\ QueueLength <= QueueLimit
                        /\ (\E v \in Writers : Taken(v)') => QueueLength < QueueLimit
      BY <1>2, <1>4 DEF RoomOK
    <2>1. ~crowded
      BY <1>3
    <2>2. /\ Cardinality(OfThisRun(file)) <= QueueLength /\ QueueLength <= QueueLimit
          /\ (\E v \in Writers : Taken(v)) => QueueLength < QueueLimit
      BY <2>1, Zenon DEF ChunksOK, RoomOK
    <2> SUFFICES ASSUME NEW v \in Writers, Taken(v)' PROVE QueueLength < QueueLimit
      BY <2>2
    <2>9. QueueLength \in Nat /\ QueueLimit \in Nat
      BY LimitAssumption DEF LimitAssumption, OutputOK, OutputTypeOK
    <2>3. ASSUME NEW w \in Writers, WriteName(w) PROVE QueueLength < QueueLimit
      <3>1. /\ wname' = [wname EXCEPT ![w] = filename(currentName, QueueLength)]
            /\ wpc' = [wpc EXCEPT ![w] = "set"] /\ currentName' = currentName
        BY <2>3 DEF WriteName
      <3>2. CASE v = w
        <4>1. filename(currentName, QueueLength) = file
          BY <1>2, <3>1, <3>2 DEF Taken, OutputOK, OutputTypeOK
        <4>2. file \in DOMAIN disk
          BY DEF OutputOK, Started
        <4>3. ~LimitReached(QueueLength)
          BY <4>1, <4>2, FullChunkIsLeft
        <4> QED
          BY <2>9, <4>3 DEF LimitReached
      <3>3. CASE v # w
        <4>1. Taken(v)
          BY <1>2, <3>1, <3>3 DEF Taken, OutputOK, OutputTypeOK
        <4> QED
          BY <2>2, <4>1
      <3> QED
        BY <3>2, <3>3
    <2>4. ASSUME NEW w \in Writers, WriteSetName(w) PROVE QueueLength < QueueLimit
      <3>1. /\ wpc[w] = "set" /\ currentName' = wname[w] /\ wname' = [wname EXCEPT ![w] = NoName]
            /\ wpc' = [wpc EXCEPT ![w] = "locked"]
        BY <2>4 DEF WriteSetName
      <3>2. Taken(v) \/ Taken(w)
        BY <1>2, <3>1 DEF Taken, OutputOK, OutputTypeOK
      <3> QED
        BY <2>2, <3>2
    <2>5. CASE FlushCheck \/ FlushName \/ Tick
      <3>1. UNCHANGED <<wpc, wname, currentName>>
        BY <2>5 DEF FlushCheck, FlushName, Tick, nameVars, control
      <3> QED
        BY <1>2, <2>2, <3>1 DEF Taken
    <2>6. CASE FlushSetName
      <3>1. wpc' = wpc /\ wname' = wname /\ currentName' = fname
        BY <2>6 DEF FlushSetName
      <3>2. CASE Taken(v)
        BY <2>2, <3>2
      <3>3. CASE wpc[v] = "locked" /\ fname = file
        <4>1. ~(fname = file /\ QueueLength >= QueueLimit)
          BY <2>6, <3>3 DEF FlushSetName
        <4> QED
          BY <2>9, <3>3, <4>1
      <3> QED
        BY <1>2, <3>1, <3>2, <3>3 DEF Taken
    <2> QED
      BY <2>3, <2>4, <2>5, <2>6 DEF NamesStep
  <1> QED
    BY <1>5, <1>6 DEF ChunksOK

\* The runs of what a flush writes.
LEMMA FlushedRuns ==
  ASSUME OutputOK, RunsOK
  PROVE  \A f \in DOMAIN disk : \A i \in 1 .. Len(Flushed(disk)[f]) :
            Flushed(disk)[f][i] # Torn => Flushed(disk)[f][i].run <= run
  <1> SUFFICES ASSUME NEW f \in DOMAIN disk, NEW i \in 1 .. Len(Flushed(disk)[f]),
                      Flushed(disk)[f][i] # Torn
               PROVE  Flushed(disk)[f][i].run <= run
    OBVIOUS
  <1>1. disk[f] \in Seq(Record \cup {Torn}) /\ buffer \in Seq(Record \cup {Torn})
    BY DEF OutputOK, OutputTypeOK
  <1>2. CASE Flushed(disk)[f] = disk[f]
    BY <1>2 DEF RunsOK
  <1>3. CASE Flushed(disk)[f] = disk[f] \o buffer
    <2>1. Len(disk[f]) \in Nat /\ Len(buffer) \in Nat /\ i \in 1 .. (Len(disk[f]) + Len(buffer))
      BY <1>1, <1>3
    <2>2. CASE i <= Len(disk[f])
      <3>1. i \in 1 .. Len(disk[f]) /\ Flushed(disk)[f][i] = disk[f][i]
        BY <1>1, <1>3, <2>1, <2>2
      <3> QED
        BY <3>1 DEF RunsOK
    <2>3. CASE ~(i <= Len(disk[f]))
      <3>1. i - Len(disk[f]) \in 1 .. Len(buffer) /\ Flushed(disk)[f][i] = buffer[i - Len(disk[f])]
        BY <1>1, <1>3, <2>1, <2>3
      <3> QED
        BY <3>1 DEF RunsOK
    <2> QED
      BY <2>2, <2>3
  <1> QED
    BY <1>2, <1>3 DEF Flushed

\* Flushing moves payloads within the chunk that holds them.
LEMMA FlushedHeld ==
  ASSUME OutputOK, NEW f \in DOMAIN disk
  PROVE  Flushed(disk)[f] = Held(f)
  <1>1. CASE file # NoName /\ isOpen
    <2>1. file \in DOMAIN disk
      BY <1>1 DEF OutputOK, Started
    <2>2. Flushed(disk)[f] = IF f = file THEN disk[f] \o buffer ELSE disk[f]
      BY <1>1, <2>1 DEF Flushed
    <2> QED
      BY <1>1, <2>2, HeldType
  <1>2. CASE ~(file # NoName /\ isOpen)
    <2>1. f # NoName
      BY NoNameIsNone DEF OutputOK, OutputTypeOK
    <2>2. ~(f = file /\ isOpen)
      BY <1>2, <2>1
    <2> QED
      BY <1>2, <2>2, HeldType DEF Flushed
  <1> QED
    BY <1>1, <1>2

\* Flush, Close and the end of the process: no chunk grows.
LEMMA EndChunks ==
  ASSUME OutputOK, OutputOK', ChunksOK, Flush \/ Close \/ Exit
  PROVE  ChunksOK'
  <1>1. /\ run' = run /\ crowded' = crowded /\ DOMAIN disk' = DOMAIN disk
        /\ (file' = file /\ QueueLength' = QueueLength) \/ (file' = NoName /\ Exit)
    <2>1. DOMAIN Flushed(disk) = DOMAIN disk
      BY FlushedType
    <2> QED
      BY <2>1 DEF Flush, Close, Exit, Ends, Left, control, history
  <1>2. ASSUME NEW f \in DOMAIN disk
        PROVE  /\ Count(Held(f), run)' <= Count(Held(f), run)
               /\ \A i \in 1 .. Len(disk'[f]) : disk'[f][i] # Torn => disk'[f][i].run <= run
    <2>0. /\ Held(f) \in Contents /\ disk[f] \in Contents /\ buffer \in Contents
          /\ Count(Held(f), run) \in Nat
      BY HeldType
    <2>1. (/\ f = file /\ isOpen => Held(f) = disk[f] \o buffer
           /\ ~(f = file /\ isOpen) => Held(f) = disk[f])'
      <3>1. disk'[f] \in Seq(Record \cup {Torn})
        BY <1>1 DEF OutputOK, OutputTypeOK
      <3> QED
        BY <3>1, ConcatEmptySeq DEF Held
    <2>2. ASSUME Held(f)' = Held(f) PROVE Count(Held(f), run)' <= Count(Held(f), run)
      <3>1. Count(Held(f), run)' = Count(Held(f), run)
        BY <1>1, <2>2 DEF Count, Places
      <3> QED
        BY <2>0, <3>1
    <2>3. CASE Flush
      <3>1. CASE file = NoName \/ ~isOpen
        <4>1. UNCHANGED <<file, isOpen, disk, buffer>>
          BY <2>3, <3>1 DEF Flush, Flushed
        <4>2. Held(f)' = Held(f)
          BY <4>1 DEF Held
        <4> QED
          BY <2>2, <4>1, <4>2 DEF ChunksOK, RunsOK
      <3>2. CASE file # NoName /\ isOpen
        <4>1. disk' = Flushed(disk) /\ buffer' = <<>>
          BY <2>3, <3>2 DEF Flush
        <4>2. disk'[f] = Held(f)
          BY <4>1, FlushedHeld
        <4>3. Held(f) \o <<>> = Held(f)
          BY <2>0, ConcatEmptySeq DEF Contents
        <4>4. Held(f)' = Held(f)
          BY <2>1, <4>1, <4>2, <4>3
        <4> QED
          BY <2>2, <4>1, <4>4, FlushedRuns DEF ChunksOK
      <3> QED
        BY <3>1, <3>2
    <2>4. CASE Close
      <3>1. CASE limited
        <4>1. UNCHANGED <<file, isOpen, disk, buffer>>
          BY <2>4, <3>1 DEF Close
        <4>2. Held(f)' = Held(f)
          BY <4>1 DEF Held
        <4> QED
          BY <2>2, <4>1, <4>2 DEF ChunksOK, RunsOK
      <3>2. CASE ~limited
        <4>1. disk' = Flushed(disk) /\ ~isOpen'
          BY <2>4, <3>2 DEF Close
        <4>2. disk'[f] = Held(f)
          BY <4>1, FlushedHeld
        <4>3. Held(f)' = Held(f)
          BY <2>1, <4>1, <4>2
        <4> QED
          BY <2>2, <4>1, <4>3, FlushedRuns DEF ChunksOK
      <3> QED
        BY <3>1, <3>2
    <2>5. CASE Exit
      <3>1. ~isOpen' /\ (disk'[f] = disk[f] \/ disk'[f] = Append(disk[f], Torn))
        BY <2>5 DEF Exit, Ends, Left
      <3>2. Held(f)' = disk'[f]
        BY <2>1, <3>1
      <3>3. Count(disk[f], run) <= Count(Held(f), run) /\ Count(disk[f], run) \in Nat
        <4>1. Count(disk[f], run) \in Nat /\ Count(disk[f], run) <= Count(disk[f] \o buffer, run)
          BY <2>0, CountPrefix, CountType
        <4>2. Held(f) = disk[f] \o buffer \/ Held(f) = disk[f]
          BY HeldType
        <4>3. CASE Held(f) = disk[f]
          BY <4>1, <4>3
        <4> QED
          BY <4>1, <4>2, <4>3
      <3>4. Count(disk'[f], run) <= Count(disk[f], run)
        <4>1. CASE disk'[f] = disk[f]
          BY <3>3, <4>1
        <4>2. CASE disk'[f] = Append(disk[f], Torn)
          <5>1. Count(Append(disk[f], Torn), run) <= Count(disk[f], run)
            BY <2>0, CountAppend
          <5> QED
            BY <4>2, <5>1
        <4> QED
          BY <3>1, <4>1, <4>2
      <3>5. Count(disk'[f], run) \in Nat
        <4>1. disk'[f] \in Contents
          BY <1>1 DEF OutputOK, OutputTypeOK, Contents
        <4> QED
          BY <4>1, CountType
      <3>6. Count(Held(f), run)' = Count(disk'[f], run)
        BY <1>1, <3>2 DEF Count, Places
      <3>7. \A i \in 1 .. Len(disk'[f]) : disk'[f][i] # Torn => disk'[f][i].run <= run
        <4>1. \A i \in 1 .. Len(disk'[f]) :
                 disk'[f][i] = Torn \/ (i \in 1 .. Len(disk[f]) /\ disk'[f][i] = disk[f][i])
          <5>1. CASE disk'[f] = disk[f]
            BY <5>1
          <5>2. CASE disk'[f] = Append(disk[f], Torn)
            <6>1. /\ Len(disk'[f]) = Len(disk[f]) + 1 /\ disk'[f][Len(disk[f]) + 1] = Torn
                  /\ \A i \in 1 .. Len(disk[f]) : disk'[f][i] = disk[f][i]
                  /\ Len(disk[f]) \in Nat
              BY <2>0, <5>2 DEF Contents
            <6>2. \A n \in Nat : \A i \in 1 .. (n + 1) : i \in 1 .. n \/ i = n + 1
              OBVIOUS
            <6> QED
              BY <6>1, <6>2
          <5> QED
            BY <3>1, <5>1, <5>2
        <4> QED
          BY <4>1 DEF ChunksOK, RunsOK
      <3> QED
        BY <2>0, <3>3, <3>4, <3>5, <3>6, <3>7
    <2> QED
      BY <2>3, <2>4, <2>5
  <1>3. ASSUME NEW f \in DOMAIN disk
        PROVE  /\ Cardinality(OfThisRun(f)) = Count(Held(f), run) /\ Count(Held(f), run) \in Nat
               /\ Cardinality(OfThisRun(f))' = Count(Held(f), run)' /\ Count(Held(f), run)' \in Nat
    <2>1. (Held(f) \in Contents)'
      BY <1>1, HeldTypeNext
    <2>2. OfThisRun(f)' = Places(Held(f), run)'
      BY <2>1, LenProperties DEF OfThisRun, Places, Contents
    <2>3. Count(Held(f), run)' \in Nat
      BY <2>1, CountType DEF Count, Places
    <2> QED
      BY <2>2, <2>3, HeldType DEF Count
  <1>4. RunsOK'
    <2>1. buffer' = buffer \/ buffer' = <<>>
      BY DEF Flush, Close, Exit, Ends
    <2>2. \A j \in 1 .. Len(buffer') : buffer'[j].run <= run
      BY <2>1 DEF ChunksOK, RunsOK
    <2> QED
      BY <1>1, <1>2, <2>2 DEF RunsOK
  <1>5. ASSUME NEW f \in DOMAIN disk, NEW n \in Nat, Cardinality(OfThisRun(f)) <= n
        PROVE  Cardinality(OfThisRun(f))' <= n
    <2>1. PICK a \in Nat : a = Count(Held(f), run)
      BY <1>3
    <2>2. PICK b \in Nat : b = Count(Held(f), run)'
      BY <1>3
    <2>3. b <= a /\ a <= n
      BY <1>2, <1>3, <1>5, <2>1, <2>2
    <2>4. b <= n
      BY <2>3
    <2> QED
      BY <1>3, <2>2, <2>4
  <1>6. QueueLength \in Nat /\ QueueLimit \in Nat
    BY LimitAssumption DEF LimitAssumption, OutputOK, OutputTypeOK
  <1>7. ChunkBounded'
    <2> SUFFICES ASSUME QueueLimit > 0, ~crowded, NEW f \in DOMAIN disk, f[2] # Plain
                 PROVE  Cardinality(OfThisRun(f))' <= QueueLimit
      BY <1>1 DEF ChunkBounded
    <2>1. Cardinality(OfThisRun(f)) <= QueueLimit
      BY DEF ChunksOK, ChunkBounded
    <2> QED
      BY <1>5, <1>6, <2>1
  <1>8. RoomOK'
    <2>1. CASE file' = NoName
      BY <2>1 DEF RoomOK
    <2>2. CASE file' = file /\ QueueLength' = QueueLength /\ ~Exit
      <3>1. UNCHANGED <<wpc, wname, currentName>>
        BY <2>2 DEF Flush, Close, nameVars, control
      <3>2. ASSUME file # NoName PROVE file \in DOMAIN disk
        BY <3>2 DEF OutputOK, Started
      <3>3. ASSUME QueueLimit > 0, ~crowded, file # NoName, file[2] # Plain
            PROVE  (Cardinality(OfThisRun(file)))' <= QueueLength
        <4>1. Cardinality(OfThisRun(file)) <= QueueLength
          BY <3>3, Zenon DEF ChunksOK, RoomOK
        <4>2. PICK f : f = file /\ f = file'
          BY <2>2
        <4>3. Cardinality(OfThisRun(f))' <= QueueLength
          BY <1>5, <1>6, <3>2, <3>3, <4>1, <4>2
        <4>4. OfThisRun(f)' = OfThisRun(file)'
          BY <4>2 DEF OfThisRun, Held
        <4> QED
          BY <4>3, <4>4
      <3> QED
        BY <1>1, <2>2, <3>1, <3>3 DEF ChunksOK, RoomOK, Taken
    <2>3. Exit => file' = NoName
      BY DEF Exit, Ends
    <2> QED
      BY <1>1, <2>1, <2>2, <2>3
  <1> QED
    BY <1>4, <1>7, <1>8 DEF ChunksOK

\* Write: the chunk it writes to is new, or had room.
LEMMA WriteLockedChunks ==
  ASSUME OutputOK, OutputOK', ChunksOK, NEW w \in Writers, NEW ts \in Stamp, WriteLocked(w, ts)
  PROVE  ChunksOK'
  <1>1. PICK rec : rec = [id |-> ids + 1, run |-> run, ts |-> ts]
    OBVIOUS
  <1>2. rec \in Record /\ rec.run = run /\ run \in Nat
    BY <1>1, Limits DEF Record, OutputOK, OutputTypeOK, Started, WriteLocked, Reopens
  <1>3. /\ run' = run /\ (crowded => crowded') /\ file' = currentName /\ wpc[w] = "locked"
        /\ currentName \in Name
    BY DEF WriteLocked, Reopens, OutputOK, Started
  <1>a. ASSUME ~crowded', NEW v \in Writers, Taken(v)' PROVE QueueLength' < QueueLimit
    <2>1. /\ wname' = wname /\ currentName' = currentName
          /\ wpc'[w] \in {"idle", "error"} /\ \A x \in Writers \ {w} : wpc'[x] = wpc[x]
      BY DEF WriteLocked, nameVars, OutputOK, OutputTypeOK
    <2>2. v # w /\ Shares(v)
      BY <1>3, <1>a, <2>1 DEF Taken, Shares
    <2>3. ~(QueueLength' >= QueueLimit)
      BY <1>a, <2>2 DEF WriteLocked
    <2>4. QueueLength' \in Nat /\ QueueLimit \in Nat
      BY LimitAssumption DEF LimitAssumption, OutputOK, OutputTypeOK
    <2> QED
      BY <2>3, <2>4
  <1>4. /\ QueueLength \in Nat /\ QueueLimit \in Nat
        /\ \A s \in Contents : Count(s, run) \in Nat
    BY LimitAssumption, CountType DEF LimitAssumption, OutputOK, OutputTypeOK
  <1>5. ASSUME NEW f \in DOMAIN disk, f \in DOMAIN disk', Held(f)' = Held(f)
        PROVE  Cardinality(OfThisRun(f))' = Cardinality(OfThisRun(f))
    BY <1>3, <1>5, HeldType, HeldTypeNext
  <1>6. DOMAIN Flushed(disk) = DOMAIN disk /\ \A f \in DOMAIN disk : Flushed(disk)[f] = Held(f)
    BY FlushedType, FlushedHeld
  <1>7. CASE file = NoName \/ currentName # file
    <2>1. disk' = With(Flushed(disk), currentName, <<>>) /\ buffer' = Buffered(<<>>, rec)
      BY <1>1, <1>7 DEF WriteLocked, Reopens
    <2>a. isOpen'
      BY <1>7 DEF WriteLocked, Reopens
    <2>b. QueueLength' = 1
      BY <1>7 DEF WriteLocked, Reopens
    <2>2. buffer' = Append(<<>>, rec) \/ buffer' = <<rec>>
      BY <2>1 DEF Buffered
    <2>3. buffer' = <<rec>> /\ <<>> \in Contents
      BY <2>2 DEF Contents
    <2>4. /\ DOMAIN disk' = DOMAIN disk \cup {currentName} /\ disk'[currentName] = <<>>
          /\ \A f \in DOMAIN disk' \ {currentName} : f \in DOMAIN disk /\ disk'[f] = Held(f)
      BY <1>6, <2>1 DEF With
    <2>5. \A f \in DOMAIN disk' \ {currentName} :
             f \in DOMAIN disk /\ Cardinality(OfThisRun(f))' = Cardinality(OfThisRun(f))
      <3> SUFFICES ASSUME NEW f \in DOMAIN disk' \ {currentName}
                   PROVE  Cardinality(OfThisRun(f))' = Cardinality(OfThisRun(f))
        BY <2>4
      <3>1. Held(f)' = disk'[f]
        BY <1>3, HeldTypeNext
      <3> QED
        BY <1>5, <2>4, <3>1
    <2>6. PICK c : c = currentName
      OBVIOUS
    <2>7. c \in DOMAIN disk' /\ c = file' /\ disk'[c] = <<>>
      BY <1>3, <2>4, <2>6
    <2>8. Cardinality(OfThisRun(c))' <= 1
      <3>2. Held(c)' = <<>> \o <<rec>>
        BY <2>a, <2>3, <2>7, HeldTypeNext
      <3>3. <<>> \o <<rec>> = Append(<<>>, rec)
        OBVIOUS
      <3>4. Count(Append(<<>>, rec), run) <= Count(<<>>, run) + 1
        BY <1>2, <2>3, CountAppend
      <3>5. Count(<<>>, run) = 0
        <4>1. Places(<<>>, run) = {}
          BY DEF Places
        <4> QED
          BY <4>1, FS_EmptySet DEF Count
      <3>6. Count(Held(c)', run') <= 1
        BY <1>3, <3>2, <3>3, <3>4, <3>5
      <3> QED
        BY <2>7, <3>6, HeldTypeNext
    <2>9. OfThisRun(file)' = OfThisRun(c)'
      BY <2>7 DEF OfThisRun, Held
    <2>10. RunsOK'
      <3>1. \A f \in DOMAIN disk' : \A i \in 1 .. Len(disk'[f]) :
               disk'[f][i] # Torn => disk'[f][i].run <= run
        <4> SUFFICES ASSUME NEW f \in DOMAIN disk', NEW i \in 1 .. Len(disk'[f]), disk'[f][i] # Torn
                     PROVE  disk'[f][i].run <= run
          OBVIOUS
        <4>1. f # currentName
          BY <2>4
        <4>2. f \in DOMAIN disk /\ disk'[f] = Flushed(disk)[f]
          BY <1>6, <2>4, <4>1
        <4> QED
          BY <4>2, FlushedRuns DEF ChunksOK
      <3>2. \A j \in 1 .. Len(buffer') : buffer'[j].run <= run
        <4>1. Len(buffer') = 1 /\ buffer'[1] = rec
          BY <2>3
        <4>2. \A j \in 1 .. 1 : j = 1
          OBVIOUS
        <4> QED
          BY <1>2, <4>1, <4>2
      <3> QED
        BY <1>3, <3>1, <3>2 DEF RunsOK
    <2>11. RoomOK'
      <3>1. ~crowded' => \A v \in Writers : Taken(v)' => QueueLength' < QueueLimit
        BY <1>a
      <3>2. QueueLimit > 0 => QueueLength' <= QueueLimit
        BY <1>4, <2>b
      <3>3. Cardinality(OfThisRun(file))' <= QueueLength'
        BY <2>b, <2>8, <2>9
      <3> QED
        BY <3>1, <3>2, <3>3 DEF RoomOK
    <2>12. ChunkBounded'
      <3> SUFFICES ASSUME QueueLimit > 0, ~crowded, NEW f \in DOMAIN disk', f[2] # Plain
                   PROVE  Cardinality(OfThisRun(f))' <= QueueLimit
        BY <1>3 DEF ChunkBounded
      <3>1. CASE f = c
        <4>1. PICK n \in Nat : n = Cardinality(OfThisRun(f))'
          BY HeldTypeNext
        <4>2. n <= 1
          <5>1. OfThisRun(f)' = OfThisRun(c)'
            BY <3>1 DEF OfThisRun, Held
          <5> QED
            BY <2>8, <4>1, <5>1
        <4>3. n <= QueueLimit
          BY <1>4, <4>2
        <4> QED
          BY <4>1, <4>3
      <3>2. CASE f # c
        <4>1. f \in DOMAIN disk /\ Cardinality(OfThisRun(f))' = Cardinality(OfThisRun(f))
          BY <2>5, <2>6, <3>2
        <4>2. Cardinality(OfThisRun(f)) <= QueueLimit
          BY <4>1 DEF ChunksOK, ChunkBounded
        <4> QED
          BY <4>1, <4>2
      <3> QED
        BY <3>1, <3>2
    <2> QED
      BY <2>10, <2>11, <2>12 DEF ChunksOK
  <1>8. CASE ~(file = NoName \/ currentName # file)
    <2>1. \/ disk' = Flushed(disk) /\ buffer' = <<rec>>
          \/ disk' = disk /\ buffer' = Append(buffer, rec)
      <3>1. CASE Len(buffer) = BufCap
        BY <1>1, <1>8, <3>1 DEF WriteLocked, Reopens, Buffered
      <3>2. CASE Len(buffer) # BufCap
        BY <1>1, <1>8, <3>2 DEF WriteLocked, Reopens, Buffered
      <3> QED
        BY <3>1, <3>2
    <2>2. isOpen' <=> isOpen
      BY <1>8 DEF WriteLocked, Reopens
    <2>3. QueueLength' = QueueLength + 1
      BY <1>8 DEF WriteLocked, Reopens
    <2>4. file' = file /\ DOMAIN disk' = DOMAIN disk /\ file \in DOMAIN disk
      BY <1>3, <1>6, <1>8, <2>1 DEF OutputOK, Started
    <2>5. PICK c : c = file
      OBVIOUS
    <2>6. ASSUME NEW f \in DOMAIN disk, ~(f = file /\ isOpen)
          PROVE  Held(f)' = Held(f)
      <3>1. Held(f)' = disk'[f]
        BY <2>2, <2>4, <2>6, HeldTypeNext
      <3>2. Held(f) = disk[f]
        BY <2>6, HeldType
      <3> QED
        BY <1>6, <2>1, <3>1, <3>2
    <2>7. ASSUME isOpen PROVE Held(c)' = Append(Held(c), rec)
      <3>1. Held(c) = disk[c] \o buffer /\ Held(c) \in Contents /\ disk[c] \in Contents /\ buffer \in Contents
        BY <2>4, <2>5, <2>7, HeldType
      <3>2. Held(c)' = disk'[c] \o buffer'
        BY <2>2, <2>4, <2>5, <2>7, HeldTypeNext
      <3>3. \A s \in Contents : s \o <<rec>> = Append(s, rec)
        BY <1>2 DEF Contents
      <3>4. \A s, t \in Contents : s \o Append(t, rec) = Append(s \o t, rec)
        BY <1>2 DEF Contents
      <3>5. CASE disk' = Flushed(disk) /\ buffer' = <<rec>>
        <4>1. disk'[c] = Held(c)
          BY <1>6, <2>4, <2>5, <3>5
        <4> QED
          BY <3>1, <3>2, <3>3, <3>5, <4>1
      <3>6. CASE disk' = disk /\ buffer' = Append(buffer, rec)
        BY <3>1, <3>2, <3>4, <3>6
      <3> QED
        BY <2>1, <3>5, <3>6
    <2>8. Cardinality(OfThisRun(c))' <= Cardinality(OfThisRun(c)) + 1
      <3>1. /\ Cardinality(OfThisRun(c)) = Count(Held(c), run) /\ Count(Held(c), run) \in Nat
            /\ Held(c) \in Contents
        BY <2>4, <2>5, HeldType
      <3>2. Cardinality(OfThisRun(c))' = Count(Held(c)', run)
        BY <1>3, <2>4, <2>5, HeldTypeNext
      <3>3. CASE isOpen
        <4>1. Count(Append(Held(c), rec), run) <= Count(Held(c), run) + 1
          BY <1>2, <3>1, CountAppend
        <4> QED
          BY <2>7, <3>1, <3>2, <3>3, <4>1
      <3>4. CASE ~isOpen
        <4>1. Held(c)' = Held(c)
          BY <2>4, <2>5, <2>6, <3>4
        <4> QED
          BY <3>1, <3>2, <4>1
      <3> QED
        BY <3>3, <3>4
    <2>9. OfThisRun(file)' = OfThisRun(c)'
      <3>1. c = file'
        BY <2>4, <2>5
      <3> QED
        BY <3>1 DEF OfThisRun, Held
    <2>10. RunsOK'
      <3>1. \A f \in DOMAIN disk' : \A i \in 1 .. Len(disk'[f]) :
               disk'[f][i] # Torn => disk'[f][i].run <= run
        BY <1>6, <2>1, FlushedRuns DEF ChunksOK, RunsOK
      <3>2. \A j \in 1 .. Len(buffer') : buffer'[j].run <= run
        <4>1. CASE buffer' = <<rec>>
          <5>1. Len(buffer') = 1 /\ buffer'[1] = rec
            BY <4>1
          <5>2. \A j \in 1 .. 1 : j = 1
            OBVIOUS
          <5> QED
            BY <1>2, <5>1, <5>2
        <4>2. CASE buffer' = Append(buffer, rec)
          <5>0. buffer \in Seq(Record)
            BY DEF OutputOK, OutputTypeOK
          <5>1. PICK n \in Nat : n = Len(buffer)
            BY <5>0
          <5>2. Len(buffer') = n + 1 /\ buffer'[n + 1] = rec /\ \A j \in 1 .. n : buffer'[j] = buffer[j]
            BY <1>2, <4>2, <5>1 DEF OutputOK, OutputTypeOK
          <5>3. \A j \in 1 .. (n + 1) : j \in 1 .. n \/ j = n + 1
            OBVIOUS
          <5>4. \A j \in 1 .. n : buffer[j].run <= run
            BY <5>1 DEF ChunksOK, RunsOK
          <5> QED
            BY <1>2, <5>2, <5>3, <5>4
        <4> QED
          BY <2>1, <4>1, <4>2
      <3> QED
        BY <1>3, <3>1, <3>2 DEF RunsOK
    <2>11. ASSUME QueueLimit > 0, ~crowded, file[2] # Plain
           PROVE  /\ Cardinality(OfThisRun(c))' <= QueueLength + 1
                  /\ QueueLength + 1 <= QueueLimit
                  /\ Cardinality(OfThisRun(c))' <= QueueLimit
      <3>1. Taken(w)
        BY <1>3, <1>8 DEF Taken
      <3>2. Cardinality(OfThisRun(file)) <= QueueLength /\ QueueLength < QueueLimit
        BY <1>8, <2>11, <3>1, Zenon DEF ChunksOK, RoomOK
      <3>3. PICK a \in Nat : a = Cardinality(OfThisRun(c))
        BY <2>4, <2>5, HeldType
      <3>4. PICK b \in Nat : b = Cardinality(OfThisRun(c))'
        BY <2>4, <2>5, HeldTypeNext
      <3>5. b <= a + 1 /\ a <= QueueLength
        BY <2>5, <2>8, <3>2, <3>3, <3>4
      <3>6. b <= QueueLength + 1 /\ QueueLength + 1 <= QueueLimit /\ b <= QueueLimit
        BY <1>4, <3>2, <3>5
      <3> QED
        BY <3>4, <3>6
    <2>12. RoomOK'
      <3>1. ~crowded' => \A v \in Writers : Taken(v)' => QueueLength' < QueueLimit
        BY <1>a
      <3> SUFFICES ASSUME QueueLimit > 0, ~crowded, file[2] # Plain
                   PROVE  Cardinality(OfThisRun(file))' <= QueueLength' /\ QueueLength' <= QueueLimit
        BY <1>3, <2>4, <3>1 DEF RoomOK
      <3> QED
        BY <2>3, <2>9, <2>11
    <2>13. ChunkBounded'
      <3> SUFFICES ASSUME QueueLimit > 0, ~crowded, NEW f \in DOMAIN disk, f[2] # Plain
                   PROVE  Cardinality(OfThisRun(f))' <= QueueLimit
        BY <1>3, <2>4 DEF ChunkBounded
      <3>1. CASE f = c
        <4>1. OfThisRun(f)' = OfThisRun(c)'
          BY <3>1 DEF OfThisRun, Held
        <4> QED
          BY <2>5, <2>11, <3>1, <4>1
      <3>2. CASE f # c
        <4>1. Cardinality(OfThisRun(f))' = Cardinality(OfThisRun(f))
          BY <1>5, <2>4, <2>5, <2>6, <3>2
        <4>2. Cardinality(OfThisRun(f)) <= QueueLimit
          BY DEF ChunksOK, ChunkBounded
        <4> QED
          BY <4>1, <4>2
      <3> QED
        BY <3>1, <3>2
    <2> QED
      BY <2>10, <2>12, <2>13 DEF ChunksOK
  <1> QED
    BY <1>7, <1>8

\* A kill inside of Write: the chunk it leaves is empty.
LEMMA KilledChunks ==
  ASSUME OutputOK, OutputOK', ChunksOK, NEW w \in Writers, KilledOpening(w)
  PROVE  ChunksOK'
  <1>1. /\ disk' = With(Flushed(disk), currentName, <<>>) /\ buffer' = <<>> /\ run' = run
        /\ crowded' = crowded /\ file' = NoName /\ ~isOpen'
    BY DEF KilledOpening, Ends, history
  <1>2. DOMAIN Flushed(disk) = DOMAIN disk /\ \A f \in DOMAIN disk : Flushed(disk)[f] = Held(f)
    BY FlushedType, FlushedHeld
  <1>3. /\ DOMAIN disk' = DOMAIN disk \cup {currentName} /\ disk'[currentName] = <<>>
        /\ \A f \in DOMAIN disk' \ {currentName} :
              f \in DOMAIN disk /\ disk'[f] = Held(f) /\ disk'[f] = Flushed(disk)[f]
    BY <1>1, <1>2 DEF With
  <1>4. RunsOK'
    <2>1. ASSUME NEW f \in DOMAIN disk', NEW i \in 1 .. Len(disk'[f]), disk'[f][i] # Torn
          PROVE  disk'[f][i].run <= run
      <3>1. f # currentName
        BY <1>3
      <3>2. f \in DOMAIN disk /\ disk'[f] = Flushed(disk)[f]
        BY <1>3, <3>1
      <3> QED
        BY <2>1, <3>2, FlushedRuns DEF ChunksOK
    <2>2. Len(buffer') = 0
      BY <1>1
    <2> QED
      BY <1>1, <2>1, <2>2 DEF RunsOK
  <1>5. ChunkBounded'
    <2> SUFFICES ASSUME QueueLimit > 0, ~crowded, NEW f \in DOMAIN disk', f[2] # Plain
                 PROVE  Cardinality(OfThisRun(f))' <= QueueLimit
      BY <1>1 DEF ChunkBounded
    <2>1. Held(f)' = disk'[f] /\ Cardinality(OfThisRun(f))' = Count(Held(f)', run')
      BY <1>1, HeldTypeNext
    <2>2. CASE f = currentName
      <3>1. Places(<<>>, run) = {}
        BY DEF Places
      <3>2. Count(<<>>, run) = 0
        BY <3>1, FS_EmptySet DEF Count
      <3> QED
        BY <1>1, <1>3, <2>1, <2>2, <3>2, LimitAssumption DEF LimitAssumption
    <2>3. CASE f # currentName
      <3>1. f \in DOMAIN disk /\ Cardinality(OfThisRun(f)) = Count(Held(f), run)
        BY <1>3, <2>3, HeldType
      <3>2. Cardinality(OfThisRun(f)) <= QueueLimit
        BY <3>1 DEF ChunksOK, ChunkBounded
      <3>3. disk'[f] = Held(f)
        BY <1>3, <2>3
      <3> QED
        BY <1>1, <2>1, <3>1, <3>2, <3>3
    <2> QED
      BY <2>2, <2>3
  <1>6. RoomOK'
    BY <1>1 DEF RoomOK
  <1> QED
    BY <1>4, <1>5, <1>6 DEF ChunksOK

\* No step of any process breaks it.
LEMMA NextChunks == OutputOK /\ ChunksOK /\ [Next]_vars => ChunksOK'
  <1> SUFFICES ASSUME OutputOK, ChunksOK, [Next]_vars PROVE ChunksOK'
    OBVIOUS
  <1>1. OutputOK'
    BY NextOutputOK
  <1>2. CASE OutputNext
    BY <1>1, <1>2, NewRunChunks, NamesChunks, WriteLockedChunks, KilledChunks, EndChunks
    DEF OutputNext, NamesStep
  <1>3. CASE StartReplay \/ UNCHANGED outVars
    <2>1. UNCHANGED <<disk, buffer, file, isOpen, QueueLength, run, crowded, wpc, wname, currentName>>
      BY <1>3 DEF StartReplay, outVars, nameVars, fileVars, control, history
    <2>2. \A f : Cardinality(OfThisRun(f))' = Cardinality(OfThisRun(f))
      BY <2>1 DEF OfThisRun, Held
    <2>3. RunsOK' /\ ChunkBounded'
      BY <2>1, <2>2 DEF ChunksOK, RunsOK, ChunkBounded
    <2>4. Cardinality(OfThisRun(file))' = Cardinality(OfThisRun(file)) /\ (\A w : Taken(w)' <=> Taken(w))
      BY <2>1 DEF OfThisRun, Held, Taken
    <2>5. RoomOK'
      BY <2>1, <2>4 DEF ChunksOK, RoomOK
    <2> QED
      BY <2>3, <2>5 DEF ChunksOK
  <1> QED
    BY <1>2, <1>3 DEF Next, vars

(***************************************************************************)
(* For every queue limit, any number of payloads, dates and runs: no run   *)
(* puts more than --output-file-queue-limit payloads into a chunk, however *)
(* many writers there are, unless a chunk became full while another Write  *)
(* was under way to it, or the flush goroutine set the name of a full one. *)
(***************************************************************************)
THEOREM ChunksBounded == Spec => []ChunkBounded
  <1>1. Init => ChunksOK
    <2> SUFFICES ASSUME Init PROVE ChunksOK
      OBVIOUS
    <2>1. disk = <<>> /\ buffer = <<>> /\ DOMAIN disk = {} /\ file = NoName /\ Len(buffer) = 0
      BY Empty DEF Init, OutputInit
    <2> QED
      BY <2>1 DEF ChunksOK, RunsOK, RoomOK, ChunkBounded
  <1>2. ChunksOK => ChunkBounded
    BY DEF ChunksOK
  <1>3. RecordingOK => OutputOK
    BY DEF RecordingOK
  <1> QED
    BY <1>1, <1>2, <1>3, NextChunks, RecordingAlwaysOK, PTL DEF Spec
-----------------------------------------------------------------------------
(* What a recording keeps                                                    *)

\* A payload of this run.
Mine(r) == r # Torn /\ r.run = run

\* Of the payloads of this run on the disk d: their numbers are at most n; they grow in
\* the order of the names; none is in a chunk behind f; r is one of them.
Below(d, n) == \A f \in DOMAIN d : \A i \in 1 .. Len(d[f]) : Mine(d[f][i]) => d[f][i].id <= n

Sorted(d) ==
    \A f, g \in DOMAIN d : \A i \in 1 .. Len(d[f]), j \in 1 .. Len(d[g]) :
        Mine(d[f][i]) /\ Mine(d[g][j]) /\ Precedes(<<f, i>>, <<g, j>>) => d[f][i].id < d[g][j].id

UpTo(d, f) == \A g \in DOMAIN d : \A i \in 1 .. Len(d[g]) : Mine(d[g][i]) => Before(g, f)

OnChunk(d, r) == \E f \in DOMAIN d : \E i \in 1 .. Len(d[f]) : d[f][i] = r

\* The payloads of a run have successive numbers; the log has the first of them, the
\* buffered writer the last.
LogNumbered ==
    /\ \A i \in 1 .. Len(log) : log[i].run = run /\ log[i].id <= ids
    /\ \A i, j \in 1 .. Len(log) : log[j].id - log[i].id = j - i
    /\ phase = "record" => \A i \in 1 .. Len(log) : log[i].id = ids - Len(log) + i

BufferNumbered ==
    /\ Len(buffer) <= BufCap
    /\ \A j \in 1 .. Len(buffer) : buffer[j].run = run /\ buffer[j].id = ids - Len(buffer) + j
    /\ Below(disk, ids - Len(buffer))

\* No Write of the run that records has been left with a name before that of the file.
Orderly == ~reverted /\ epc = "off"

\* The names that Writes use follow each other.
NamesFollow ==
    Running =>
        /\ \A n \in {currentName, file, fname} :
              n # NoName => n[1] <= stem /\ (append => n[2] = Plain)
        /\ \A w \in Writers :
              wname[w] # NoName => wname[w][1] <= stem /\ (append => wname[w][2] = Plain)
        /\ file = NoName => buffer = <<>> /\ (Orderly => \A r : Mine(r) => ~OnChunk(disk, r))
        /\ file # NoName /\ Orderly =>
              /\ UpTo(disk, file)
              /\ \A w \in Writers :
                    /\ wpc[w] = "set" => Before(file, wname[w])
                    /\ wpc[w] = "locked" => Before(file, currentName)

\* r is in the log, or was written after Close.
Logged(r) ==
    \/ \E i \in 1 .. Len(log) : r = log[i]
    \/ phase = "closed" /\ \A i \in 1 .. Len(log) : log[i].id < r.id

\* What was written is on disk or in the buffered writer, and nothing else is.
Covered ==
    Running /\ Orderly =>
        /\ \A f \in DOMAIN disk : \A i \in 1 .. Len(disk[f]) : Mine(disk[f][i]) => Logged(disk[f][i])
        /\ \A j \in 1 .. Len(buffer) : Logged(buffer[j])
        /\ phase = "record" \/ limited =>
              /\ file # NoName => isOpen
              /\ \A i \in 1 .. Len(log) :
                    OnChunk(disk, log[i]) \/ \E j \in 1 .. Len(buffer) : buffer[j] = log[i]
        /\ phase = "closed" /\ ~limited => \A i \in 1 .. Len(log) : OnChunk(disk, log[i])

DiskSorted == Orderly => Sorted(disk)

\* A replay begins when no process records.
ReplayingOK == epc # "off" => ~Running /\ log = <<>>

KeptOK == LogNumbered /\ BufferNumbered /\ DiskSorted /\ NamesFollow /\ Covered /\ ReplayingOK

\* Numbers and runs are numbers.
LEMMA RecordFields ==
  \A r \in Record : r.id \in Nat /\ r.run \in Nat
  BY Limits DEF Record

\* The types that the following speaks of.
LEMMA KeptTypes ==
  ASSUME OutputOK
  PROVE  /\ ids \in Nat /\ run \in Nat /\ stem \in Nat /\ BufCap \in Nat \ {0}
         /\ log \in Seq(Record) /\ Len(log) \in Nat
         /\ \A i \in 1 .. Len(log) : log[i] \in Record /\ log[i].id \in Nat
         /\ buffer \in Seq(Record) /\ Len(buffer) \in Nat
         /\ \A j \in 1 .. Len(buffer) : buffer[j] \in Record /\ buffer[j].id \in Nat /\ buffer[j] # Torn
         /\ \A f \in DOMAIN disk : f \in Name /\ disk[f] \in Seq(Record \cup {Torn}) /\ Len(disk[f]) \in Nat
         /\ \A f \in DOMAIN disk : \A i \in 1 .. Len(disk[f]) :
               disk[f][i] # Torn => disk[f][i] \in Record /\ disk[f][i].id \in Nat
  <1>1. /\ ids \in Nat /\ run \in Nat /\ stem \in Nat /\ BufCap \in Nat \ {0}
        /\ log \in Seq(Record) /\ buffer \in Seq(Record)
        /\ \A f \in DOMAIN disk : f \in Name /\ disk[f] \in Seq(Record \cup {Torn})
    BY Limits DEF OutputOK, OutputTypeOK
  <1>2. /\ Len(log) \in Nat /\ \A i \in 1 .. Len(log) : log[i] \in Record
        /\ Len(buffer) \in Nat /\ \A j \in 1 .. Len(buffer) : buffer[j] \in Record
    BY <1>1
  <1>3. \A f \in DOMAIN disk : Len(disk[f]) \in Nat /\ \A i \in 1 .. Len(disk[f]) : disk[f][i] \in Record \cup {Torn}
    <2>1. ASSUME NEW S, NEW q \in Seq(S) PROVE Len(q) \in Nat /\ \A i \in 1 .. Len(q) : q[i] \in S
      OBVIOUS
    <2> QED
      BY <1>1, <2>1
  <1>4. Torn \notin Record
    BY Limits
  <1> QED
    BY <1>1, <1>2, <1>3, <1>4, RecordFields

\* Names are pairs of numbers, and in order.
LEMMA NameOrder ==
  /\ \A f \in Name : f[1] \in Nat /\ f[2] \in Int /\ f = <<f[1], f[2]>>
  /\ \A f, g \in Name : Before(f, g) \/ Before(g, f)
  /\ \A f, g \in Name : Before(f, g) /\ Before(g, f) => f = g
  /\ \A f, g, h \in Name : Before(f, g) /\ Before(g, h) => Before(f, h)
  <1>1. \A f \in Name : f[1] \in Nat /\ f[2] \in Int /\ f = <<f[1], f[2]>>
    BY Limits DEF Name
  <1> QED
    BY <1>1 DEF Before

\* The sequence numbers of a run's payloads on a new disk.
LEMMA NoneOfNewRun ==
  ASSUME OutputOK, RunsOK, run' = run + 1, disk' = disk
  PROVE  \A f \in DOMAIN disk : \A i \in 1 .. Len(disk[f]) : ~(Mine(disk[f][i]))'
  <1> SUFFICES ASSUME NEW f \in DOMAIN disk, NEW i \in 1 .. Len(disk[f]), disk[f][i] # Torn
               PROVE  disk[f][i].run # run + 1
    BY DEF Mine
  <1>1. disk[f][i].run \in Nat /\ run \in Nat
    BY KeptTypes, RecordFields
  <1>2. disk[f][i].run <= run
    BY DEF RunsOK
  <1> QED
    BY <1>1, <1>2

\* A new run has nothing yet.
LEMMA NewRunKept ==
  ASSUME OutputOK, OutputOK', ChunksOK, NewFileOutput, epc' = epc, epc = "off"
  PROVE  KeptOK'
  <1>1. /\ disk' = disk /\ run' = run + 1 /\ file' = NoName /\ buffer' = <<>> /\ log' = <<>>
        /\ ids' = ids /\ stem' = stem /\ fname' = NoName /\ phase' = "record"
        /\ wname' = [w \in Writers |-> NoName] /\ wpc' = [w \in Writers |-> "idle"]
    BY DEF NewFileOutput
  <1>2. \A f \in DOMAIN disk : \A i \in 1 .. Len(disk[f]) : ~(Mine(disk[f][i]))'
    BY <1>1, NoneOfNewRun DEF ChunksOK
  <1>3. Len(<<>>) = 0 /\ 1 .. 0 = {} /\ ids \in Nat /\ BufCap \in Nat /\ stem \in Nat
    BY KeptTypes
  <1>4. LogNumbered'
    BY <1>1, <1>3 DEF LogNumbered
  <1>5. BufferNumbered'
    BY <1>1, <1>2, <1>3 DEF BufferNumbered, Below
  <1>6. DiskSorted'
    BY <1>1, <1>2 DEF DiskSorted, Sorted
  <1>7. NamesFollow'
    <2>1. currentName' # NoName => currentName'[1] = stem /\ (append' => currentName'[2] = Plain)
      <3>1. CASE append'
        BY <3>1 DEF NewFileOutput
      <3>2. CASE ~append'
        <4>1. currentName' = filename(NoName, 0) 
          BY <3>2 DEF NewFileOutput
        <4>2. filename(NoName, 0)[1] = stem
          BY DEF filename
        <4> QED
          BY <3>2, <4>1, <4>2
      <3> QED
        BY <3>1, <3>2
    <2>2. \A r : (Mine(r))' => ~(OnChunk(disk, r))'
      BY <1>1, <1>2 DEF OnChunk
    <2> QED
      BY <1>1, <1>3, <2>1, <2>2 DEF NamesFollow
  <1>8. Covered'
    BY <1>1, <1>2, <1>3 DEF Covered
  <1>9. ReplayingOK'
    BY DEF ReplayingOK
  <1> QED
    BY <1>4, <1>5, <1>6, <1>7, <1>8, <1>9 DEF KeptOK

\* filename never goes back to a chunk before the one that is open.
LEMMA FilenameFollows ==
  ASSUME OutputOK, NamesFollow, Running, NEW c, NEW q
  PROVE  /\ filename(c, q)[1] <= stem /\ (append => filename(c, q)[2] = Plain)
         /\ file # NoName => Before(file, filename(c, q))
  <1>1. stem \in Nat
    BY KeptTypes
  <1>2. PICK n : n = filename(c, q)
    OBVIOUS
  <1>3. n \in Name /\ n[1] = stem /\ (append => n[2] = Plain)
    BY <1>2, FilenameType DEF filename
  <1>4. ASSUME file # NoName PROVE Before(file, n)
    <2>1. file \in Name /\ file \in DOMAIN disk /\ file[1] <= stem /\ (append => file[2] = Plain)
      BY <1>4 DEF OutputOK, OutputTypeOK, Started, NamesFollow
    <2>2. file[1] \in Nat /\ file[2] \in Int
      BY <2>1, NameOrder
    <2>3. CASE file[1] # stem
      BY <1>1, <1>3, <2>1, <2>2, <2>3 DEF Before
    <2>4. CASE append
      BY <1>1, <1>3, <2>1, <2>2, <2>4 DEF Before
    <2>5. CASE file[1] = stem /\ ~append
      <3>1. file[2] \in Indexes
        BY <2>1, <2>5 DEF Indexes
      <3>2. file[2] <= n[2]
        <4>1. CASE Indexes \subseteq {Plain}
          <5>1. n = <<stem, 0>>
            BY <1>2, <2>5, <4>1 DEF filename
          <5>2. file[2] = -1
            BY <3>1, <4>1 DEF Plain
          <5> QED
            BY <5>1, <5>2
        <4>2. CASE ~(Indexes \subseteq {Plain})
          <5>1. Indexes \in SUBSET Int /\ (\A x \in Indexes : x <= Bound) /\ Bound \in Int
            <6>1. Bound \in Nat
              BY BoundType
            <6>2. Indexes \in SUBSET Int /\ \A x \in Indexes : x < Bound
              BY DEF OutputOK, OutputTypeOK, Indexed, Indexes, Name
            <6> QED
              BY <6>1, <6>2
          <5>2. PICK m : m = Max(Indexes)
            OBVIOUS
          <5>3. m \in Int /\ m >= file[2]
            <6>1. Max(Indexes) \in Indexes /\ \A x \in Indexes : Max(Indexes) >= x
              BY <3>1, <5>1, MaxOfBounded
            <6> QED
              BY <3>1, <5>1, <5>2, <6>1, Zenon
          <5>4. PICK k \in {0, 1} : n = <<stem, m + k>>
            BY <1>2, <2>5, <4>2, <5>2 DEF filename
          <5>5. n[2] = m + k
            BY <5>4
          <5> QED
            BY <2>2, <5>3, <5>5
        <4> QED
          BY <4>1, <4>2
      <3> QED
        BY <1>3, <2>5, <3>2 DEF Before
    <2> QED
      BY <2>3, <2>4, <2>5
  <1> QED
    BY <1>1, <1>2, <1>3, <1>4

\* Names are computed and set, and the date changes.
LEMMA NamesKept ==
  ASSUME OutputOK, OutputOK', KeptOK, NamesStep, epc' = epc
  PROVE  KeptOK'
  <1>1. /\ UNCHANGED <<config, file, isOpen, buffer, disk, log, ids, run, phase>> /\ Running
        /\ stem <= stem' /\ (Orderly' => Orderly) /\ stem' \in Nat /\ stem \in Nat
    <2>1. Orderly' => Orderly
      BY DEF NamesStep, WriteName, WriteSetName, FlushCheck, FlushName, FlushSetName, Tick, control,
             history, Orderly
    <2>2. stem \in Nat /\ (stem' = stem \/ stem' = stem + 1)
      BY KeptTypes DEF NamesStep, WriteName, WriteSetName, FlushCheck, FlushName, FlushSetName, Tick
    <2>3. UNCHANGED <<config, run, phase, fileVars>> /\ Running
      BY DEF NamesStep, WriteName, WriteSetName, FlushCheck, FlushName, FlushSetName, Tick
    <2> QED
      BY <2>1, <2>2, <2>3 DEF fileVars
  <1>2. LogNumbered' /\ BufferNumbered' /\ DiskSorted' /\ Covered' /\ ReplayingOK'
    <2>1. LogNumbered'
      BY <1>1 DEF KeptOK, LogNumbered
    <2>2. BufferNumbered'
      BY <1>1 DEF KeptOK, BufferNumbered, Below, Mine
    <2>3. DiskSorted'
      BY <1>1 DEF KeptOK, DiskSorted, Sorted, Mine, Precedes, Before
    <2>4. Covered'
      BY <1>1 DEF KeptOK, Covered, Running, Mine, Logged, OnChunk, config
    <2>5. ReplayingOK'
      BY <1>1 DEF KeptOK, ReplayingOK, Running
    <2> QED
      BY <2>1, <2>2, <2>3, <2>4, <2>5
  <1>3. NamesFollow
    BY DEF KeptOK
  <1>4. \A c, q : /\ filename(c, q)[1] <= stem /\ (append => filename(c, q)[2] = Plain)
                  /\ filename(c, q)[1] \in Nat /\ filename(c, q) \in Name
                  /\ file # NoName => Before(file, filename(c, q))
    BY <1>1, <1>3, FilenameFollows, FilenameType, NameOrder
  <1>5. append' = append /\ Running'
    BY <1>1 DEF config, Running
  <1>6. /\ \A n \in {currentName, file, fname} :
              n # NoName => n[1] <= stem /\ n[1] \in Nat /\ (append => n[2] = Plain)
        /\ \A v \in Writers :
              wname[v] # NoName => wname[v][1] <= stem /\ wname[v][1] \in Nat /\ (append => wname[v][2] = Plain)
    <2>1. \A n \in {currentName, file, fname} : n # NoName => n[1] \in Nat
      BY NameOrder DEF OutputOK, OutputTypeOK
    <2>2. \A v \in Writers : wname[v] # NoName => wname[v][1] \in Nat
      BY NameOrder DEF OutputOK, OutputTypeOK
    <2> QED
      BY <1>1, <1>3, <2>1, <2>2 DEF NamesFollow
  <1>7. /\ \A n \in {currentName, file, fname}' :
              n # NoName => n[1] <= stem' /\ (append' => n[2] = Plain)
        /\ \A v \in Writers :
              wname'[v] # NoName => wname'[v][1] <= stem' /\ (append' => wname'[v][2] = Plain)
    <2>1. /\ \A n \in {currentName, file, fname}' :
              n # NoName => n[1] <= stem /\ n[1] \in Nat /\ (append => n[2] = Plain)
          /\ \A v \in Writers :
              wname'[v] # NoName => wname'[v][1] <= stem /\ wname'[v][1] \in Nat /\ (append => wname'[v][2] = Plain)
      <3>1. CASE \E w \in Writers : WriteName(w)
        <4>1. PICK w \in Writers : WriteName(w)
          BY <3>1
        <4> QED
          BY <1>1, <1>4, <1>6, <4>1 DEF WriteName, OutputOK, OutputTypeOK
      <3>2. CASE \E w \in Writers : WriteSetName(w)
        <4>1. PICK w \in Writers : WriteSetName(w)
          BY <3>2
        <4>2. /\ currentName' = wname[w] /\ wname' = [wname EXCEPT ![w] = NoName] /\ fname' = fname
          BY <4>1 DEF WriteSetName
        <4> QED
          BY <1>1, <1>6, <4>2 DEF OutputOK, OutputTypeOK
      <3>3. CASE FlushCheck \/ FlushName \/ FlushSetName \/ Tick
        BY <1>1, <1>4, <1>6, <3>3 DEF FlushCheck, FlushName, FlushSetName, Tick, nameVars
      <3> QED
        BY <3>1, <3>2, <3>3 DEF NamesStep
    <2> QED
      BY <1>1, <1>5, <2>1
  <1>8. file' = NoName => buffer' = <<>> /\ (Orderly' => \A r : (Mine(r))' => ~(OnChunk(disk, r))')
    BY <1>1, <1>3 DEF NamesFollow, Mine, OnChunk
  <1>9. file' # NoName /\ Orderly' =>
           /\ (UpTo(disk, file))'
           /\ \A v \in Writers :
                 /\ wpc'[v] = "set" => (Before(file, wname[v]))'
                 /\ wpc'[v] = "locked" => (Before(file, currentName))'
    <2> SUFFICES ASSUME file # NoName, Orderly'
                 PROVE  /\ (UpTo(disk, file))'
                        /\ \A v \in Writers :
                              /\ wpc'[v] = "set" => Before(file, wname'[v])
                              /\ wpc'[v] = "locked" => Before(file, currentName')
      BY <1>1 DEF Before
    <2>1. /\ UpTo(disk, file)
          /\ \A v \in Writers :
                /\ wpc[v] = "set" => Before(file, wname[v])
                /\ wpc[v] = "locked" => Before(file, currentName)
      BY <1>1, <1>3 DEF NamesFollow
    <2>2. (UpTo(disk, file))'
      BY <1>1, <2>1 DEF UpTo, Mine, Before
    <2> SUFFICES ASSUME NEW v \in Writers
                 PROVE  /\ wpc'[v] = "set" => Before(file, wname'[v])
                        /\ wpc'[v] = "locked" => Before(file, currentName')
      BY <2>2
    <2>3. ASSUME NEW w \in Writers, WriteName(w)
          PROVE  /\ wpc'[v] = "set" => Before(file, wname'[v])
                 /\ wpc'[v] = "locked" => Before(file, currentName')
      <3>1. /\ wname' = [wname EXCEPT ![w] = filename(currentName, QueueLength)]
            /\ wpc' = [wpc EXCEPT ![w] = "set"] /\ currentName' = currentName
        BY <2>3 DEF WriteName
      <3> QED
        BY <1>4, <2>1, <3>1 DEF OutputOK, OutputTypeOK
    <2>4. ASSUME NEW w \in Writers, WriteSetName(w)
          PROVE  /\ wpc'[v] = "set" => Before(file, wname'[v])
                 /\ wpc'[v] = "locked" => Before(file, currentName')
      <3>1. /\ wpc[w] = "set" /\ currentName' = wname[w] /\ wname' = [wname EXCEPT ![w] = NoName]
            /\ wpc' = [wpc EXCEPT ![w] = "locked"]
        BY <2>4 DEF WriteSetName
      <3> QED
        BY <2>1, <3>1 DEF OutputOK, OutputTypeOK
    <2>5. CASE FlushSetName
      <3>1. wpc' = wpc /\ wname' = wname /\ currentName' = fname
        BY <2>5 DEF FlushSetName
      <3>2. wpc[v] = "locked" => Before(file, fname)
        BY <2>5 DEF FlushSetName, Orderly
      <3> QED
        BY <2>1, <3>1, <3>2
    <2>6. CASE FlushCheck \/ FlushName \/ Tick
      <3>1. UNCHANGED <<wpc, wname, currentName>>
        BY <2>6 DEF FlushCheck, FlushName, Tick, nameVars, control
      <3> QED
        BY <2>1, <3>1
    <2> QED
      BY <2>3, <2>4, <2>5, <2>6 DEF NamesStep
  <1>10. NamesFollow'
    BY <1>7, <1>8, <1>9 DEF NamesFollow
  <1> QED
    BY <1>2, <1>10 DEF KeptOK

\* Where the payloads are after a flush.
LEMMA FlushedPlaces ==
  ASSUME OutputOK
  PROVE  /\ \A f \in DOMAIN disk : \A i \in 1 .. Len(Flushed(disk)[f]) :
               \/ i \in 1 .. Len(disk[f]) /\ Flushed(disk)[f][i] = disk[f][i]
               \/ /\ f = file /\ file # NoName /\ isOpen
                  /\ i - Len(disk[f]) \in 1 .. Len(buffer)
                  /\ Flushed(disk)[f][i] = buffer[i - Len(disk[f])]
         /\ \A f \in DOMAIN disk : \A i \in 1 .. Len(disk[f]) :
               i \in 1 .. Len(Flushed(disk)[f]) /\ Flushed(disk)[f][i] = disk[f][i]
         /\ file # NoName /\ isOpen => \A j \in 1 .. Len(buffer) :
               /\ Len(disk[file]) + j \in 1 .. Len(Flushed(disk)[file])
               /\ Flushed(disk)[file][Len(disk[file]) + j] = buffer[j]
  <1>1. PICK d : d = Flushed(disk)
    OBVIOUS
  <1>2. CASE ~(file # NoName /\ isOpen)
    BY <1>2 DEF Flushed
  <1>3. CASE file # NoName /\ isOpen
    <2>1. /\ file \in DOMAIN disk /\ DOMAIN d = DOMAIN disk
          /\ d[file] = disk[file] \o buffer
          /\ \A f \in DOMAIN disk \ {file} : d[f] = disk[f]
      BY <1>1, <1>3 DEF Flushed, OutputOK, Started
    <2>2. PICK m \in Nat : m = Len(disk[file])
      BY <2>1, KeptTypes
    <2>3. PICK n \in Nat : n = Len(buffer)
      BY KeptTypes
    <2>4. /\ Len(d[file]) = m + n
          /\ \A i \in 1 .. (m + n) : d[file][i] = IF i <= m THEN disk[file][i] ELSE buffer[i - m]
      <3>1. disk[file] \in Seq(Record \cup {Torn}) /\ buffer \in Seq(Record \cup {Torn})
        BY <2>1 DEF OutputOK, OutputTypeOK
      <3> QED
        BY <2>1, <2>2, <2>3, <3>1
    <2>5. \A i \in 1 .. (m + n) :
             \/ i \in 1 .. m /\ d[file][i] = disk[file][i]
             \/ i - m \in 1 .. n /\ d[file][i] = buffer[i - m]
      BY <2>4
    <2>6. \A i \in 1 .. m : i \in 1 .. (m + n) /\ d[file][i] = disk[file][i]
      BY <2>4
    <2>7. \A j \in 1 .. n : m + j \in 1 .. (m + n) /\ d[file][m + j] = buffer[j]
      <3> SUFFICES ASSUME NEW j \in 1 .. n PROVE m + j \in 1 .. (m + n) /\ d[file][m + j] = buffer[j]
        OBVIOUS
      <3>1. m + j \in 1 .. (m + n) /\ ~(m + j <= m) /\ (m + j) - m = j
        OBVIOUS
      <3> QED
        BY <2>4, <3>1
    <2>8. \A f \in DOMAIN disk : \A i \in 1 .. Len(d[f]) :
               \/ i \in 1 .. Len(disk[f]) /\ d[f][i] = disk[f][i]
               \/ /\ f = file /\ file # NoName /\ isOpen
                  /\ i - Len(disk[f]) \in 1 .. Len(buffer)
                  /\ d[f][i] = buffer[i - Len(disk[f])]
      BY <1>3, <2>1, <2>2, <2>3, <2>4, <2>5
    <2>9. \A f \in DOMAIN disk : \A i \in 1 .. Len(disk[f]) :
               i \in 1 .. Len(d[f]) /\ d[f][i] = disk[f][i]
      BY <2>1, <2>2, <2>4, <2>6
    <2> QED
      BY <1>1, <2>2, <2>3, <2>4, <2>7, <2>8, <2>9
  <1> QED
    BY <1>2, <1>3

\* A flush keeps the order, and what the buffered writer held.
LEMMA FlushedKept ==
  ASSUME OutputOK, KeptOK, Running, NEW d, d = Flushed(disk)
  PROVE  /\ DOMAIN d = DOMAIN disk
         /\ Below(d, ids)
         /\ \A r : OnChunk(disk, r) => OnChunk(d, r)
         /\ file # NoName /\ isOpen => \A j \in 1 .. Len(buffer) : OnChunk(d, buffer[j])
         /\ Orderly =>
              /\ Sorted(d)
              /\ file # NoName => UpTo(d, file)
              /\ \A f \in DOMAIN d : \A i \in 1 .. Len(d[f]) : Mine(d[f][i]) => Logged(d[f][i])
  <1>1. DOMAIN d = DOMAIN disk
    BY FlushedType
  <1>2. /\ ids \in Nat /\ Len(buffer) \in Nat
        /\ \A j \in 1 .. Len(buffer) : buffer[j].id \in Nat /\ buffer[j].id = ids - Len(buffer) + j
        /\ \A f \in DOMAIN disk : f \in Name /\ Len(disk[f]) \in Nat
        /\ \A f \in DOMAIN disk : \A i \in 1 .. Len(disk[f]) :
              Mine(disk[f][i]) => disk[f][i].id \in Nat /\ disk[f][i].id <= ids - Len(buffer)
    BY KeptTypes DEF KeptOK, BufferNumbered, Below, Mine
  <1>3. \A f \in DOMAIN d : \A i \in 1 .. Len(d[f]) :
               \/ i \in 1 .. Len(disk[f]) /\ d[f][i] = disk[f][i]
               \/ /\ f = file /\ file # NoName /\ isOpen
                  /\ i - Len(disk[f]) \in 1 .. Len(buffer)
                  /\ d[f][i] = buffer[i - Len(disk[f])]
    BY <1>1, FlushedPlaces
  <1>4. Below(d, ids)
    <2> SUFFICES ASSUME NEW f \in DOMAIN d, NEW i \in 1 .. Len(d[f]), Mine(d[f][i])
                 PROVE  d[f][i].id <= ids
      BY DEF Below
    <2>1. CASE i \in 1 .. Len(disk[f]) /\ d[f][i] = disk[f][i]
      BY <1>1, <1>2, <2>1
    <2>2. CASE i - Len(disk[f]) \in 1 .. Len(buffer) /\ d[f][i] = buffer[i - Len(disk[f])]
      BY <1>1, <1>2, <2>2
    <2> QED
      BY <1>3, <2>1, <2>2
  <1>5. \A r : OnChunk(disk, r) => OnChunk(d, r)
    BY <1>1, FlushedPlaces DEF OnChunk
  <1>6. ASSUME file # NoName, isOpen, NEW j \in 1 .. Len(buffer) PROVE OnChunk(d, buffer[j])
    <2>1. file \in DOMAIN d
      BY <1>1, <1>6 DEF OutputOK, Started
    <2>2. PICK k \in 1 .. Len(d[file]) : d[file][k] = buffer[j]
      BY <1>6, FlushedPlaces
    <2> QED
      BY <2>1, <2>2 DEF OnChunk
  <1>7. ASSUME Orderly PROVE Sorted(d)
    <2> SUFFICES ASSUME NEW f \in DOMAIN d, NEW g \in DOMAIN d,
                        NEW i \in 1 .. Len(d[f]), NEW j \in 1 .. Len(d[g]),
                        Mine(d[f][i]), Mine(d[g][j]), Precedes(<<f, i>>, <<g, j>>)
                 PROVE  d[f][i].id < d[g][j].id
      BY DEF Sorted
    <2>1. IF f = g THEN i < j ELSE Before(f, g)
      BY DEF Precedes
    <2>2. CASE i \in 1 .. Len(disk[f]) /\ d[f][i] = disk[f][i]
      <3>1. CASE j \in 1 .. Len(disk[g]) /\ d[g][j] = disk[g][j]
        <4>1. Sorted(disk)
          BY <1>7 DEF KeptOK, DiskSorted
        <4> QED
          BY <1>1, <2>2, <3>1, <4>1 DEF Sorted
      <3>2. CASE j - Len(disk[g]) \in 1 .. Len(buffer) /\ d[g][j] = buffer[j - Len(disk[g])]
        <4>1. d[f][i].id \in Nat /\ d[f][i].id <= ids - Len(buffer)
          BY <1>1, <1>2, <2>2
        <4>2. PICK k \in 1 .. Len(buffer) : d[g][j] = buffer[k]
          BY <3>2
        <4>3. d[g][j].id \in Nat /\ d[g][j].id = ids - Len(buffer) + k
          BY <1>2, <4>2
        <4>4. k \in Int /\ k >= 1
          BY <1>2
        <4> QED
          BY ONLY <1>2, <4>1, <4>3, <4>4
      <3> QED
        BY <1>3, <3>1, <3>2
    <2>3. CASE /\ f = file /\ file # NoName /\ i - Len(disk[f]) \in 1 .. Len(buffer)
               /\ d[f][i] = buffer[i - Len(disk[f])]
      <3>1. UpTo(disk, file)
        BY <1>7, <2>3 DEF KeptOK, NamesFollow
      <3>2. CASE j \in 1 .. Len(disk[g]) /\ d[g][j] = disk[g][j]
        <4>1. CASE f = g
          BY <1>1, <1>2, <2>1, <2>3, <3>2, <4>1
        <4>2. CASE f # g
          <5>1. Before(file, g) /\ Before(g, file)
            BY <1>1, <2>1, <2>3, <3>1, <3>2, <4>2 DEF UpTo
          <5> QED
            BY <1>1, <1>2, <2>3, <4>2, <5>1, NameOrder
        <4> QED
          BY <4>1, <4>2
      <3>3. CASE g = file /\ j - Len(disk[g]) \in 1 .. Len(buffer) /\ d[g][j] = buffer[j - Len(disk[g])]
        <4>1. i < j /\ i \in Int /\ j \in Int /\ Len(disk[file]) \in Nat
          BY <1>1, <1>2, <2>1, <2>3, <3>3
        <4>2. PICK k \in 1 .. Len(buffer) : k = i - Len(disk[file]) /\ d[f][i] = buffer[k]
          BY <2>3
        <4>3. PICK l \in 1 .. Len(buffer) : l = j - Len(disk[file]) /\ d[g][j] = buffer[l]
          BY <3>3
        <4>4. k < l /\ k \in Int /\ l \in Int
          <5>1. \A a, b, c \in Int : a < b => a - c < b - c
            OBVIOUS
          <5>2. k \in Int /\ l \in Int /\ Len(disk[file]) \in Int
            BY <1>2, <4>1
          <5> QED
            BY <4>1, <4>2, <4>3, <5>1, <5>2
        <4>5. buffer[k].id = ids - Len(buffer) + k /\ buffer[l].id = ids - Len(buffer) + l
          BY <1>2
        <4>6. buffer[k].id < buffer[l].id
          BY <1>2, <4>4, <4>5
        <4> QED
          BY <4>2, <4>3, <4>6
      <3> QED
        BY <1>3, <3>2, <3>3
    <2> QED
      BY <1>3, <2>2, <2>3
  <1>8. ASSUME Orderly, file # NoName PROVE UpTo(d, file)
    <2>1. UpTo(disk, file)
      BY <1>8 DEF KeptOK, NamesFollow
    <2>2. file \in DOMAIN disk /\ Before(file, file)
      <3>1. file \in DOMAIN disk
        BY <1>8 DEF OutputOK, Started
      <3> QED
        BY <1>2, <3>1, NameOrder
    <2> QED
      BY <1>1, <1>3, <2>1, <2>2 DEF UpTo
  <1>9. ASSUME Orderly, NEW f \in DOMAIN d, NEW i \in 1 .. Len(d[f]), Mine(d[f][i])
        PROVE  Logged(d[f][i])
    <2>1. /\ \A g \in DOMAIN disk : \A k \in 1 .. Len(disk[g]) : Mine(disk[g][k]) => Logged(disk[g][k])
          /\ \A k \in 1 .. Len(buffer) : Logged(buffer[k])
      BY <1>9 DEF KeptOK, Covered
    <2> QED
      BY <1>1, <1>3, <1>9, <2>1
  <1> QED
    BY <1>1, <1>4, <1>5, <1>6, <1>7, <1>8, <1>9

\* Write puts rec behind b, and d is what is on disk then.
LEMMA WriteToKept ==
  ASSUME OutputOK, OutputOK', KeptOK, NEW w \in Writers, NEW ts \in Stamp, WriteLocked(w, ts),
         epc' = epc,
         NEW rec \in Record, rec = [id |-> ids + 1, run |-> run, ts |-> ts],
         NEW d, NEW b \in Seq(Record), disk' = d, buffer' = Append(b, rec),
         Len(b) < BufCap,
         \A j \in 1 .. Len(b) : b[j].run = run /\ b[j].id = ids - Len(b) + j,
         Below(d, ids - Len(b)),
         Orderly =>
            /\ Sorted(d) /\ UpTo(d, currentName) /\ (phase = "record" \/ limited => isOpen')
            /\ \A f \in DOMAIN d : \A i \in 1 .. Len(d[f]) : Mine(d[f][i]) => Logged(d[f][i])
            /\ \A j \in 1 .. Len(b) : Logged(b[j])
            /\ \A i \in 1 .. Len(log) :
                  \/ OnChunk(d, log[i])
                  \/ (phase = "record" \/ limited) /\ \E j \in 1 .. Len(b) : b[j] = log[i]
  PROVE  KeptOK'
  <1>1. /\ ids' = ids + 1 /\ file' = currentName /\ (Orderly' => Orderly)
        /\ UNCHANGED <<config, stem, phase, run, nameVars>> /\ Running
        /\ log' = IF phase = "record" THEN Append(log, rec) ELSE log
    BY DEF WriteLocked, Reopens, Orderly
  <1>2. /\ ids \in Nat /\ run \in Nat /\ BufCap \in Nat /\ log \in Seq(Record) /\ Len(log) \in Nat
        /\ \A i \in 1 .. Len(log) : log[i].id \in Nat
    BY KeptTypes
  <1>3. rec.id = ids + 1 /\ rec.run = run /\ rec # Torn
    BY Limits
  <1>4. PICK n \in Nat : n = Len(b)
    OBVIOUS
  <1>5. /\ Len(buffer') = n + 1 /\ buffer'[n + 1] = rec /\ \A j \in 1 .. n : buffer'[j] = b[j]
    BY <1>4
  <1>6. \A j \in 1 .. (n + 1) : j \in 1 .. n \/ j = n + 1
    BY <1>4
  <1>7. PICK m \in Nat : m = Len(log)
    BY <1>2
  <1>8. phase = "record" =>
           Len(log') = m + 1 /\ log'[m + 1] = rec /\ \A i \in 1 .. m : log'[i] = log[i]
    BY <1>1, <1>2, <1>7
  <1>9. \A i \in 1 .. (m + 1) : i \in 1 .. m \/ i = m + 1
    BY <1>7
  <1>10. /\ \A i \in 1 .. m : log[i].run = run /\ log[i].id <= ids
         /\ \A i, j \in 1 .. m : log[j].id - log[i].id = j - i
         /\ phase = "record" => \A i \in 1 .. m : log[i].id = ids - m + i
    BY <1>7 DEF KeptOK, LogNumbered
  <1>11. LogNumbered'
    <2>1. CASE phase # "record"
      <3>1. \A i \in 1 .. m : log[i].id <= ids + 1
        <4>1. \A i \in 1 .. m : log[i].id \in Nat /\ log[i].id <= ids
          BY <1>2, <1>7, <1>10
        <4> QED
          BY ONLY <1>2, <4>1
      <3> QED
        BY <1>1, <1>7, <1>10, <2>1, <3>1 DEF LogNumbered
    <2>2. CASE phase = "record"
      <3>1. \A i \in 1 .. (m + 1) :
               /\ log'[i].run = run /\ log'[i].id <= ids + 1
               /\ log'[i].id = (ids + 1) - (m + 1) + i /\ log'[i].id \in Nat
        <4> SUFFICES ASSUME NEW i \in 1 .. (m + 1)
                     PROVE  /\ log'[i].run = run /\ log'[i].id <= ids + 1
                            /\ log'[i].id = (ids + 1) - (m + 1) + i /\ log'[i].id \in Nat
          OBVIOUS
        <4>1. CASE i \in 1 .. m
          <5>1. log'[i] = log[i] /\ log[i].id \in Nat /\ log[i].id <= ids /\ log[i].id = ids - m + i
                /\ log[i].run = run
            BY <1>2, <1>7, <1>8, <1>10, <2>2, <4>1
          <5> QED
            BY <1>2, <5>1
        <4>2. CASE i = m + 1
          BY <1>2, <1>3, <1>8, <2>2, <4>2
        <4> QED
          BY <1>9, <4>1, <4>2
      <3>2. \A i, j \in 1 .. (m + 1) : log'[j].id - log'[i].id = j - i
        BY <1>2, <3>1
      <3>3. Len(log') = m + 1 /\ run' = run /\ ids' = ids + 1
        BY <1>1, <1>8, <2>2
      <3>4. \A i \in 1 .. Len(log') : log'[i].run = run' /\ log'[i].id <= ids'
        BY <3>1, <3>3
      <3>5. \A i, j \in 1 .. Len(log') : log'[j].id - log'[i].id = j - i
        BY <3>2, <3>3
      <3>6. \A i \in 1 .. Len(log') : log'[i].id = ids' - Len(log') + i
        BY <3>1, <3>3
      <3> QED
        BY <3>4, <3>5, <3>6 DEF LogNumbered
    <2> QED
      BY <2>1, <2>2
  <1>12. BufferNumbered'
    <2>1. n + 1 <= BufCap
      BY <1>2, <1>4
    <2>2. \A j \in 1 .. (n + 1) : buffer'[j].run = run /\ buffer'[j].id = (ids + 1) - (n + 1) + j
      <3> SUFFICES ASSUME NEW j \in 1 .. (n + 1)
                   PROVE  buffer'[j].run = run /\ buffer'[j].id = (ids + 1) - (n + 1) + j
        OBVIOUS
      <3>1. CASE j \in 1 .. n
        <4>1. b[j].run = run /\ b[j].id = ids - n + j
          BY <1>4, <3>1
        <4>2. buffer'[j] = b[j] /\ j \in Int
          BY <1>5, <3>1
        <4>3. \A i \in Int : ids - n + i = (ids + 1) - (n + 1) + i
          BY <1>2
        <4> QED
          BY <4>1, <4>2, <4>3, Zenon
      <3>2. CASE j = n + 1
        BY <1>2, <1>3, <1>5, <3>2
      <3> QED
        BY <1>6, <3>1, <3>2
    <2>3. ids - n = (ids + 1) - (n + 1)
      BY <1>2
    <2>4. Below(d, (ids + 1) - (n + 1))
      BY <1>4, <2>3
    <2> QED
      BY <1>1, <1>5, <2>1, <2>2, <2>4 DEF BufferNumbered, Below, Mine
  <1>13. DiskSorted'
    <2> SUFFICES ASSUME Orderly' PROVE (Sorted(disk))'
      BY DEF DiskSorted
    <2>1. Sorted(d) /\ disk' = d /\ run' = run
      BY <1>1
    <2> QED
      BY <2>1 DEF Sorted, Mine, Precedes, Before
  <1>14. NamesFollow'
    <2>1. currentName # NoName
      BY <1>1, NoNameIsNone DEF OutputOK, Started
    <2>2. /\ \A x \in {currentName, fname} : x # NoName => x[1] <= stem /\ (append => x[2] = Plain)
          /\ \A v \in Writers :
                wname[v] # NoName => wname[v][1] <= stem /\ (append => wname[v][2] = Plain)
      BY <1>1 DEF KeptOK, NamesFollow
    <2>3. Orderly => (UpTo(disk, file))'
      BY <1>1 DEF UpTo, Mine
    <2>4. Before(currentName, currentName)
      <3>1. currentName \in Name
        BY <1>1 DEF OutputOK, Started
      <3> QED
        BY <3>1, NameOrder
    <2>5. ASSUME Orderly', NEW v \in Writers, wpc'[v] = "set" PROVE Before(currentName, wname[v])
      <3>1. v # w /\ wpc[v] = "set" /\ ~Overtaken(v)
        BY <2>5 DEF WriteLocked, Orderly, OutputOK, OutputTypeOK
      <3> QED
        BY <3>1 DEF Overtaken
    <2> QED
      BY <1>1, <2>1, <2>2, <2>3, <2>4, <2>5 DEF NamesFollow, nameVars, config
  <1>15. Covered'
    <2> SUFFICES ASSUME Orderly PROVE Covered'
      BY <1>1 DEF Covered
    <2>1. \A r : Logged(r) => (Logged(r))'
      BY <1>1, <1>7, <1>8, <1>9 DEF Logged
    <2>2. (Logged(rec))'
      <3>1. CASE phase = "record"
        <4>1. m + 1 \in 1 .. Len(log')
          BY <1>8, <3>1
        <4> QED
          BY <1>8, <3>1, <4>1 DEF Logged
      <3>2. CASE phase # "record"
        <4>1. phase' = "closed" /\ log' = log
          BY <1>1, <3>2 DEF Running
        <4>2. \A i \in 1 .. Len(log) : log[i].id < rec.id
          BY <1>2, <1>3, <1>7, <1>10
        <4> QED
          BY <4>1, <4>2 DEF Logged
      <3> QED
        BY <3>1, <3>2
    <2>3. \A f \in DOMAIN d : \A i \in 1 .. Len(d[f]) : Mine(d[f][i]) => (Logged(disk[f][i]))'
      BY <2>1 DEF Logged
    <2>4. \A j \in 1 .. Len(buffer') : (Logged(buffer[j]))'
      <3> SUFFICES ASSUME NEW j \in 1 .. (n + 1) PROVE (Logged(buffer[j]))'
        BY <1>5
      <3>1. CASE j \in 1 .. n
        <4>1. Logged(b[j])
          BY <1>4, <3>1
        <4>2. buffer'[j] = b[j]
          BY <1>5, <3>1
        <4> QED
          BY <2>1, <4>1, <4>2 DEF Logged
      <3>2. CASE j = n + 1
        BY <1>5, <2>2, <3>2 DEF Logged
      <3> QED
        BY <1>6, <3>1, <3>2
    <2>5. \A i \in 1 .. Len(log) :
             \/ OnChunk(d, log[i])
             \/ (phase = "record" \/ limited) /\ \E j \in 1 .. Len(buffer') : buffer'[j] = log[i]
      <3>1. \A j \in 1 .. n : j \in 1 .. (n + 1)
        BY <1>4
      <3> QED
        BY <1>4, <1>5, <3>1
    <2>6. phase = "record" => \E j \in 1 .. Len(buffer') : buffer'[j] = log'[m + 1]
      <3>1. n + 1 \in 1 .. (n + 1)
        BY <1>4
      <3> QED
        BY <1>5, <1>8, <3>1
    <2>7. \A i \in 1 .. Len(log') :
             \/ OnChunk(d, log'[i])
             \/ (phase = "record" \/ limited) /\ \E j \in 1 .. Len(buffer') : buffer'[j] = log'[i]
      BY <1>1, <1>7, <1>8, <1>9, <2>5, <2>6
    <2>8. \A i \in 1 .. Len(log') : OnChunk(d, log'[i]) => (OnChunk(disk, log[i]))'
      BY DEF OnChunk
    <2>9. /\ \A f \in DOMAIN disk' : \A i \in 1 .. Len(disk'[f]) :
                (Mine(disk[f][i]))' => (Logged(disk[f][i]))'
      BY <1>1, <2>3 DEF Mine
    <2> QED
      BY <1>1, <2>4, <2>7, <2>8, <2>9 DEF Covered, config
  <1>16. ReplayingOK'
    BY <1>1 DEF KeptOK, ReplayingOK, Running
  <1> QED
    BY <1>11, <1>12, <1>13, <1>14, <1>15, <1>16 DEF KeptOK

\* After a flush the whole log is on disk, unless Close has done that before.
LEMMA FlushedLog ==
  ASSUME OutputOK, KeptOK, Running, Orderly, NEW i \in 1 .. Len(log)
  PROVE  OnChunk(Flushed(disk), log[i])
  <1>1. PICK d : d = Flushed(disk)
    OBVIOUS
  <1>2. /\ \A r : OnChunk(disk, r) => OnChunk(d, r)
        /\ file # NoName /\ isOpen => \A j \in 1 .. Len(buffer) : OnChunk(d, buffer[j])
    BY <1>1, FlushedKept
  <1>3. CASE OnChunk(disk, log[i])
    BY <1>1, <1>2, <1>3
  <1>4. CASE ~OnChunk(disk, log[i])
    <2>1. /\ phase = "record" \/ limited
          /\ file # NoName => isOpen
          /\ \E j \in 1 .. Len(buffer) : buffer[j] = log[i]
      BY <1>4 DEF KeptOK, Covered, Running
    <2>2. PICK j \in 1 .. Len(buffer) : buffer[j] = log[i]
      BY <2>1
    <2>3. file # NoName
      <3> SUFFICES ASSUME file = NoName PROVE FALSE
        OBVIOUS
      <3>1. buffer = <<>>
        BY DEF KeptOK, NamesFollow
      <3> QED
        BY <2>2, <3>1
    <2> QED
      BY <1>1, <1>2, <2>1, <2>2, <2>3
  <1> QED
    BY <1>3, <1>4

\* A chunk that is opened comes behind all that the run has written.
LEMMA OpenedKept ==
  ASSUME OutputOK, KeptOK, NEW w \in Writers, Running, wpc[w] = "locked", Reopens,
         NEW d, d = With(Flushed(disk), currentName, <<>>)
  PROVE  /\ Below(d, ids)
         /\ Orderly =>
              /\ Sorted(d) /\ UpTo(d, currentName)
              /\ \A f \in DOMAIN d : \A i \in 1 .. Len(d[f]) : Mine(d[f][i]) => Logged(d[f][i])
              /\ \A i \in 1 .. Len(log) : OnChunk(d, log[i])
  <1>1. currentName \in Name /\ currentName # NoName
    BY NoNameIsNone DEF OutputOK, Started
  <1>2. PICK fl : fl = Flushed(disk)
    OBVIOUS
  <1>3. /\ DOMAIN fl = DOMAIN disk
        /\ Below(fl, ids)
        /\ Orderly =>
             /\ Sorted(fl)
             /\ file # NoName => UpTo(fl, file)
             /\ \A f \in DOMAIN fl : \A i \in 1 .. Len(fl[f]) : Mine(fl[f][i]) => Logged(fl[f][i])
             /\ \A i \in 1 .. Len(log) : OnChunk(fl, log[i])
    BY <1>2, FlushedKept, FlushedLog
  <1>4. file = NoName \/ currentName # file
    BY DEF Reopens
  <1>5. /\ d[currentName] = <<>> /\ DOMAIN d = DOMAIN fl \cup {currentName}
        /\ \A f \in DOMAIN fl \ {currentName} : d[f] = fl[f]
    BY <1>2 DEF With
  <1>6. \A f \in DOMAIN d : \A i \in 1 .. Len(d[f]) : f \in DOMAIN fl \ {currentName} /\ d[f] = fl[f]
    <2>1. 1 .. Len(<<>>) = {}
      OBVIOUS
    <2> QED
      BY <1>5, <2>1
  <1>7. Below(d, ids)
    BY <1>3, <1>6 DEF Below
  <1>8. ASSUME Orderly
        PROVE  /\ Sorted(d) /\ UpTo(d, currentName)
               /\ \A f \in DOMAIN d : \A i \in 1 .. Len(d[f]) : Mine(d[f][i]) => Logged(d[f][i])
               /\ \A i \in 1 .. Len(log) : OnChunk(d, log[i])
    <2>1. \A f \in DOMAIN fl : \A i \in 1 .. Len(fl[f]) :
             Mine(fl[f][i]) => f # currentName /\ Before(f, currentName)
      <3> SUFFICES ASSUME NEW f \in DOMAIN fl, NEW i \in 1 .. Len(fl[f]), Mine(fl[f][i])
                   PROVE  f # currentName /\ Before(f, currentName)
        OBVIOUS
      <3>1. CASE file = NoName
        <4>1. fl = disk /\ OnChunk(disk, fl[f][i])
          BY <1>2, <1>3, <3>1 DEF Flushed, OnChunk
        <4> QED
          BY <1>8, <3>1, <4>1 DEF KeptOK, NamesFollow
      <3>2. CASE file # NoName
        <4>1. Before(f, file) /\ Before(file, currentName)
          BY <1>3, <1>8, <3>2 DEF UpTo, KeptOK, NamesFollow
        <4>2. f \in Name /\ file \in Name
          BY <1>3, <3>2 DEF OutputOK, OutputTypeOK
        <4> QED
          BY <1>1, <1>4, <3>2, <4>1, <4>2, NameOrder
      <3> QED
        BY <3>1, <3>2
    <2>2. Sorted(d)
      BY <1>3, <1>6, <1>8 DEF Sorted
    <2>3. UpTo(d, currentName)
      BY <1>6, <2>1 DEF UpTo
    <2>4. \A f \in DOMAIN d : \A i \in 1 .. Len(d[f]) : Mine(d[f][i]) => Logged(d[f][i])
      BY <1>3, <1>6, <1>8
    <2>5. ASSUME NEW i \in 1 .. Len(log) PROVE OnChunk(d, log[i])
      <3>1. PICK f \in DOMAIN fl : \E k \in 1 .. Len(fl[f]) : fl[f][k] = log[i]
        BY <1>3, <1>8, <2>5 DEF OnChunk
      <3>2. Mine(log[i])
        BY KeptTypes, Limits DEF KeptOK, LogNumbered, Mine
      <3>3. f # currentName
        BY <2>1, <3>1, <3>2
      <3> QED
        BY <1>5, <3>1, <3>3 DEF OnChunk
    <2> QED
      BY <2>2, <2>3, <2>4, <2>5
  <1> QED
    BY <1>7, <1>8

\* Write goes on behind all that the run has written.
LEMMA WriteLockedKept ==
  ASSUME OutputOK, OutputOK', KeptOK, NEW w \in Writers, NEW ts \in Stamp, WriteLocked(w, ts),
         epc' = epc
  PROVE  KeptOK'
  <1>1. PICK rec : rec = [id |-> ids + 1, run |-> run, ts |-> ts]
    OBVIOUS
  <1>2. rec \in Record
    BY <1>1, Limits DEF Record, OutputOK, OutputTypeOK, Started, WriteLocked, Reopens
  <1>3. Running /\ wpc[w] = "locked" /\ currentName \in Name /\ currentName # NoName
    BY NoNameIsNone DEF OutputOK, Started, WriteLocked, Reopens
  <1>4. ids \in Nat /\ BufCap \in Nat \ {0} /\ Len(buffer) \in Nat /\ buffer \in Seq(Record)
    BY KeptTypes
  <1>5. PICK fl : fl = Flushed(disk)
    OBVIOUS
  <1>6. /\ DOMAIN fl = DOMAIN disk
        /\ Below(fl, ids)
        /\ Orderly =>
             /\ Sorted(fl)
             /\ file # NoName => UpTo(fl, file)
             /\ \A f \in DOMAIN fl : \A i \in 1 .. Len(fl[f]) : Mine(fl[f][i]) => Logged(fl[f][i])
             /\ \A i \in 1 .. Len(log) : OnChunk(fl, log[i])
    BY <1>3, <1>5, FlushedKept, FlushedLog
  <1>7. /\ <<>> \in Seq(Record) /\ Len(<<>>) = 0 /\ Len(<<>>) < BufCap /\ ids - Len(<<>>) = ids
        /\ 1 .. Len(<<>>) = {}
    BY <1>4
  <1>8. CASE file = NoName \/ currentName # file
    <2>1. PICK d : d = With(fl, currentName, <<>>)
      OBVIOUS
    <2>2. disk' = d /\ buffer' = Append(<<>>, rec) /\ isOpen'
      <3>1. disk' = d /\ buffer' = Buffered(<<>>, rec) /\ isOpen'
        BY <1>1, <1>5, <1>8, <2>1 DEF WriteLocked, Reopens
      <3> QED
        BY <1>4, <1>7, <3>1 DEF Buffered
    <2>3. Reopens
      BY <1>8 DEF Reopens
    <2>4. /\ Below(d, ids)
          /\ Orderly =>
               /\ Sorted(d) /\ UpTo(d, currentName)
               /\ \A f \in DOMAIN d : \A i \in 1 .. Len(d[f]) : Mine(d[f][i]) => Logged(d[f][i])
               /\ \A i \in 1 .. Len(log) : OnChunk(d, log[i])
      BY <1>3, <1>5, <2>1, <2>3, OpenedKept
    <2>5. Below(d, ids - Len(<<>>))
      BY <1>7, <2>4
    <2> QED
      BY <1>1, <1>2, <1>7, <2>2, <2>4, <2>5, WriteToKept
  <1>9. CASE ~(file = NoName \/ currentName # file) /\ Len(buffer) = BufCap
    <2>1. disk' = fl /\ buffer' = Append(<<>>, rec) /\ isOpen' = isOpen
      <3>1. disk' = fl /\ buffer' = <<rec>> /\ isOpen' = isOpen
        BY <1>1, <1>5, <1>9 DEF WriteLocked, Reopens, Buffered, OutputOK, OutputTypeOK
      <3> QED
        BY <3>1
    <2>2. Below(fl, ids - Len(<<>>))
      BY <1>6, <1>7
    <2>3. Orderly /\ (phase = "record" \/ limited) => isOpen
      BY <1>3, <1>9 DEF KeptOK, Covered
    <2> QED
      BY <1>1, <1>2, <1>6, <1>7, <1>9, <2>1, <2>2, <2>3, WriteToKept
  <1>10. CASE ~(file = NoName \/ currentName # file) /\ Len(buffer) # BufCap
    <2>1. disk' = disk /\ buffer' = Append(buffer, rec) /\ isOpen' = isOpen
      BY <1>1, <1>10 DEF WriteLocked, Reopens, Buffered, OutputOK, OutputTypeOK
    <2>2. /\ Len(buffer) < BufCap
          /\ \A j \in 1 .. Len(buffer) : buffer[j].run = run /\ buffer[j].id = ids - Len(buffer) + j
          /\ Below(disk, ids - Len(buffer))
      BY <1>4, <1>10 DEF KeptOK, BufferNumbered
    <2>3. ASSUME Orderly
          PROVE  /\ Sorted(disk) /\ UpTo(disk, currentName) /\ (phase = "record" \/ limited => isOpen)
                 /\ \A f \in DOMAIN disk : \A i \in 1 .. Len(disk[f]) : Mine(disk[f][i]) => Logged(disk[f][i])
                 /\ \A j \in 1 .. Len(buffer) : Logged(buffer[j])
                 /\ \A i \in 1 .. Len(log) :
                       \/ OnChunk(disk, log[i])
                       \/ (phase = "record" \/ limited) /\ \E j \in 1 .. Len(buffer) : buffer[j] = log[i]
      <3>1. Sorted(disk) /\ UpTo(disk, currentName)
        BY <1>3, <1>10, <2>3 DEF KeptOK, DiskSorted, NamesFollow
      <3> QED
        BY <1>3, <1>10, <2>3, <3>1 DEF KeptOK, Covered, Running
    <2> QED
      BY <1>1, <1>2, <1>4, <2>1, <2>2, <2>3, WriteToKept
  <1> QED
    BY <1>8, <1>9, <1>10

\* The end of a file may be torn, which is no payload.
LEMMA TornPlaces ==
  ASSUME OutputOK, Exit
  PROVE  /\ DOMAIN disk' = DOMAIN disk
         /\ \A f \in DOMAIN disk : \A i \in 1 .. Len(disk'[f]) :
               disk'[f][i] # Torn => i \in 1 .. Len(disk[f]) /\ disk'[f][i] = disk[f][i]
         /\ \A f \in DOMAIN disk : \A i \in 1 .. Len(disk[f]) :
               i \in 1 .. Len(disk'[f]) /\ disk'[f][i] = disk[f][i]
  <1>1. CASE disk' = disk
    BY <1>1
  <1>2. CASE file \in DOMAIN disk /\ disk' = [disk EXCEPT ![file] = Append(@, Torn)]
    <2>1. /\ DOMAIN disk' = DOMAIN disk
          /\ \A f \in DOMAIN disk \ {file} : disk'[f] = disk[f]
          /\ disk'[file] = Append(disk[file], Torn)
      BY <1>2
    <2>2. disk[file] \in Seq(Record \cup {Torn})
      BY <1>2, KeptTypes
    <2>3. PICK m \in Nat : m = Len(disk[file])
      BY <2>2
    <2>4. /\ Len(disk'[file]) = m + 1 /\ disk'[file][m + 1] = Torn
          /\ \A i \in 1 .. m : disk'[file][i] = disk[file][i]
      BY <2>1, <2>2, <2>3
    <2>5. \A i \in 1 .. (m + 1) : i \in 1 .. m \/ i = m + 1
      BY <2>3
    <2>6. \A i \in 1 .. m : i \in 1 .. (m + 1)
      BY <2>3
    <2> QED
      BY <2>1, <2>3, <2>4, <2>5, <2>6
  <1> QED
    BY <1>1, <1>2 DEF Exit, Left, OutputOK, Started

\* Flush, Close, and the end of the process.
LEMMA EndKept ==
  ASSUME OutputOK, OutputOK', KeptOK, Flush \/ Close \/ Exit, epc' = epc
  PROVE  KeptOK'
  <1>1. /\ Running /\ UNCHANGED <<stem, run, log, ids>> /\ (Orderly' => Orderly)
    BY DEF Flush, Close, Exit, Ends, Running, control, history, Orderly
  <1>2. ids \in Nat /\ Len(buffer) \in Nat /\ Len(<<>>) = 0 /\ 1 .. 0 = {} /\ BufCap \in Nat
    BY KeptTypes
  <1>3. LogNumbered /\ BufferNumbered /\ DiskSorted /\ NamesFollow /\ Covered /\ ReplayingOK
    BY DEF KeptOK
  <1>4. LogNumbered'
    <2>1. phase' = "record" => phase = "record"
      BY DEF Flush, Close, Exit, Ends
    <2> QED
      BY <1>1, <1>3, <2>1 DEF LogNumbered
  <1>a. ReplayingOK'
    BY <1>1, <1>3 DEF ReplayingOK, Running
  <1>5. CASE Exit
    <2>1. phase' = "idle" /\ buffer' = <<>>
      BY <1>5 DEF Exit, Ends
    <2>2. /\ DOMAIN disk' = DOMAIN disk
          /\ \A f \in DOMAIN disk : \A i \in 1 .. Len(disk'[f]) :
                disk'[f][i] # Torn => i \in 1 .. Len(disk[f]) /\ disk'[f][i] = disk[f][i]
      BY <1>5, TornPlaces
    <2>3. BufferNumbered'
      <3>1. \A f \in DOMAIN disk : \A i \in 1 .. Len(disk[f]) : Mine(disk[f][i]) => disk[f][i].id <= ids
        <4>1. \A f \in DOMAIN disk : \A i \in 1 .. Len(disk[f]) :
                 Mine(disk[f][i]) => disk[f][i].id \in Nat /\ disk[f][i].id <= ids - Len(buffer)
          BY <1>3, KeptTypes DEF BufferNumbered, Below, Mine
        <4>2. \A x \in Nat : x <= ids - Len(buffer) => x <= ids
          BY <1>2
        <4> QED
          BY <4>1, <4>2
      <3>2. (Below(disk, ids))'
        BY <1>1, <2>2, <3>1 DEF Below, Mine
      <3>3. ids - 0 = ids /\ 0 <= BufCap
        BY <1>2
      <3> QED
        BY <1>1, <1>2, <2>1, <3>2, <3>3 DEF BufferNumbered
    <2>4. DiskSorted'
      <3> SUFFICES ASSUME Orderly PROVE (Sorted(disk))'
        BY <1>1 DEF DiskSorted
      <3>1. Sorted(disk)
        BY <1>3 DEF DiskSorted
      <3> QED
        BY <1>1, <2>2, <3>1 DEF Sorted, Mine
    <2>5. NamesFollow' /\ Covered'
      BY <2>1 DEF NamesFollow, Covered, Running
    <2> QED
      BY <1>4, <1>a, <2>3, <2>4, <2>5 DEF KeptOK
  <1>6. CASE (Flush \/ (Close /\ limited)) /\ disk' = disk /\ buffer' = buffer /\ isOpen' = isOpen
    <2>1. UNCHANGED <<config, nameVars, file, wpc>> /\ phase' \in {phase, "closed"} /\ Running'
          /\ (phase' = phase \/ limited)
      BY <1>1, <1>6 DEF Flush, Close, control, Running
    <2>2. BufferNumbered' /\ DiskSorted'
      BY <1>1, <1>3, <1>6 DEF BufferNumbered, Below, DiskSorted, Sorted, Mine
    <2>3. NamesFollow'
      BY <1>1, <1>3, <1>6, <2>1 DEF NamesFollow, OnChunk, UpTo, Mine, config, nameVars
    <2>4. \A r : Logged(r) => (Logged(r))'
      BY <1>1, <2>1 DEF Logged, Running
    <2>5. Covered'
      <3> SUFFICES ASSUME Orderly PROVE Covered'
        BY <1>1 DEF Covered
      <3>1. /\ \A f \in DOMAIN disk : \A i \in 1 .. Len(disk[f]) : Mine(disk[f][i]) => Logged(disk[f][i])
            /\ \A j \in 1 .. Len(buffer) : Logged(buffer[j])
            /\ phase = "record" \/ limited =>
                 /\ file # NoName => isOpen
                 /\ \A i \in 1 .. Len(log) :
                       OnChunk(disk, log[i]) \/ \E j \in 1 .. Len(buffer) : buffer[j] = log[i]
            /\ phase = "closed" /\ ~limited => \A i \in 1 .. Len(log) : OnChunk(disk, log[i])
        BY <1>1, <1>3 DEF Covered
      <3>2. \A f \in DOMAIN disk : \A i \in 1 .. Len(disk[f]) : Mine(disk[f][i]) => (Logged(disk[f][i]))'
        BY <1>6, <2>4, <3>1 DEF Logged
      <3>3. \A j \in 1 .. Len(buffer) : (Logged(buffer[j]))'
        BY <1>6, <2>4, <3>1 DEF Logged
      <3> QED
        BY <1>1, <1>6, <2>1, <3>1, <3>2, <3>3 DEF Covered, OnChunk, Mine, config, Running
    <2> QED
      BY <1>4, <1>a, <2>2, <2>3, <2>5 DEF KeptOK
  <1>7. CASE (Flush \/ Close) /\ disk' = Flushed(disk) /\ buffer' = <<>>
    <2>1. /\ UNCHANGED <<config, nameVars, file, wpc>> /\ phase' \in {phase, "closed"} /\ Running'
          /\ phase' = "record" \/ limited => isOpen' = isOpen
      BY <1>1, <1>7 DEF Flush, Close, control, Running, config
    <2>2. PICK d : d = Flushed(disk)
      OBVIOUS
    <2>3. /\ DOMAIN d = DOMAIN disk
          /\ Below(d, ids)
          /\ Orderly =>
               /\ Sorted(d)
               /\ file # NoName => UpTo(d, file)
               /\ \A f \in DOMAIN d : \A i \in 1 .. Len(d[f]) : Mine(d[f][i]) => Logged(d[f][i])
               /\ \A i \in 1 .. Len(log) : OnChunk(d, log[i])
      BY <1>1, <2>2, FlushedKept, FlushedLog
    <2>4. BufferNumbered'
      <3>1. (Below(disk, ids))'
        BY <1>1, <1>7, <2>2, <2>3 DEF Below, Mine
      <3>2. ids - 0 = ids /\ 0 <= BufCap
        BY <1>2
      <3> QED
        BY <1>1, <1>2, <1>7, <3>1, <3>2 DEF BufferNumbered
    <2>5. DiskSorted'
      BY <1>1, <1>7, <2>2, <2>3 DEF DiskSorted, Sorted, Mine
    <2>6. NamesFollow'
      <3>1. file = NoName => d = disk
        BY <2>2 DEF Flushed
      <3> QED
        BY <1>1, <1>3, <1>7, <2>1, <2>2, <2>3, <3>1 DEF NamesFollow, OnChunk, UpTo, Mine, config, nameVars
    <2>7. \A r : Logged(r) => (Logged(r))'
      BY <1>1, <2>1 DEF Logged, Running
    <2>8. Covered'
      <3> SUFFICES ASSUME Orderly PROVE Covered'
        BY <1>1 DEF Covered
      <3>1. ASSUME NEW f \in DOMAIN d, NEW i \in 1 .. Len(d[f]), Mine(d[f][i]) PROVE (Logged(disk[f][i]))'
        <4>1. PICK r : r = d[f][i]
          OBVIOUS
        <4>2. (Logged(r))'
          BY <1>1, <2>3, <2>7, <3>1, <4>1
        <4>3. disk'[f][i] = r
          BY <1>7, <2>2, <4>1
        <4> QED
          BY <4>2, <4>3 DEF Logged
      <3>2. phase' = "record" \/ limited' => (file' # NoName => isOpen')
        <4>1. phase' = "record" \/ limited' => phase = "record" \/ limited
          BY <2>1 DEF config
        <4> QED
          BY <1>1, <1>3, <2>1, <4>1 DEF Covered, config
      <3>3. \A i \in 1 .. Len(log') : (OnChunk(disk, log[i]))'
        BY <1>1, <1>7, <2>2, <2>3 DEF OnChunk
      <3>4. \A j \in 1 .. Len(buffer') : (Logged(buffer[j]))'
        BY <1>2, <1>7
      <3> QED
        BY <1>1, <1>7, <2>2, <3>1, <3>2, <3>3, <3>4 DEF Covered, Mine
    <2> QED
      BY <1>4, <1>a, <2>4, <2>5, <2>6, <2>8 DEF KeptOK
  <1>8. CASE Flush
    <2>1. isOpen' = isOpen
      BY <1>8 DEF Flush
    <2>2. \/ disk' = disk /\ buffer' = buffer
          \/ disk' = Flushed(disk) /\ buffer' = <<>>
      <3>1. CASE file = NoName
        BY <1>8, <3>1 DEF Flush
      <3>2. CASE file # NoName /\ isOpen
        BY <1>8, <3>2 DEF Flush
      <3>3. CASE file # NoName /\ ~isOpen
        BY <1>8, <3>3 DEF Flush, Flushed
      <3> QED
        BY <3>1, <3>2, <3>3
    <2>3. CASE disk' = disk /\ buffer' = buffer
      BY <1>6, <1>8, <2>1, <2>3, Zenon
    <2>4. CASE disk' = Flushed(disk) /\ buffer' = <<>>
      BY <1>7, <1>8, <2>4, Zenon
    <2> QED
      BY <2>2, <2>3, <2>4
  <1>9. CASE Close
    BY <1>6, <1>7, <1>9 DEF Close
  <1> QED
    BY <1>5, <1>8, <1>9

\* A kill inside of Write.
LEMMA KilledKept ==
  ASSUME OutputOK, OutputOK', KeptOK, NEW w \in Writers, KilledOpening(w), epc' = epc
  PROVE  KeptOK'
  <1>1. PICK d : d = With(Flushed(disk), currentName, <<>>)
    OBVIOUS
  <1>2. /\ Running /\ UNCHANGED <<stem, run, log, ids>> /\ (Orderly' => Orderly)
        /\ disk' = d /\ buffer' = <<>> /\ phase' = "idle"
    BY <1>1 DEF KilledOpening, Ends, history, Orderly
  <1>3. Below(d, ids) /\ (Orderly => Sorted(d))
    BY <1>1, OpenedKept DEF KilledOpening
  <1>4. ids \in Nat /\ Len(<<>>) = 0 /\ 1 .. 0 = {} /\ 0 <= BufCap /\ ids - 0 = ids
    BY KeptTypes
  <1>5. LogNumbered'
    BY <1>2 DEF KeptOK, LogNumbered
  <1>6. BufferNumbered'
    <2>1. (Below(disk, ids))'
      BY <1>2, <1>3 DEF Below, Mine
    <2> QED
      BY <1>2, <1>4, <2>1 DEF BufferNumbered
  <1>7. DiskSorted'
    BY <1>2, <1>3 DEF DiskSorted, Sorted, Mine
  <1>8. NamesFollow' /\ Covered' /\ ReplayingOK'
    BY <1>2 DEF NamesFollow, Covered, ReplayingOK, KeptOK, Running
  <1> QED
    BY <1>5, <1>6, <1>7, <1>8 DEF KeptOK

\* No step of a recording or a replay loses a payload.
LEMMA NextKept == OutputOK /\ ChunksOK /\ KeptOK /\ [Next]_vars => KeptOK'
  <1> SUFFICES ASSUME OutputOK, ChunksOK, KeptOK, [Next]_vars PROVE KeptOK'
    OBVIOUS
  <1>1. OutputOK'
    BY NextOutputOK
  <1>2. CASE UNCHANGED outVars /\ (epc = "off" <=> epc' = "off")
    <2>1. /\ UNCHANGED <<log, run, ids, phase, buffer, disk, config, nameVars, file, isOpen, wpc, stem>>
          /\ (Orderly' <=> Orderly)
      BY <1>2 DEF outVars, fileVars, control, history, Orderly
    <2>2. LogNumbered' /\ BufferNumbered' /\ DiskSorted'
      BY <2>1 DEF KeptOK, LogNumbered, BufferNumbered, Below, DiskSorted, Sorted, Mine
    <2>3. NamesFollow'
      BY <2>1 DEF KeptOK, NamesFollow, OnChunk, UpTo, Mine, config, nameVars, Running
    <2>4. Covered'
      BY <2>1 DEF KeptOK, Covered, OnChunk, Logged, Mine, config, Running
    <2>5. ReplayingOK'
      BY <1>2, <2>1 DEF KeptOK, ReplayingOK, Running
    <2> QED
      BY <2>2, <2>3, <2>4, <2>5 DEF KeptOK
  <1>3. CASE StartReplay
    <2>1. /\ UNCHANGED <<run, ids, phase, buffer, disk>> /\ log' = <<>> /\ phase = "idle"
          /\ epc' # "off"
      BY <1>3 DEF StartReplay, NewFileInput
    <2>2. LogNumbered' /\ BufferNumbered' /\ DiskSorted'
      BY <2>1 DEF KeptOK, LogNumbered, BufferNumbered, Below, DiskSorted, Orderly, Mine
    <2>3. NamesFollow' /\ Covered' /\ ReplayingOK'
      BY <2>1 DEF NamesFollow, Covered, ReplayingOK, Running
    <2> QED
      BY <2>2, <2>3 DEF KeptOK
  <1>4. CASE OutputNext /\ epc = "off" /\ epc' = epc
    BY <1>1, <1>4, NewRunKept, NamesKept, WriteLockedKept, KilledKept, EndKept DEF OutputNext, NamesStep
  <1>5. InputNext \/ UNCHANGED inVars => (epc = "off" <=> epc' = "off")
    BY DEF InputNext, emit, EmitStopped, EmitNext, EmitEnd, EmitLoop, EmitRead, EmitSend, Read,
           ReadStopped, InputClose, inVars
  <1> QED
    BY <1>2, <1>3, <1>4, <1>5 DEF Next, vars, inVars

\* r is one of the first n payloads of the log; r was written after them all.
Written(r, n) == \E i \in 1 .. n : r = log[i]
Later(r) == \A i \in 1 .. Len(log) : log[i].id < r.id

\* What a run that has ended has left on disk.
LeftOK ==
    phase = "idle" /\ Orderly =>
        \E n \in 0 .. Len(log) :
            /\ \A i \in 1 .. n : OnChunk(disk, log[i])
            /\ \/ /\ n = Len(log)
                  /\ \A f \in DOMAIN disk : \A i \in 1 .. Len(disk[f]) :
                        Mine(disk[f][i]) => Written(disk[f][i], Len(log)) \/ Later(disk[f][i])
               \/ /\ Len(log) - n <= BufCap
                  /\ \A f \in DOMAIN disk : \A i \in 1 .. Len(disk[f]) :
                        Mine(disk[f][i]) => Written(disk[f][i], n)

\* Spots are the places of a run's payloads.
LEMMA SpotIs ==
  ASSUME OutputOK
  PROVE  /\ \A p \in Spots : /\ p[1] \in DOMAIN disk /\ p[2] \in 1 .. Len(disk[p[1]])
                             /\ Mine(At(p)) /\ p = <<p[1], p[2]>>
                             /\ At(p) = disk[p[1]][p[2]]
         /\ \A f \in DOMAIN disk : \A i \in 1 .. Len(disk[f]) :
               Mine(disk[f][i]) => <<f, i>> \in Spots /\ At(<<f, i>>) = disk[f][i]
  <1>1. \A f \in DOMAIN disk : DOMAIN disk[f] = 1 .. Len(disk[f])
    <2>1. ASSUME NEW S, NEW q \in Seq(S) PROVE DOMAIN q = 1 .. Len(q)
      OBVIOUS
    <2> QED
      BY <2>1, KeptTypes
  <1>2. \A p : p \in Spots <=> \E f \in DOMAIN disk :
                 \E i \in 1 .. Len(disk[f]) : p = <<f, i>> /\ Mine(disk[f][i])
    BY <1>1 DEF Spots, Mine
  <1> QED
    BY <1>2 DEF At

\* Two payloads of a run on a sorted disk are in the order of their numbers.
LEMMA SpotOrder ==
  ASSUME OutputOK, Sorted(disk), NEW p \in Spots, NEW q \in Spots
  PROVE  /\ At(p).id \in Nat /\ At(q).id \in Nat
         /\ At(p).id < At(q).id <=> Precedes(p, q)
  <1>1. /\ p[1] \in DOMAIN disk /\ p[2] \in 1 .. Len(disk[p[1]]) /\ Mine(At(p))
        /\ p = <<p[1], p[2]>> /\ At(p) = disk[p[1]][p[2]]
        /\ q[1] \in DOMAIN disk /\ q[2] \in 1 .. Len(disk[q[1]]) /\ Mine(At(q))
        /\ q = <<q[1], q[2]>> /\ At(q) = disk[q[1]][q[2]]
    BY SpotIs
  <1>2. At(p).id \in Nat /\ At(q).id \in Nat
    BY <1>1, KeptTypes DEF Mine
  <1>3. (Precedes(p, q) => At(p).id < At(q).id) /\ (Precedes(q, p) => At(q).id < At(p).id)
    BY <1>1 DEF Sorted
  <1>4. p = q \/ Precedes(p, q) \/ Precedes(q, p)
    <2>1. p[1] \in Name /\ q[1] \in Name /\ p[2] \in Int /\ q[2] \in Int
      BY <1>1, KeptTypes
    <2>2. CASE p[1] = q[1]
      BY <1>1, <2>1, <2>2 DEF Precedes
    <2>3. CASE p[1] # q[1]
      BY <2>1, <2>3, NameOrder DEF Precedes
    <2> QED
      BY <2>2, <2>3
  <1>5. p = q => At(p).id = At(q).id
    OBVIOUS
  <1>6. \A a, b \in Nat : ~(a < b /\ b < a) /\ (a = b => ~(a < b))
    OBVIOUS
  <1> QED
    BY <1>2, <1>3, <1>4, <1>5, <1>6

\* Payloads with growing numbers, all on a sorted disk, are there in order.
LEMMA OrderedIf ==
  ASSUME OutputOK, Sorted(disk), NEW s \in Seq(Record),
         \A i \in 1 .. Len(s) : Mine(s[i]) /\ OnChunk(disk, s[i]),
         \A i, j \in 1 .. Len(s) : i < j <=> s[i].id < s[j].id
  PROVE  InOrder(s)
  <1>1. DOMAIN s = 1 .. Len(s)
    OBVIOUS
  <1>2. \A i \in DOMAIN s : \E p \in Spots : At(p) = s[i]
    <2> SUFFICES ASSUME NEW i \in DOMAIN s PROVE \E p \in Spots : At(p) = s[i]
      OBVIOUS
    <2>1. PICK f \in DOMAIN disk : \E k \in 1 .. Len(disk[f]) : disk[f][k] = s[i]
      BY <1>1 DEF OnChunk
    <2>2. PICK k \in 1 .. Len(disk[f]) : disk[f][k] = s[i]
      BY <2>1
    <2>3. <<f, k>> \in Spots /\ At(<<f, k>>) = s[i]
      BY <1>1, <2>2, SpotIs
    <2> QED
      BY <2>3
  <1>3. ASSUME NEW p \in Spots, NEW q \in Spots, NEW i \in DOMAIN s, NEW j \in DOMAIN s,
               At(p) = s[i], At(q) = s[j]
        PROVE  Precedes(p, q) <=> i < j
    <2>1. At(p).id < At(q).id <=> Precedes(p, q)
      BY SpotOrder
    <2>2. i < j <=> s[i].id < s[j].id
      BY <1>1
    <2> QED
      BY <1>3, <2>1, <2>2
  <1> QED
    BY <1>2, <1>3 DEF InOrder

\* The log is numbered in its order.
LEMMA LogGrows ==
  ASSUME OutputOK, LogNumbered
  PROVE  /\ \A i \in 1 .. Len(log) : Mine(log[i])
         /\ \A i, j \in 1 .. Len(log) : i < j <=> log[i].id < log[j].id
  <1>1. \A i \in 1 .. Len(log) : Mine(log[i])
    BY KeptTypes, Limits DEF LogNumbered, Mine
  <1>2. ASSUME NEW i \in 1 .. Len(log), NEW j \in 1 .. Len(log) PROVE i < j <=> log[i].id < log[j].id
    <2>1. log[j].id - log[i].id = j - i /\ log[i].id \in Nat /\ log[j].id \in Nat /\ Len(log) \in Nat
      BY KeptTypes DEF LogNumbered
    <2>2. \A a, b, c, d \in Int : b - a = d - c => (c < d <=> a < b)
      OBVIOUS
    <2>3. log[j].id \in Int /\ log[i].id \in Int /\ i \in Int /\ j \in Int
      BY <2>1
    <2> QED
      BY <2>1, <2>2, <2>3
  <1> QED
    BY <1>1, <1>2

\* The first payloads of the log are all that is on disk.
LEMMA HoldsIf ==
  ASSUME OutputOK, LogNumbered, Sorted(disk), NEW n \in 0 .. Len(log),
         \A i \in 1 .. n : OnChunk(disk, log[i]),
         \A f \in DOMAIN disk : \A i \in 1 .. Len(disk[f]) : Mine(disk[f][i]) => Written(disk[f][i], n)
  PROVE  Holds(SubSeq(log, 1, n))
  <1>1. PICK s : s = SubSeq(log, 1, n)
    OBVIOUS
  <1>2. n \in Nat /\ log \in Seq(Record) /\ Len(log) \in Nat /\ n <= Len(log)
    BY KeptTypes
  <1>3. /\ s \in Seq(Record) /\ Len(s) = n /\ DOMAIN s = 1 .. n
        /\ \A i \in 1 .. n : s[i] = log[i] /\ i \in 1 .. Len(log)
    BY <1>1, <1>2
  <1>4. InOrder(s)
    BY <1>3, LogGrows, OrderedIf
  <1>5. ASSUME NEW p \in Spots PROVE At(p) \in Range(s)
    <2>1. Written(At(p), n)
      BY SpotIs
    <2> QED
      BY <1>3, <2>1 DEF Written, Range
  <1> QED
    BY <1>1, <1>4, <1>5 DEF Holds

\* The whole log is on disk, before what was written after Close.
LEMMA BeginsIf ==
  ASSUME OutputOK, LogNumbered, Sorted(disk),
         \A i \in 1 .. Len(log) : OnChunk(disk, log[i]),
         \A f \in DOMAIN disk : \A i \in 1 .. Len(disk[f]) :
            Mine(disk[f][i]) => Written(disk[f][i], Len(log)) \/ Later(disk[f][i])
  PROVE  Begins(log)
  <1>1. log \in Seq(Record) /\ DOMAIN log = 1 .. Len(log)
    BY KeptTypes
  <1>2. InOrder(log)
    BY <1>1, LogGrows, OrderedIf
  <1>3. ASSUME NEW p \in Spots, NEW q \in Spots, At(p) \in Range(log), At(q) \notin Range(log)
        PROVE  Precedes(p, q)
    <2>1. PICK i \in 1 .. Len(log) : At(p) = log[i]
      BY <1>1, <1>3 DEF Range
    <2>2. Later(At(q))
      <3>1. Written(At(q), Len(log)) \/ Later(At(q))
        BY SpotIs
      <3> QED
        BY <1>1, <1>3, <3>1 DEF Written, Range
    <2>3. At(p).id < At(q).id
      BY <2>1, <2>2 DEF Later
    <2> QED
      BY <2>3, SpotOrder
  <1> QED
    BY <1>2, <1>3 DEF Begins

\* The buffered writer has the end of the log, and the disk what is before it.
LEMMA TailBuffered ==
  ASSUME OutputOK, KeptOK, Running, Orderly, phase = "record" \/ limited,
         NEW n \in 0 .. Len(log), phase = "record" \/ n < Len(log),
         \A i \in 1 .. Len(log) : log[i].id = ids - Len(buffer) + i - n
  PROVE  /\ \A i \in 1 .. n : OnChunk(disk, log[i])
         /\ \A f \in DOMAIN disk : \A i \in 1 .. Len(disk[f]) : Mine(disk[f][i]) => Written(disk[f][i], n)
  <1>1. ids \in Nat /\ Len(buffer) \in Nat /\ Len(log) \in Nat /\ n \in Nat /\ n <= Len(log)
    BY KeptTypes
  <1>2. PICK c \in Int : c = ids - Len(buffer)
    <2>1. ids - Len(buffer) \in Int
      BY ONLY <1>1
    <2> QED
      BY <2>1
  <1>3. /\ \A i \in 1 .. Len(log) : log[i].id = c + i - n
        /\ \A j \in 1 .. Len(buffer) : buffer[j].id = c + j
    BY <1>2 DEF KeptOK, BufferNumbered
  <1>4. ASSUME NEW i \in 1 .. n PROVE OnChunk(disk, log[i])
    <2>1. i \in 1 .. Len(log)
      BY <1>1
    <2>2. OnChunk(disk, log[i]) \/ \E j \in 1 .. Len(buffer) : buffer[j] = log[i]
      BY <2>1 DEF KeptOK, Covered
    <2>3. ASSUME NEW j \in 1 .. Len(buffer), buffer[j] = log[i] PROVE FALSE
      <3>1. c + j = c + i - n
        BY <1>3, <2>1, <2>3
      <3>2. i \in Int /\ j \in Int /\ i <= n /\ j >= 1
        BY <1>1
      <3> QED
        BY <1>1, <1>2, <3>1, <3>2
    <2> QED
      BY <2>2, <2>3
  <1>5. ASSUME NEW f \in DOMAIN disk, NEW k \in 1 .. Len(disk[f]), Mine(disk[f][k])
        PROVE  Written(disk[f][k], n)
    <2>1. PICK r : r = disk[f][k]
      OBVIOUS
    <2>2. r.id \in Nat /\ r.id <= c /\ Logged(r)
      BY <1>2, <1>5, <2>1, KeptTypes DEF KeptOK, BufferNumbered, Below, Covered, Mine
    <2>3. ASSUME NEW i \in 1 .. Len(log), r = log[i] PROVE i \in 1 .. n
      <3>1. r.id = c + i - n
        BY <1>3, <2>3
      <3> QED
        BY <1>1, <1>2, <2>2, <3>1
    <2>4. ASSUME phase = "closed", \A i \in 1 .. Len(log) : log[i].id < r.id PROVE FALSE
      <3>1. Len(log) \in 1 .. Len(log) /\ n < Len(log)
        BY <1>1, <2>4
      <3>2. log[Len(log)].id = c + Len(log) - n /\ log[Len(log)].id < r.id
        BY <1>3, <2>4, <3>1
      <3> QED
        BY <1>1, <1>2, <2>2, <3>1, <3>2
    <2> QED
      BY <2>1, <2>2, <2>3, <2>4 DEF Logged, Written
  <1> QED
    BY <1>4, <1>5

\* A run that records has its log on disk and in the buffered writer, or on disk alone.
LEMMA KeptRuns == OutputOK /\ KeptOK => RunKept
  <1> SUFFICES ASSUME OutputOK, KeptOK, Running, Orderly PROVE RunKept
    BY DEF RunKept, KeptOK, ReplayingOK, Orderly, Running
  <1>1. LogNumbered /\ BufferNumbered /\ Sorted(disk) /\ Covered
    BY DEF KeptOK, DiskSorted
  <1>2. ids \in Nat /\ Len(buffer) \in Nat /\ Len(log) \in Nat
        /\ log \in Seq(Record) /\ buffer \in Seq(Record)
    BY KeptTypes
  <1>3. ASSUME phase = "record"
        PROVE  \E n \in 0 .. Len(log) :
                  Holds(SubSeq(log, 1, n)) /\ buffer = SubSeq(log, n + 1, Len(log))
    <2>1. PICK n : n = Len(log) - Len(buffer)
      OBVIOUS
    <2>2. ASSUME NEW j \in 1 .. Len(buffer)
          PROVE  n + j \in 1 .. Len(log) /\ buffer[j] = log[n + j]
      <3>1. PICK i \in 1 .. Len(log) : buffer[j] = log[i]
        BY <1>1, <1>3, <2>2 DEF Covered, Running, Logged
      <3>2. buffer[j].id = ids - Len(buffer) + j /\ log[i].id = ids - Len(log) + i
        BY <1>1, <1>3 DEF BufferNumbered, LogNumbered
      <3>3. ids - Len(buffer) + j = ids - Len(log) + i
        BY <3>1, <3>2
      <3>4. i = n + j
        BY <1>2, <2>1, <3>3
      <3> QED
        BY <3>1, <3>4
    <2>3. n \in 0 .. Len(log)
      <3>1. CASE Len(buffer) = 0
        BY <1>2, <2>1, <3>1
      <3>2. CASE Len(buffer) # 0
        <4>1. 1 \in 1 .. Len(buffer)
          BY <1>2, <3>2
        <4>2. n + 1 \in 1 .. Len(log)
          BY <2>2, <4>1
        <4> QED
          BY <1>2, <2>1, <4>2
      <3> QED
        BY <3>1, <3>2
    <2>4. buffer = SubSeq(log, n + 1, Len(log))
      <3>1. PICK b : b = SubSeq(log, n + 1, Len(log))
        OBVIOUS
      <3>2. n \in Nat /\ n <= Len(log) /\ Len(log) - n = Len(buffer)
        BY <1>2, <2>1, <2>3
      <3>3. b \in Seq(Record) /\ Len(b) = Len(buffer)
            /\ \A j \in 1 .. Len(buffer) : b[j] = log[n + j]
        <4>1. /\ b \in Seq(Record) /\ Len(b) = Len(log) - n
              /\ \A j \in 1 .. (Len(log) - n) : b[j] = log[n + j]
          BY <1>2, <3>1, <3>2
        <4> QED
          BY <3>2, <4>1
      <3>4. \A j \in 1 .. Len(buffer) : b[j] = buffer[j]
        BY <2>2, <3>3
      <3> QED
        BY <1>2, <3>1, <3>3, <3>4, SeqEqual
    <2>5. Holds(SubSeq(log, 1, n))
      <3>1. ASSUME NEW i \in 1 .. Len(log) PROVE log[i].id = ids - Len(buffer) + i - n
        <4>1. log[i].id = ids - Len(log) + i
          BY <1>1, <1>3 DEF LogNumbered
        <4> QED
          BY <1>2, <2>1, <4>1
      <3>2. /\ \A i \in 1 .. n : OnChunk(disk, log[i])
            /\ \A f \in DOMAIN disk : \A i \in 1 .. Len(disk[f]) :
                  Mine(disk[f][i]) => Written(disk[f][i], n)
        BY <1>3, <2>3, <3>1, TailBuffered DEF Running
      <3> QED
        BY <1>1, <2>3, <3>2, HoldsIf
    <2> QED
      BY <2>3, <2>4, <2>5
  <1>4. ASSUME phase = "closed", ~limited PROVE Begins(log)
    <2>1. /\ \A i \in 1 .. Len(log) : OnChunk(disk, log[i])
          /\ \A f \in DOMAIN disk : \A i \in 1 .. Len(disk[f]) : Mine(disk[f][i]) => Logged(disk[f][i])
      BY <1>1, <1>4 DEF Covered, Running
    <2>2. \A r : Logged(r) => Written(r, Len(log)) \/ Later(r)
      BY DEF Logged, Written, Later
    <2> QED
      BY <1>1, <2>1, <2>2, BeginsIf
  <1> QED
    BY <1>3, <1>4 DEF RunKept

\* So has a run that has ended, but for the end of the log.
LEMMA LeftLoses == OutputOK /\ KeptOK /\ LeftOK => CrashLosesBuffer
  <1>0. ASSUME OutputOK, log = <<>> PROVE Begins(log)
    <2>1. Range(log) = {} /\ DOMAIN log = {}
      BY <1>0 DEF Range
    <2> QED
      BY <2>1 DEF Begins, InOrder
  <1> SUFFICES ASSUME OutputOK, KeptOK, LeftOK, phase = "idle", Orderly
               PROVE  \/ Begins(log)
                      \/ \E n \in 0 .. Len(log) :
                            Len(log) - n <= BufCap /\ Holds(SubSeq(log, 1, n))
    BY <1>0 DEF CrashLosesBuffer, KeptOK, ReplayingOK, Orderly
  <1>1. LogNumbered /\ Sorted(disk)
    BY DEF KeptOK, DiskSorted
  <1>2. PICK n \in 0 .. Len(log) :
            /\ \A i \in 1 .. n : OnChunk(disk, log[i])
            /\ \/ /\ n = Len(log)
                  /\ \A f \in DOMAIN disk : \A i \in 1 .. Len(disk[f]) :
                        Mine(disk[f][i]) => Written(disk[f][i], Len(log)) \/ Later(disk[f][i])
               \/ /\ Len(log) - n <= BufCap
                  /\ \A f \in DOMAIN disk : \A i \in 1 .. Len(disk[f]) :
                        Mine(disk[f][i]) => Written(disk[f][i], n)
    BY DEF LeftOK
  <1>3. CASE n = Len(log) /\ \A f \in DOMAIN disk : \A i \in 1 .. Len(disk[f]) :
                Mine(disk[f][i]) => Written(disk[f][i], Len(log)) \/ Later(disk[f][i])
    BY <1>1, <1>2, <1>3, BeginsIf
  <1>4. CASE Len(log) - n <= BufCap /\ \A f \in DOMAIN disk : \A i \in 1 .. Len(disk[f]) :
                Mine(disk[f][i]) => Written(disk[f][i], n)
    BY <1>1, <1>2, <1>4, HoldsIf
  <1> QED
    BY <1>2, <1>3, <1>4

\* The payloads that a run may lose are in the buffered writer, at the end of the log.
LEMMA RunningLeaves ==
  ASSUME OutputOK, KeptOK, Running, Orderly
  PROVE  \E n \in 0 .. Len(log) :
            /\ \A i \in 1 .. n : OnChunk(disk, log[i])
            /\ \/ /\ n = Len(log)
                  /\ \A f \in DOMAIN disk : \A i \in 1 .. Len(disk[f]) :
                        Mine(disk[f][i]) => Written(disk[f][i], Len(log)) \/ Later(disk[f][i])
               \/ /\ Len(log) - n <= BufCap
                  /\ \A f \in DOMAIN disk : \A i \in 1 .. Len(disk[f]) :
                        Mine(disk[f][i]) => Written(disk[f][i], n)
  <1>1. LogNumbered /\ BufferNumbered /\ Covered
    BY DEF KeptOK
  <1>2. /\ ids \in Nat /\ Len(buffer) \in Nat /\ Len(log) \in Nat /\ BufCap \in Nat
        /\ \A i \in 1 .. Len(log) : log[i].id \in Nat
    BY KeptTypes
  <1>3. CASE \A i \in 1 .. Len(log) : OnChunk(disk, log[i])
    <2>1. \A f \in DOMAIN disk : \A i \in 1 .. Len(disk[f]) : Mine(disk[f][i]) => Logged(disk[f][i])
      BY <1>1 DEF Covered
    <2>2. \A r : Logged(r) => Written(r, Len(log)) \/ Later(r)
      BY DEF Logged, Written, Later
    <2>3. Len(log) \in 0 .. Len(log)
      BY <1>2
    <2> QED
      BY <1>3, <2>1, <2>2, <2>3
  <1>4. CASE \E m \in 1 .. Len(log) : ~OnChunk(disk, log[m])
    <2>1. PICK m \in 1 .. Len(log) : ~OnChunk(disk, log[m])
      BY <1>4
    <2>2. (phase = "record" \/ limited) /\ \E j \in 1 .. Len(buffer) : buffer[j] = log[m]
      BY <1>1, <2>1 DEF Covered, Running
    <2>3. PICK j \in 1 .. Len(buffer) : buffer[j] = log[m]
      BY <2>2
    <2>4. PICK n : n = m - j
      OBVIOUS
    <2>5. n \in Int /\ m \in Int /\ j \in Int /\ n < m /\ n < Len(log)
      BY <1>2, <2>4
    <2>6. PICK c : c = ids - Len(buffer)
      OBVIOUS
    <2>7. c \in Int
      BY <1>2, <2>6
    <2>8. ASSUME NEW i \in 1 .. Len(log) PROVE log[i].id = c + i - n
      <3>1. log[i].id - log[m].id = i - m /\ log[m].id = c + j
        BY <1>1, <2>1, <2>3, <2>6 DEF LogNumbered, BufferNumbered
      <3>2. log[i].id \in Int /\ log[m].id \in Int /\ i \in Int
        BY <1>2
      <3>3. \A x, y \in Int : x - y = i - m /\ y = c + j => x = c + i - n
        BY ONLY <2>4, <2>5, <2>7, <3>2
      <3> QED
        BY <3>1, <3>2, <3>3
    <2>9. n >= 0
      <3>1. 1 \in 1 .. Len(log) /\ 1 \in 1 .. Len(buffer)
        BY <1>2
      <3>2. log[1].id = c + 1 - n /\ buffer[1].id = c + 1
        BY <1>1, <2>6, <2>8, <3>1 DEF BufferNumbered
      <3>3. Logged(buffer[1])
        BY <1>1, <3>1 DEF Covered
      <3>4. CASE \E i \in 1 .. Len(log) : buffer[1] = log[i]
        <4>1. PICK i \in 1 .. Len(log) : buffer[1] = log[i]
          BY <3>4
        <4>2. c + 1 = c + i - n /\ i \in Int /\ i >= 1
          BY <1>2, <2>8, <3>2, <4>1
        <4> QED
          BY <2>5, <2>7, <4>2
      <3>5. CASE \A i \in 1 .. Len(log) : log[i].id < buffer[1].id
        <4>1. c + 1 - n < c + 1
          BY <3>1, <3>2, <3>5
        <4> QED
          BY <2>5, <2>7, <4>1
      <3> QED
        BY <3>3, <3>4, <3>5 DEF Logged
    <2>10. n \in 0 .. Len(log)
      BY <1>2, <2>5, <2>9
    <2>11. Len(log) - n <= BufCap
      <3>1. Len(log) \in 1 .. Len(log)
        BY <1>2, <2>1
      <3>2. c + Len(log) - n <= ids /\ Len(buffer) <= BufCap
        BY <1>1, <2>8, <3>1 DEF LogNumbered, BufferNumbered
      <3> QED
        BY <1>2, <2>5, <2>6, <3>2
    <2>12. \A i \in 1 .. Len(log) : log[i].id = ids - Len(buffer) + i - n
      BY <2>6, <2>8
    <2>13. /\ \A i \in 1 .. n : OnChunk(disk, log[i])
           /\ \A f \in DOMAIN disk : \A i \in 1 .. Len(disk[f]) :
                 Mine(disk[f][i]) => Written(disk[f][i], n)
      BY <2>2, <2>5, <2>10, <2>12, TailBuffered
    <2> QED
      BY <2>10, <2>11, <2>13
  <1> QED
    BY <1>3, <1>4

\* A run ends, and what it has left stays until the next one.
LEMMA NextLeft == OutputOK /\ KeptOK /\ LeftOK /\ [Next]_vars => LeftOK'
  <1> SUFFICES ASSUME OutputOK, KeptOK, LeftOK, [Next]_vars, phase' = "idle", Orderly' PROVE LeftOK'
    BY DEF LeftOK
  <1>0. CASE Exit /\ epc' = epc
    <2>1. Exit
      BY <1>0
    <2>2. Running /\ Orderly /\ log' = log /\ run' = run
      BY <1>0 DEF Exit, Ends, history, Orderly
    <2>3. /\ DOMAIN disk' = DOMAIN disk
          /\ \A f \in DOMAIN disk : \A i \in 1 .. Len(disk'[f]) :
                disk'[f][i] # Torn => i \in 1 .. Len(disk[f]) /\ disk'[f][i] = disk[f][i]
          /\ \A f \in DOMAIN disk : \A i \in 1 .. Len(disk[f]) :
                i \in 1 .. Len(disk'[f]) /\ disk'[f][i] = disk[f][i]
      BY <2>1, TornPlaces
    <2>4. \A r : OnChunk(disk, r) => (OnChunk(disk, r))'
      BY <2>3 DEF OnChunk
    <2>5. \A f \in DOMAIN disk' : \A i \in 1 .. Len(disk'[f]) :
             (Mine(disk[f][i]))' =>
                f \in DOMAIN disk /\ i \in 1 .. Len(disk[f]) /\ disk'[f][i] = disk[f][i] /\ Mine(disk[f][i])
      BY <2>2, <2>3 DEF Mine
    <2>6. PICK n \in 0 .. Len(log) :
            /\ \A i \in 1 .. n : OnChunk(disk, log[i])
            /\ \/ /\ n = Len(log)
                  /\ \A f \in DOMAIN disk : \A i \in 1 .. Len(disk[f]) :
                        Mine(disk[f][i]) => Written(disk[f][i], Len(log)) \/ Later(disk[f][i])
               \/ /\ Len(log) - n <= BufCap
                  /\ \A f \in DOMAIN disk : \A i \in 1 .. Len(disk[f]) :
                        Mine(disk[f][i]) => Written(disk[f][i], n)
      BY <2>2, RunningLeaves
    <2>7. \A i \in 1 .. n : (OnChunk(disk, log[i]))'
      BY <2>2, <2>4, <2>6 DEF OnChunk
    <2>8. CASE n = Len(log) /\ \A f \in DOMAIN disk : \A i \in 1 .. Len(disk[f]) :
                Mine(disk[f][i]) => Written(disk[f][i], Len(log)) \/ Later(disk[f][i])
      <3>1. \A f \in DOMAIN disk' : \A i \in 1 .. Len(disk'[f]) :
               (Mine(disk[f][i]))' => (Written(disk[f][i], Len(log)))' \/ (Later(disk[f][i]))'
        BY <2>2, <2>5, <2>8 DEF Written, Later
      <3> QED
        BY <2>2, <2>6, <2>7, <2>8, <3>1 DEF LeftOK
    <2>9. CASE Len(log) - n <= BufCap /\ \A f \in DOMAIN disk : \A i \in 1 .. Len(disk[f]) :
                Mine(disk[f][i]) => Written(disk[f][i], n)
      <3>1. \A f \in DOMAIN disk' : \A i \in 1 .. Len(disk'[f]) :
               (Mine(disk[f][i]))' => \E k \in 1 .. n : disk'[f][i] = log'[k]
        BY <2>2, <2>5, <2>9 DEF Written
      <3> QED
        BY <2>2, <2>6, <2>7, <2>9, <3>1 DEF LeftOK, Written
    <2> QED
      BY <2>6, <2>8, <2>9
  <1>1. ASSUME NEW w \in Writers, KilledOpening(w), epc' = epc PROVE LeftOK'
    <2>1. PICK d : d = With(Flushed(disk), currentName, <<>>)
      OBVIOUS
    <2>2. Orderly /\ log' = log /\ run' = run /\ disk' = d
      BY <1>1, <2>1 DEF KilledOpening, Ends, history, Orderly
    <2>3. /\ \A f \in DOMAIN d : \A i \in 1 .. Len(d[f]) : Mine(d[f][i]) => Logged(d[f][i])
          /\ \A i \in 1 .. Len(log) : OnChunk(d, log[i])
      BY <1>1, <2>1, <2>2, OpenedKept DEF KilledOpening
    <2>4. \A r : Logged(r) => Written(r, Len(log)) \/ Later(r)
      BY DEF Logged, Written, Later
    <2>5. \A f \in DOMAIN disk' : \A i \in 1 .. Len(disk'[f]) :
             (Mine(disk[f][i]))' => (Written(disk[f][i], Len(log)))' \/ (Later(disk[f][i]))'
      BY <2>2, <2>3, <2>4 DEF Mine, Written, Later
    <2>6. \A i \in 1 .. Len(log) : (OnChunk(disk, log[i]))'
      BY <2>2, <2>3 DEF OnChunk
    <2>7. Len(log) \in 0 .. Len(log)
      BY KeptTypes
    <2> QED
      BY <2>2, <2>5, <2>6, <2>7 DEF LeftOK
  <1>2. CASE StartReplay
    BY <1>2 DEF StartReplay, NewFileInput, Orderly
  <1>3. CASE UNCHANGED outVars /\ (epc' = "off" => epc = "off")
    <2>1. UNCHANGED <<phase, log, disk, run>> /\ (Orderly' => Orderly)
      BY <1>3 DEF outVars, fileVars, control, history, Orderly
    <2> QED
      BY <2>1 DEF LeftOK, OnChunk, Mine, Written, Later
  <1>4. CASE OutputNext /\ epc' = epc
    <2>1. Exit \/ \E w \in Writers : KilledOpening(w)
      BY <1>4
      DEF OutputNext, NewFileOutput, WriteName, WriteSetName, WriteLocked,
          FlushCheck, FlushName, FlushSetName, Flush, Close, Tick, Running
    <2> QED
      BY <1>0, <1>1, <1>4, <2>1
  <1>5. InputNext \/ UNCHANGED inVars => (epc' = "off" => epc = "off")
    BY DEF InputNext, emit, EmitStopped, EmitNext, EmitEnd, EmitLoop, EmitRead, EmitSend, Read,
           ReadStopped, InputClose, inVars
  <1> QED
    BY <1>2, <1>3, <1>4, <1>5 DEF Next, vars, inVars

\* No payload is on disk twice.
LEMMA OnceNeverTwice == OutputOK /\ RecordedOnce => NeverTwice
  <1> SUFFICES ASSUME OutputOK, RecordedOnce, NEW p \in Spots, NEW q \in Spots, At(p) = At(q)
               PROVE  p = q
    BY DEF NeverTwice
  <1>1. /\ p[1] \in DOMAIN disk /\ p[2] \in 1 .. Len(disk[p[1]]) /\ p = <<p[1], p[2]>>
        /\ q[1] \in DOMAIN disk /\ q[2] \in 1 .. Len(disk[q[1]]) /\ q = <<q[1], q[2]>>
        /\ disk[p[1]][p[2]] = disk[q[1]][q[2]] /\ disk[p[1]][p[2]] # Torn
    BY SpotIs DEF Mine
  <1>2. p[1] = q[1] /\ p[2] = q[2]
    BY <1>1 DEF RecordedOnce, Once
  <1> QED
    BY <1>1, <1>2

(***************************************************************************)
(* For every buffer and any number of writers, payloads, dates and runs:   *)
(* no payload is on disk twice; changing chunks loses and reorders none,   *)
(* Close leaves all of them on disk, and a run that ends otherwise loses   *)
(* at most the end of the log that the buffered writer held, unless a      *)
(* Write has been left with a name before that of the file in use.         *)
(***************************************************************************)
THEOREM RecordingKept == Spec => []RecordingInv
  <1>1. Init => KeptOK /\ ChunksOK /\ LeftOK
    <2> SUFFICES ASSUME Init PROVE KeptOK /\ ChunksOK /\ LeftOK
      OBVIOUS
    <2>1. /\ disk = <<>> /\ buffer = <<>> /\ log = <<>> /\ DOMAIN disk = {} /\ file = NoName
          /\ ids = 0 /\ phase = "idle" /\ Len(<<>>) = 0 /\ 1 .. 0 = {} /\ 0 \in 0 .. 0 /\ BufCap \in Nat
      BY Empty, Limits DEF Init, OutputInit
    <2>2. ChunksOK
      BY <2>1 DEF ChunksOK, RunsOK, RoomOK, ChunkBounded
    <2>3. LogNumbered /\ DiskSorted /\ NamesFollow /\ Covered /\ ReplayingOK
      BY <2>1 DEF LogNumbered, DiskSorted, Sorted, NamesFollow, Covered, ReplayingOK, Running
    <2>4. BufferNumbered
      BY <2>1 DEF BufferNumbered, Below
    <2>5. LeftOK
      BY <2>1 DEF LeftOK
    <2> QED
      BY <2>2, <2>3, <2>4, <2>5 DEF KeptOK
  <1>2. RecordingOK => OutputOK
    BY DEF RecordingOK
  <1>3. RecordingOK /\ KeptOK /\ LeftOK => RecordingInv
    BY KeptRuns, LeftLoses, OnceNeverTwice DEF RecordingInv, RecordingOK, OutputOK
  <1> QED
    BY <1>1, <1>2, <1>3, NextChunks, NextKept, NextLeft, RecordingAlwaysOK, PTL DEF Spec
-----------------------------------------------------------------------------
(* What a replay emits                                                       *)

\* On the disk d only the end of a file is torn, and never that of the file n.
TornAtEnd(d, n) ==
    \A f \in DOMAIN d : \A i \in 1 .. Len(d[f]) :
        d[f][i] = Torn => i = Len(d[f]) /\ f # n

TornLast == TornAtEnd(disk, file)

\* The reader r, at the k-th payload of f, has had the payloads before it emitted, and
\* none behind it; also this one, if r is closed or can not go on.
Replays(r, f, k, e) ==
    /\ \A h \in 1 .. Len(e), l \in 1 .. Len(disk[f]) :
          e[h] = disk[f][l] => l <= k /\ (l = k /\ ~r.closed => LastBeforeTorn(f, k))
    /\ \A l \in 1 .. k : l < k \/ r.closed => \E h \in 1 .. Len(e) : e[h] = disk[f][l]
    /\ r.closed => k = Len(disk[f]) \/ (~gz /\ disk[f][k + 1] = Torn)
    /\ ~r.closed => k > 0

\* A file has a header and nothing else.
Blocked == \E f \in Readable : HeaderOnly(f)

ReplayedOK ==
    ~exit /\ ~Blocked =>
        \A f \in DOMAIN readers : readers[f] # NoReader =>
            Replays(readers[f], f, Passed(readers[f], disk[f]), emitted)

\* A pass ends when no reader is open.
EndedOK == epc = "end" /\ ~exit => Candidates = {}

\* Every payload is emitted in its turn.
EmittedOK ==
    ~Blocked =>
        \A i \in 1 .. Len(emitted) :
            \E f \in Readable : \E k \in 1 .. Len(disk[f]) :
                /\ emitted[i] = disk[f][k] /\ emitted[i] # Torn
                /\ InTurn(f, k, i)

\* The reader r has not come to a payload yet, or has the time of one.
Dated(r, s) == Passed(r, s) = 0 => r.data = NoData /\ r.timestamp = 0

\* The reader of a file that has only a header stays open, at the time 0, and is the
\* first one for ever.
BlockedOK ==
    /\ Blocked => \A i \in 1 .. Len(emitted) : emitted[i] = NoData
    /\ ~exit => \A f \in DOMAIN readers : readers[f] # NoReader =>
           Dated(readers[f], disk[f]) /\ (HeaderOnly(f) => ~readers[f].closed)

PassOK == TornLast /\ ReplayedOK /\ EndedOK /\ EmittedOK /\ BlockedOK

\* A flush adds whole payloads, to a file that is not torn.
LEMMA FlushedTorn ==
  ASSUME OutputOK, TornLast
  PROVE  DOMAIN Flushed(disk) = DOMAIN disk /\ TornAtEnd(Flushed(disk), file)
  <1>1. PICK d : d = Flushed(disk)
    OBVIOUS
  <1>2. DOMAIN d = DOMAIN disk /\ \A f \in DOMAIN disk : f # file => d[f] = disk[f]
    BY <1>1 DEF Flushed
  <1>3. ASSUME NEW f \in DOMAIN d, NEW i \in 1 .. Len(d[f]), d[f][i] = Torn
        PROVE  i = Len(d[f]) /\ f # file
    <2>1. CASE i \in 1 .. Len(disk[f]) /\ d[f][i] = disk[f][i]
      <3>1. i = Len(disk[f]) /\ f # file
        BY <1>2, <1>3, <2>1 DEF TornLast, TornAtEnd
      <3> QED
        BY <1>2, <3>1
    <2>2. CASE i - Len(disk[f]) \in 1 .. Len(buffer) /\ d[f][i] = buffer[i - Len(disk[f])]
      BY <1>3, <2>2, KeptTypes
    <2> QED
      BY <1>1, <1>2, <2>1, <2>2, FlushedPlaces
  <1> QED
    BY <1>1, <1>2, <1>3 DEF TornAtEnd

\* Nor does opening the next chunk tear one.
LEMMA OpenedTorn ==
  ASSUME OutputOK, TornLast, NEW d, d = With(Flushed(disk), currentName, <<>>)
  PROVE  \A f \in DOMAIN d : \A i \in 1 .. Len(d[f]) :
            d[f][i] = Torn => i = Len(d[f]) /\ f # currentName /\ f \in DOMAIN disk
  <1>1. PICK fl : fl = Flushed(disk)
    OBVIOUS
  <1>2. d = With(fl, currentName, <<>>)
    BY <1>1
  <1>3. \A f \in DOMAIN d : f # currentName => f \in DOMAIN fl /\ d[f] = fl[f]
    BY <1>2 DEF With
  <1>4. currentName \in DOMAIN d => d[currentName] = <<>>
    BY <1>2 DEF With
  <1>5. DOMAIN fl = DOMAIN disk /\ TornAtEnd(fl, file)
    BY <1>1, FlushedTorn
  <1>6. ASSUME NEW f \in DOMAIN d, NEW i \in 1 .. Len(d[f]), d[f][i] = Torn
        PROVE  i = Len(d[f]) /\ f # currentName /\ f \in DOMAIN disk
    <2>1. f # currentName
      <3>1. Len(<<>>) = 0 /\ 1 .. 0 = {}
        OBVIOUS
      <3> QED
        BY <1>4, <1>6, <3>1
    <2>2. f \in DOMAIN fl /\ d[f] = fl[f]
      BY <1>3, <2>1
    <2> QED
      BY <1>5, <1>6, <2>1, <2>2 DEF TornAtEnd
  <1> QED
    BY <1>6

\* No step of a recording tears a file but at its end.
LEMMA NextTorn == OutputOK /\ TornLast /\ [Next]_vars => TornLast'
  <1> SUFFICES ASSUME OutputOK, TornLast, [Next]_vars PROVE TornLast'
    OBVIOUS
  <1>1. \A f \in DOMAIN disk : f # NoName
    BY KeptTypes, NoNameIsNone
  <1>2. CASE UNCHANGED <<disk, file>>
    BY <1>2 DEF TornLast, TornAtEnd
  <1>3. CASE NewFileOutput
    BY <1>1, <1>3 DEF NewFileOutput, TornLast, TornAtEnd
  <1>4. CASE disk' = Flushed(disk) /\ file' = file
    <2>1. TornAtEnd(Flushed(disk), file)
      BY FlushedTorn
    <2> QED
      BY <1>4, <2>1 DEF TornLast, TornAtEnd
  <1>5. ASSUME disk' = With(Flushed(disk), currentName, <<>>), file' \in {currentName, NoName}
        PROVE  TornLast'
    <2>1. \A f \in DOMAIN disk' : \A i \in 1 .. Len(disk'[f]) :
             disk'[f][i] = Torn => i = Len(disk'[f]) /\ f # currentName /\ f \in DOMAIN disk
      BY <1>5, OpenedTorn
    <2> QED
      BY <1>1, <1>5, <2>1 DEF TornLast, TornAtEnd
  <1>6. ASSUME NEW w \in Writers, NEW ts \in Stamp, WriteLocked(w, ts) PROVE TornLast'
    <2>1. file' = currentName
      BY <1>6 DEF WriteLocked
    <2>2. CASE Reopens
      BY <1>5, <1>6, <2>1, <2>2 DEF WriteLocked
    <2>3. CASE ~Reopens
      <3>1. disk' \in {disk, Flushed(disk)} /\ file' = file
        BY <1>6, <2>1, <2>3 DEF WriteLocked, Reopens
      <3> QED
        BY <1>2, <1>4, <3>1
    <2> QED
      BY <2>2, <2>3
  <1>7. ASSUME NEW w \in Writers, KilledOpening(w) PROVE TornLast'
    BY <1>5, <1>7 DEF KilledOpening, Ends
  <1>8. CASE Exit
    <2>1. file' = NoName
      BY <1>8 DEF Exit, Ends
    <2>2. CASE disk' = disk
      BY <1>1, <2>1, <2>2 DEF TornLast, TornAtEnd
    <2>3. CASE file \in DOMAIN disk /\ disk' = [disk EXCEPT ![file] = Append(@, Torn)]
      <3>1. /\ DOMAIN disk' = DOMAIN disk
            /\ \A f \in DOMAIN disk \ {file} : disk'[f] = disk[f]
            /\ disk'[file] = Append(disk[file], Torn)
        BY <2>3
      <3>2. disk[file] \in Seq(Record \cup {Torn})
        BY <2>3, KeptTypes
      <3>3. PICK m \in Nat : m = Len(disk[file])
        BY <3>2
      <3>4. Len(disk'[file]) = m + 1 /\ \A i \in 1 .. m : disk'[file][i] = disk[file][i]
        BY <3>1, <3>2, <3>3
      <3>5. ASSUME NEW i \in 1 .. (m + 1), disk'[file][i] = Torn PROVE i = m + 1
        <4>1. i \notin 1 .. m
          BY <2>3, <3>3, <3>4, <3>5 DEF TornLast, TornAtEnd
        <4> QED
          BY <3>3, <4>1
      <3> QED
        BY <1>1, <2>1, <2>3, <3>1, <3>4, <3>5 DEF TornLast, TornAtEnd
    <2> QED
      BY <1>8, <2>2, <2>3 DEF Exit, Left, OutputOK, Started
  <1>9. CASE Flush \/ Close
    <2>1. file' = file /\ disk' \in {disk, Flushed(disk)}
      BY <1>9 DEF Flush, Close
    <2> QED
      BY <1>2, <1>4, <2>1
  <1>10. CASE FlushCheck \/ FlushName \/ FlushSetName \/ Tick \/ StartReplay \/ UNCHANGED outVars
    <2>1. UNCHANGED <<disk, file>>
      BY <1>10 DEF FlushCheck, FlushName, FlushSetName, Tick, StartReplay, outVars, fileVars
    <2> QED
      BY <1>2, <2>1
  <1>11. ASSUME NEW w \in Writers, WriteName(w) \/ WriteSetName(w) PROVE TornLast'
    BY <1>2, <1>11 DEF WriteName, WriteSetName, fileVars
  <1> QED
    BY <1>3, <1>6, <1>7, <1>8, <1>9, <1>10, <1>11 DEF Next, OutputNext, vars

\* parseNext goes on, stays before the missing end of a compressed file, or closes.
LEMMA ParseNextSteps ==
  ASSUME NEW s \in Seq(Record \cup {Torn}), NEW r \in Reader, Inside(r, s), NEW q, q = parseNext(r),
         NEW k, k = Passed(r, s)
  PROVE  /\ k \in Nat
         /\ \/ Passed(q, s) = k + 1 /\ q.closed = r.closed /\ k + 1 \in 1 .. Len(s) /\ s[k + 1] # Torn
            \/ q = r /\ gz /\ k + 1 \in 1 .. Len(s) /\ s[k + 1] = Torn
            \/ /\ Passed(q, s) = k /\ q.closed
               /\ k = Len(s) \/ (~gz /\ s[k + 1] = Torn)
         /\ Dated(r, s) => Dated(q, s)
  <1>1. /\ r.rest \in Seq(Record \cup {Torn}) /\ Len(r.rest) \in Nat /\ Len(s) \in Nat
        /\ k = Len(s) - Len(r.rest) /\ k \in Nat
    BY DEF Reader, Passed, Inside
  <1>2. \A m \in 1 .. Len(r.rest) : r.rest[m] = s[k + m]
    BY DEF Inside
  <1>3. ASSUME r.rest # <<>>
        PROVE  k + 1 \in 1 .. Len(s) /\ Head(r.rest) = s[k + 1] /\ Len(Tail(r.rest)) = Len(r.rest) - 1
    <2>1. Head(r.rest) = r.rest[1] /\ Len(r.rest) >= 1 /\ Len(Tail(r.rest)) = Len(r.rest) - 1
      BY <1>1, <1>3
    <2>2. k + 1 \in 1 .. Len(s) /\ 1 \in 1 .. Len(r.rest)
      BY ONLY <1>1, <2>1
    <2> QED
      BY <1>2, <2>1, <2>2
  <1>4. CASE r.rest # <<>> /\ Head(r.rest) # Torn
    <2>1. q = [r EXCEPT !.data = Head(r.rest), !.timestamp = Head(r.rest).ts, !.rest = Tail(r.rest)]
      BY <1>4 DEF parseNext
    <2>2. q.rest = Tail(r.rest) /\ q.closed = r.closed
      BY <2>1 DEF Reader
    <2>3. Passed(q, s) = Len(s) - (Len(r.rest) - 1)
      BY <1>3, <1>4, <2>2 DEF Passed
    <2>4. Passed(q, s) = k + 1
      <3>1. \A a, b \in Nat : a - (b - 1) = (a - b) + 1
        OBVIOUS
      <3> QED
        BY <1>1, <2>3, <3>1
    <2>5. Passed(q, s) # 0
      BY <1>1, <2>4
    <2> QED
      BY <1>1, <1>3, <1>4, <2>2, <2>4, <2>5 DEF Dated
  <1>5. CASE r.rest # <<>> /\ Head(r.rest) = Torn /\ gz
    BY <1>1, <1>3, <1>5 DEF parseNext
  <1>6. CASE r.rest = <<>> \/ (Head(r.rest) = Torn /\ ~gz)
    <2>1. q = [r EXCEPT !.closed = TRUE]
      BY <1>6 DEF parseNext
    <2>2. q.rest = r.rest /\ q.closed /\ q.data = r.data /\ q.timestamp = r.timestamp
      BY <2>1 DEF Reader
    <2>3. Passed(q, s) = k
      BY <2>2 DEF Passed
    <2>4. r.rest = <<>> => k = Len(s)
      BY <1>1
    <2> QED
      BY <1>1, <1>3, <1>6, <2>2, <2>3, <2>4 DEF Dated
  <1> QED
    BY <1>4, <1>5, <1>6

\* At the start of a pass nothing was emitted.
LEMMA OpenReplays ==
  ASSUME OutputOK, TornLast, OpenReaders, UNCHANGED <<gz, disk>>,
         NEW f \in DOMAIN disk, readers'[f] # NoReader
  PROVE  /\ ~HeaderOnly(f) => Replays(readers'[f], f, Passed(readers'[f], disk[f]), <<>>)
         /\ HeaderOnly(f) => ~readers'[f].closed
         /\ Dated(readers'[f], disk[f])
  <1>1. PICK r : r = [data |-> NoData, timestamp |-> 0, rest |-> disk[f], closed |-> FALSE]
    OBVIOUS
  <1>2. PICK q : q = readers'[f]
    OBVIOUS
  <1>3. q = parseNext(r)
    BY <1>1, <1>2 DEF OpenReaders, NewFileInputReader
  <1>4. disk[f] \in Seq(Record \cup {Torn}) /\ Len(disk[f]) \in Nat
    BY KeptTypes
  <1>5. r \in Reader /\ r.rest = disk[f] /\ ~r.closed
    BY <1>1, <1>4 DEF Reader
  <1>6. Passed(r, disk[f]) = 0
    BY <1>4, <1>5 DEF Passed
  <1>7. Inside(r, disk[f]) /\ Dated(r, disk[f])
    <2>1. Inside(r, disk[f])
      BY <1>4, <1>5, <1>6 DEF Inside
    <2>2. r.data = NoData /\ r.timestamp = 0
      BY <1>1
    <2> QED
      BY <2>1, <2>2 DEF Dated
  <1>8. PICK k : k = Passed(q, disk[f])
    OBVIOUS
  <1>9. /\ \/ k = 1 /\ ~q.closed
           \/ q = r /\ gz /\ 1 \in 1 .. Len(disk[f]) /\ disk[f][1] = Torn
           \/ k = 0 /\ q.closed /\ (k = Len(disk[f]) \/ (~gz /\ disk[f][k + 1] = Torn))
        /\ Dated(q, disk[f])
    <2>1. 0 + 1 = 1
      OBVIOUS
    <2> QED
      BY <1>3, <1>4, <1>5, <1>6, <1>7, <1>8, <2>1, ParseNextSteps
  <1>10. gz /\ 1 \in 1 .. Len(disk[f]) /\ disk[f][1] = Torn => HeaderOnly(f)
    BY <1>4 DEF HeaderOnly
  <1>11. HeaderOnly(f) => gz /\ Len(disk[f]) # 0
    BY <1>4 DEF HeaderOnly
  <1>12. Len(<<>>) = 0 /\ 1 .. 0 = {} /\ \A l \in 1 .. 1 : ~(l < 1)
    OBVIOUS
  <1>13. ~HeaderOnly(f) => Replays(q, f, k, <<>>)
    BY <1>9, <1>10, <1>12 DEF Replays
  <1>14. HeaderOnly(f) => ~q.closed
    BY <1>5, <1>9, <1>11
  <1> QED
    BY <1>2, <1>8, <1>9, <1>13, <1>14

\* Of a file that is header-only, the reader waits at the start; a payload in its reader
\* has a place, and a time, above 0.
LEMMA HeldBy ==
  ASSUME RecordingOK, InputOK, PassOK, ~exit, NEW f \in DOMAIN readers, readers[f] # NoReader
  PROVE  /\ f \in DOMAIN disk /\ ~Unreadable(f)
         /\ readers[f] \in Reader /\ Inside(readers[f], disk[f]) /\ Dated(readers[f], disk[f])
         /\ HeaderOnly(f) => readers[f].timestamp = 0 /\ ~readers[f].closed
         /\ readers[f].timestamp <= 0 => readers[f].data = NoData
  <1>1. f \in DOMAIN disk /\ ~Unreadable(f) /\ readers[f] \in Reader /\ Inside(readers[f], disk[f])
    <2>1. epc # "off"
      BY Empty DEF InputOK, OffOK
    <2> QED
      BY <2>1 DEF InputOK, ReadersOK, Follows
  <1>2. Dated(readers[f], disk[f]) /\ (HeaderOnly(f) => ~readers[f].closed)
    BY DEF PassOK, BlockedOK
  <1>3. disk[f] \in Seq(Record \cup {Torn}) /\ Len(disk[f]) \in Nat
    BY <1>1, KeptTypes DEF RecordingOK
  <1>4. PICK k : k = Passed(readers[f], disk[f])
    OBVIOUS
  <1>5. /\ k \in Nat /\ (k > 0 => readers[f].timestamp = disk[f][k].ts)
        /\ \A m \in 1 .. k : disk[f][m] # Torn
    BY <1>1, <1>4 DEF Inside
  <1>6. HeaderOnly(f) => k = 0
    <2>1. HeaderOnly(f) => disk[f][1] = Torn
      BY <1>3 DEF HeaderOnly
    <2>2. k # 0 => 1 \in 1 .. k
      BY <1>5
    <2> QED
      BY <1>5, <2>1, <2>2
  <1>7. k > 0 => readers[f].timestamp > 0
    <2> SUFFICES ASSUME k > 0 PROVE readers[f].timestamp > 0
      OBVIOUS
    <2>1. Len(readers[f].rest) \in Nat /\ k = Len(disk[f]) - Len(readers[f].rest)
      BY <1>1, <1>4 DEF Reader, Passed
    <2>2. k \in 1 .. Len(disk[f]) /\ k \in 1 .. k
      <3>1. \A a, b, c \in Nat : c = a - b /\ c > 0 => c \in 1 .. a /\ c \in 1 .. c
        OBVIOUS
      <3>2. Len(disk[f]) \in Nat /\ Len(readers[f].rest) \in Nat /\ k \in Nat
        BY <1>3, <1>5, <2>1
      <3> QED
        BY <2>1, <3>1, <3>2, Zenon
    <2>3. disk[f][k] \in Record
      BY <1>3, <1>5, <2>2
    <2>4. \A x \in Record : x.ts \in Nat \ {0}
      BY LimitAssumption DEF LimitAssumption, Record
    <2> QED
      BY <1>5, <2>3, <2>4
  <1>8. readers[f].timestamp \in Nat
    BY <1>1 DEF Reader
  <1> QED
    BY <1>1, <1>2, <1>4, <1>5, <1>6, <1>7, <1>8 DEF Dated

\* With a file that is header-only, the reader that emit has chosen has no payload.
LEMMA EmitReadBlocked ==
  ASSUME RecordingOK, InputOK, PassOK, UNCHANGED outVars, EmitRead
  PROVE  BlockedOK'
  <1>0. UNCHANGED <<gz, disk, unopened>> /\ exit' = exit
    BY DEF outVars, config, fileVars, EmitRead
  <1>1. /\ epc = "read" /\ ~exit /\ emitted' = Append(emitted, readers[cur].data)
        /\ readers' = [readers EXCEPT ![cur] = parseNext(@)]
    BY DEF EmitRead
  <1>2. nextReader(cur) /\ cur \in DOMAIN readers /\ readers[cur] # NoReader
    BY <1>1 DEF InputOK, ChosenOK, nextReader, Candidates
  <1>3. (Blocked' <=> Blocked) /\ \A f : HeaderOnly(f)' <=> HeaderOnly(f)
    BY <1>0 DEF Blocked, Readable, Unreadable, HeaderOnly
  <1>4. ASSUME Blocked PROVE readers[cur].data = NoData
    <2>1. PICK f \in Readable : HeaderOnly(f)
      BY <1>4 DEF Blocked
    <2>2. f \in DOMAIN readers /\ readers[f] # NoReader
      BY <1>1, <2>1, NoReaderIsNone DEF Readable, InputOK, ReadersOK
    <2>3. readers[f].timestamp = 0 /\ ~readers[f].closed
      BY <1>1, <2>1, <2>2, HeldBy
    <2>4. f \in Candidates
      BY <2>2, <2>3 DEF Candidates
    <2>5. readers[cur].timestamp \in Nat /\ (readers[cur].timestamp <= 0 => readers[cur].data = NoData)
      BY <1>1, <1>2, HeldBy DEF Reader
    <2>6. readers[cur].timestamp < readers[f].timestamp \/ readers[cur].timestamp = readers[f].timestamp
      BY <1>2, <2>4 DEF nextReader
    <2> QED
      BY <2>3, <2>5, <2>6
  <1>5. Blocked => \A i \in 1 .. Len(emitted') : emitted'[i] = NoData
    <2> SUFFICES ASSUME Blocked, NEW i \in 1 .. Len(emitted') PROVE emitted'[i] = NoData
      OBVIOUS
    <2>1. emitted' = Append(emitted, NoData)
      BY <1>1, <1>4
    <2>2. emitted \in Seq(Record \cup {NoData}) /\ \A h \in 1 .. Len(emitted) : emitted[h] = NoData
      BY DEF InputOK, InputTypeOK, PassOK, BlockedOK
    <2> QED
      BY <2>1, <2>2
  <1>6. ASSUME NEW f \in DOMAIN readers', readers'[f] # NoReader
        PROVE  Dated(readers'[f], disk[f]) /\ (HeaderOnly(f) => ~readers'[f].closed)
    <2>1. DOMAIN readers' = DOMAIN readers /\ readers'[cur] = parseNext(readers[cur])
          /\ \A g \in DOMAIN readers \ {cur} : readers'[g] = readers[g]
      BY <1>1, <1>2
    <2>2. CASE f # cur
      <3>1. f \in DOMAIN readers /\ readers[f] # NoReader /\ readers'[f] = readers[f]
        BY <1>6, <2>1, <2>2
      <3> QED
        BY <1>1, <3>1 DEF PassOK, BlockedOK
    <2>3. CASE f = cur
      <3>1. PICK r : r = readers[cur]
        OBVIOUS
      <3>2. PICK k : k = Passed(r, disk[cur])
        OBVIOUS
      <3>3. /\ cur \in DOMAIN disk /\ r \in Reader /\ Inside(r, disk[cur]) /\ Dated(r, disk[cur])
            /\ HeaderOnly(cur) => r.timestamp = 0 /\ ~r.closed
        BY <1>1, <1>2, <3>1, HeldBy
      <3>4. PICK q : q = parseNext(r)
        OBVIOUS
      <3>5. disk[cur] \in Seq(Record \cup {Torn})
        BY <3>3, KeptTypes DEF RecordingOK
      <3>6. Dated(q, disk[cur])
        BY <3>2, <3>3, <3>4, <3>5, ParseNextSteps
      <3>7. HeaderOnly(cur) => ~q.closed
        <4> SUFFICES ASSUME HeaderOnly(cur) PROVE ~q.closed
          OBVIOUS
        <4>1. gz /\ Len(disk[cur]) > 0 /\ disk[cur][1] = Torn /\ ~r.closed
          BY <3>3, <3>5 DEF HeaderOnly
        <4>2. \A m \in 1 .. k : disk[cur][m] # Torn
          BY <3>2, <3>3 DEF Inside
        <4>3. k \in Nat
          BY <3>2, <3>3 DEF Inside
        <4>4. k # Len(disk[cur])
          BY <3>5, <4>1, <4>2, <4>3
        <4>5. \/ q.closed = r.closed
              \/ q = r
              \/ k = Len(disk[cur]) \/ ~gz
          BY <3>2, <3>3, <3>4, <3>5, ParseNextSteps
        <4> QED
          BY <4>1, <4>4, <4>5
      <3> QED
        BY <2>1, <2>3, <3>1, <3>4, <3>6, <3>7
    <2> QED
      BY <2>2, <2>3
  <1> QED
    BY <1>0, <1>3, <1>5, <1>6 DEF BlockedOK, Dated, Passed

\* emit replays the payload at which the reader it has chosen is.
LEMMA EmitReadReplays ==
  ASSUME RecordingOK, InputOK, PassOK, UNCHANGED outVars, EmitRead, ~Blocked
  PROVE  ReplayedOK' /\ EmittedOK'
  <1>0. UNCHANGED <<gz, disk, unopened>>
    BY DEF outVars, config, fileVars, EmitRead
  <1>a. (Readable = DOMAIN disk \ {f \in DOMAIN disk : Unreadable(f)}) /\ Readable' = Readable
    BY <1>0 DEF Readable, Unreadable
  <1>b. cur \in Readable
    <2>1. cur \in DOMAIN readers /\ readers[cur] # NoReader /\ ~exit
      BY DEF EmitRead, InputOK, ChosenOK, nextReader, Candidates
    <2> QED
      BY <2>1, HeldBy DEF Readable
  <1>1. /\ epc = "read" /\ ~exit /\ emitted' = Append(emitted, readers[cur].data)
        /\ readers' = [readers EXCEPT ![cur] = parseNext(@)] /\ cur' = cur
    BY DEF EmitRead
  <1>2. cur \in DOMAIN readers /\ readers[cur] # NoReader /\ ~readers[cur].closed
    BY <1>1 DEF InputOK, ChosenOK, nextReader, Candidates
  <1>3. /\ cur \in DOMAIN disk /\ DOMAIN readers = DOMAIN disk
        /\ disk[cur] \in Seq(Record \cup {Torn}) /\ Len(disk[cur]) \in Nat
    BY <1>1, <1>2, KeptTypes DEF RecordingOK, InputOK, ReadersOK
  <1>4. readers[cur] \in Reader /\ Inside(readers[cur], disk[cur])
    BY <1>2 DEF InputOK, ReadersOK, Follows
  <1>5. PICK k : k = Passed(readers[cur], disk[cur])
    OBVIOUS
  <1>6. Replays(readers[cur], cur, k, emitted)
    BY <1>1, <1>2, <1>5 DEF PassOK, ReplayedOK
  <1>7. k \in 1 .. Len(disk[cur]) /\ readers[cur].data = disk[cur][k] /\ disk[cur][k] # Torn
    <2>1. k \in Nat /\ k > 0
      BY <1>2, <1>4, <1>5, <1>6 DEF Inside, Replays
    <2>2. k = Len(disk[cur]) - Len(readers[cur].rest) /\ Len(readers[cur].rest) \in Nat
      BY <1>4, <1>5 DEF Passed, Reader
    <2>3. k \in 1 .. Len(disk[cur]) /\ k \in 1 .. k
      BY ONLY <1>3, <2>1, <2>2
    <2> QED
      BY <1>4, <1>5, <2>1, <2>3 DEF Inside
  <1>8. PICK n \in Nat : n = Len(emitted)
    BY DEF InputOK, InputTypeOK
  <1>9. /\ Len(emitted') = n + 1 /\ emitted'[n + 1] = disk[cur][k]
        /\ \A h \in 1 .. n : emitted'[h] = emitted[h]
    BY <1>1, <1>7, <1>8 DEF InputOK, InputTypeOK
  <1>10. /\ \A h \in 1 .. (n + 1) : h \in 1 .. n \/ h = n + 1
         /\ \A h \in 1 .. n : h \in 1 .. (n + 1)
         /\ n + 1 \in 1 .. (n + 1) /\ (n + 1) - 1 = n
    BY <1>8
  <1>11. Once(disk)
    BY DEF RecordingOK, RecordedOnce
  <1>12. \A f \in DOMAIN disk : \A l \in 1 .. Len(disk[f]) :
            disk[cur][k] = disk[f][l] => f = cur /\ l = k
    BY <1>3, <1>7, <1>11 DEF Once
  <1>13. \A f, l : (LastBeforeTorn(f, l))' <=> LastBeforeTorn(f, l)
    BY <1>0 DEF LastBeforeTorn, Unended
  <1>14. EmittedOK'
    <2> SUFFICES ASSUME NEW i \in 1 .. (n + 1)
                 PROVE  \E f \in Readable : \E l \in 1 .. Len(disk[f]) :
                           /\ emitted'[i] = disk[f][l] /\ emitted'[i] # Torn
                           /\ (InTurn(f, l, i))'
      BY <1>0, <1>9, <1>a DEF EmittedOK
    <2>1. CASE i \in 1 .. n
      <3>1. PICK f \in Readable : \E l \in 1 .. Len(disk[f]) :
               emitted[i] = disk[f][l] /\ emitted[i] # Torn /\ InTurn(f, l, i)
        BY <1>8, <2>1 DEF PassOK, EmittedOK
      <3>2. PICK l \in 1 .. Len(disk[f]) :
               emitted[i] = disk[f][l] /\ emitted[i] # Torn /\ InTurn(f, l, i)
        BY <3>1
      <3>3. \A h \in 1 .. (i - 1) : emitted'[h] = emitted[h]
        BY <1>8, <1>9, <2>1
      <3>4. emitted'[i] = emitted[i]
        BY <1>9, <2>1
      <3>5. (InTurn(f, l, i))'
        BY <1>0, <1>13, <3>2, <3>3, <3>4 DEF InTurn
      <3> QED
        BY <3>2, <3>4, <3>5
    <2>2. CASE i = n + 1
      <3>1. \A l \in 1 .. (k - 1) : \E h \in 1 .. n : emitted'[h] = disk[cur][l]
        <4>1. ASSUME NEW l \in 1 .. (k - 1) PROVE \E h \in 1 .. n : emitted'[h] = disk[cur][l]
          <5>1. l \in 1 .. k /\ l < k
            BY <1>7
          <5>2. \E h \in 1 .. n : emitted[h] = disk[cur][l]
            BY <1>6, <1>8, <5>1 DEF Replays
          <5> QED
            BY <1>9, <5>2
        <4> QED
          BY <4>1
      <3>2. \A h \in 1 .. n : emitted'[h] = emitted'[i] => LastBeforeTorn(cur, k)
        BY <1>2, <1>6, <1>7, <1>8, <1>9, <2>2 DEF Replays
      <3>3. (InTurn(cur, k, i))'
        BY <1>0, <1>1, <1>10, <1>13, <2>2, <3>1, <3>2 DEF InTurn
      <3>4. PICK f \in Readable : f = cur
        BY <1>b
      <3>5. (InTurn(f, k, i))'
        BY <1>1, <3>3, <3>4
      <3> QED
        BY <1>7, <1>9, <2>2, <3>4, <3>5
    <2> QED
      BY <1>10, <2>1, <2>2
  <1>15. ReplayedOK'
    <2> SUFFICES ASSUME NEW f \in DOMAIN readers', readers'[f] # NoReader
                 PROVE  (Replays(readers[f], f, Passed(readers[f], disk[f]), emitted))'
      BY DEF ReplayedOK
    <2>1. /\ DOMAIN readers' = DOMAIN readers /\ readers'[cur] = parseNext(readers[cur])
          /\ \A g \in DOMAIN readers \ {cur} : readers'[g] = readers[g]
      BY <1>1, <1>2
    <2>2. PICK q : q = readers'[f]
      OBVIOUS
    <2>3. PICK m : m = Passed(q, disk[f])
      OBVIOUS
    <2>4. \/ f # cur /\ q = readers[f] /\ Replays(q, f, m, emitted)
          \/ f = cur /\ q = parseNext(readers[cur])
      BY <1>1, <2>1, <2>2, <2>3 DEF PassOK, ReplayedOK
    <2>5. /\ \A h \in 1 .. (n + 1), l \in 1 .. Len(disk[f]) :
                emitted'[h] = disk[f][l] => l <= m /\ (l = m /\ ~q.closed => LastBeforeTorn(f, m))
          /\ \A l \in 1 .. m : l < m \/ q.closed => \E h \in 1 .. (n + 1) : emitted'[h] = disk[f][l]
          /\ q.closed => m = Len(disk[f]) \/ (~gz /\ disk[f][m + 1] = Torn)
          /\ ~q.closed => m > 0
      <3>1. CASE f # cur /\ q = readers[f] /\ Replays(q, f, m, emitted)
        <4>1. /\ \A h \in 1 .. n, l \in 1 .. Len(disk[f]) :
                    emitted[h] = disk[f][l] => l <= m /\ (l = m /\ ~q.closed => LastBeforeTorn(f, m))
              /\ \A l \in 1 .. m : l < m \/ q.closed => \E h \in 1 .. n : emitted[h] = disk[f][l]
              /\ q.closed => m = Len(disk[f]) \/ (~gz /\ disk[f][m + 1] = Torn)
              /\ ~q.closed => m > 0
          BY <1>8, <3>1 DEF Replays
        <4>2. \A l \in 1 .. Len(disk[f]) : disk[cur][k] # disk[f][l]
          BY <1>3, <1>12, <2>1, <3>1
        <4>3. \A h \in 1 .. (n + 1), l \in 1 .. Len(disk[f]) :
                 emitted'[h] = disk[f][l] => h \in 1 .. n /\ emitted[h] = disk[f][l]
          BY <1>9, <1>10, <4>2
        <4>4. \A h \in 1 .. n : h \in 1 .. (n + 1) /\ emitted'[h] = emitted[h]
          BY <1>9, <1>10
        <4> QED
          BY <4>1, <4>3, <4>4
      <3>2. CASE f = cur /\ q = parseNext(readers[cur])
        <4>1. /\ \A h \in 1 .. n, l \in 1 .. Len(disk[f]) :
                    emitted[h] = disk[f][l] => l <= k /\ (l = k => LastBeforeTorn(f, k))
              /\ \A l \in 1 .. k : l < k => \E h \in 1 .. n : emitted[h] = disk[f][l]
          BY <1>2, <1>6, <1>8, <3>2 DEF Replays
        <4>2. /\ \A h \in 1 .. (n + 1), l \in 1 .. Len(disk[f]) :
                    emitted'[h] = disk[f][l] => l <= k /\ (l = k => h = n + 1 \/ LastBeforeTorn(f, k))
              /\ \A l \in 1 .. k : \E h \in 1 .. (n + 1) : emitted'[h] = disk[f][l]
          <5>1. ASSUME NEW h \in 1 .. (n + 1), NEW l \in 1 .. Len(disk[f]), emitted'[h] = disk[f][l]
                PROVE  l <= k /\ (l = k => h = n + 1 \/ LastBeforeTorn(f, k))
            <6>1. CASE h \in 1 .. n
              BY <1>9, <4>1, <5>1, <6>1
            <6>2. CASE h = n + 1
              <7>1. l = k
                BY <1>3, <1>9, <1>12, <3>2, <5>1, <6>2
              <7> QED
                BY <1>7, <6>2, <7>1
            <6> QED
              BY <1>10, <6>1, <6>2
          <5>2. ASSUME NEW l \in 1 .. k PROVE \E h \in 1 .. (n + 1) : emitted'[h] = disk[f][l]
            <6>1. CASE l = k
              BY <1>9, <1>10, <3>2, <6>1
            <6>2. CASE l < k
              BY <1>9, <1>10, <4>1, <6>2
            <6> QED
              BY <1>7, <6>1, <6>2
          <5> QED
            BY <5>1, <5>2
        <4>3. \/ m = k + 1 /\ ~q.closed /\ disk[f][k + 1] # Torn
              \/ q = readers[cur] /\ gz /\ k + 1 \in 1 .. Len(disk[f]) /\ disk[f][k + 1] = Torn
              \/ m = k /\ q.closed /\ (k = Len(disk[f]) \/ (~gz /\ disk[f][k + 1] = Torn))
          BY <1>2, <1>3, <1>4, <1>5, <2>3, <3>2, ParseNextSteps
        <4>4. CASE m = k + 1 /\ ~q.closed
          <5>1. \A l \in 1 .. Len(disk[f]) : l <= k => l <= m /\ l # m
            BY <1>3, <1>7, <3>2, <4>4
          <5>2. \A l \in 1 .. m : l < m => l \in 1 .. k
            BY <1>7, <4>4
          <5>3. m > 0
            BY <1>7, <4>4
          <5> QED
            BY <4>2, <4>4, <5>1, <5>2, <5>3
        <4>5. CASE q = readers[cur] /\ gz /\ k + 1 \in 1 .. Len(disk[f]) /\ disk[f][k + 1] = Torn
          <5>1. m = k /\ ~q.closed
            BY <1>2, <1>5, <2>3, <3>2, <4>5
          <5>2. LastBeforeTorn(f, k)
            <6>1. k + 1 = Len(disk[f])
              BY <1>3, <3>2, <4>5 DEF PassOK, TornLast, TornAtEnd
            <6>2. DOMAIN disk[f] = 1 .. Len(disk[f])
              BY <1>3, <3>2
            <6>3. \A l \in DOMAIN disk[f] : l > k => l = k + 1
              BY <1>3, <1>7, <3>2, <6>1, <6>2
            <6>4. Contains(disk[f], Torn)
              BY <4>5 DEF Contains
            <6> QED
              BY <4>5, <6>3, <6>4 DEF LastBeforeTorn, Unended
          <5>3. m > 0
            BY <1>7, <5>1
          <5> QED
            BY <4>2, <5>1, <5>2, <5>3
        <4>6. CASE m = k /\ q.closed /\ (k = Len(disk[f]) \/ (~gz /\ disk[f][k + 1] = Torn))
          BY <4>2, <4>6
        <4> QED
          BY <4>3, <4>4, <4>5, <4>6
      <3> QED
        BY <2>4, <3>1, <3>2
    <2>6. (Passed(readers[f], disk[f]))' = m
      BY <1>0, <2>2, <2>3 DEF Passed
    <2>7. Len(emitted)' = n + 1
      BY <1>9
    <2> QED
      BY <1>0, <1>13, <2>2, <2>5, <2>6, <2>7 DEF Replays
  <1> QED
    BY <1>14, <1>15

\* The other steps emit nothing, and open no reader but at the start of a pass.
LEMMA OthersReplay ==
  ASSUME OutputOK, InputOK, PassOK, UNCHANGED <<gz, disk>>,
         \/ emitted' = <<>> /\ OpenReaders
         \/ emitted' = emitted /\ readers' = readers /\ exit' = exit /\ unopened' = unopened
         \/ emitted' = emitted /\ exit' /\ unopened' = unopened
  PROVE  ReplayedOK' /\ EmittedOK' /\ BlockedOK'
  <1>1. /\ \A f, l : (LastBeforeTorn(f, l))' <=> LastBeforeTorn(f, l)
        /\ \A f : HeaderOnly(f)' <=> HeaderOnly(f)
    BY DEF LastBeforeTorn, Unended, HeaderOnly
  <1>2. CASE emitted' = <<>> /\ OpenReaders
    <2>1. Len(emitted') = 0 /\ 1 .. 0 = {}
      BY <1>2
    <2>2. EmittedOK'
      BY <2>1 DEF EmittedOK
    <2>3. ASSUME NEW f \in DOMAIN readers', readers'[f] # NoReader
          PROVE  /\ ~Blocked' => (Replays(readers[f], f, Passed(readers[f], disk[f]), emitted))'
                 /\ Dated(readers'[f], disk[f]) /\ (HeaderOnly(f) => ~readers'[f].closed)
      <3>1. f \in DOMAIN disk /\ ~Unreadable(f)'
        BY <1>2, <2>3, OpenReadersOK, NoReaderIsNone
      <3>2. /\ ~HeaderOnly(f) => Replays(readers'[f], f, Passed(readers'[f], disk[f]), <<>>)
            /\ HeaderOnly(f) => ~readers'[f].closed
            /\ Dated(readers'[f], disk[f])
        BY <1>2, <2>3, <3>1, OpenReplays DEF PassOK
      <3>3. PICK q : q = readers'[f]
        OBVIOUS
      <3>4. PICK k : k = Passed(q, disk[f])
        OBVIOUS
      <3>5. ~HeaderOnly(f) => Replays(q, f, k, <<>>)
        BY <3>2, <3>3, <3>4
      <3>6. readers'[f] = q /\ (Passed(readers[f], disk[f]))' = k
        BY <3>1, <3>3, <3>4 DEF Passed
      <3>7. ~Blocked' => ~HeaderOnly(f)
        BY <1>1, <3>1 DEF Blocked, Readable
      <3> QED
        BY <1>1, <1>2, <3>2, <3>5, <3>6, <3>7 DEF Replays
    <2>4. ReplayedOK'
      BY <2>3 DEF ReplayedOK
    <2>5. BlockedOK'
      BY <1>1, <2>1, <2>3 DEF BlockedOK, Dated, Passed
    <2> QED
      BY <2>2, <2>4, <2>5
  <1>3. ASSUME emitted' = emitted, unopened' = unopened
        PROVE  /\ (Blocked' <=> Blocked) /\ EmittedOK'
               /\ Blocked' => \A i \in 1 .. Len(emitted') : emitted'[i] = NoData
    <2>1. \A f, k, i : InTurn(f, k, i) => (InTurn(f, k, i))'
      BY <1>1, <1>3 DEF InTurn
    <2>2. (Blocked' <=> Blocked) /\ Readable' = Readable
      BY <1>1, <1>3 DEF Blocked, Readable, Unreadable
    <2>3. EmittedOK /\ BlockedOK
      BY DEF PassOK
    <2> QED
      BY <1>3, <2>1, <2>2, <2>3 DEF EmittedOK, BlockedOK
  <1>4. CASE emitted' = emitted /\ readers' = readers /\ exit' = exit /\ unopened' = unopened
    <2>1. ASSUME ~exit, ~Blocked, NEW f \in DOMAIN readers, readers[f] # NoReader
          PROVE  (Replays(readers[f], f, Passed(readers[f], disk[f]), emitted))'
      <3>1. PICK q : q = readers[f]
        OBVIOUS
      <3>2. PICK k : k = Passed(q, disk[f])
        OBVIOUS
      <3>3. Replays(q, f, k, emitted) /\ readers'[f] = q /\ (Passed(readers[f], disk[f]))' = k
        BY <1>4, <2>1, <3>1, <3>2 DEF PassOK, ReplayedOK, Passed
      <3> QED
        BY <1>1, <1>4, <3>3 DEF Replays
    <2>2. ReplayedOK'
      BY <1>3, <1>4, <2>1 DEF ReplayedOK
    <2>3. BlockedOK'
      BY <1>1, <1>3, <1>4 DEF PassOK, BlockedOK, Dated, Passed
    <2> QED
      BY <1>3, <1>4, <2>2, <2>3
  <1>5. CASE emitted' = emitted /\ exit' /\ unopened' = unopened
    BY <1>3, <1>5 DEF ReplayedOK, BlockedOK
  <1> QED
    BY <1>2, <1>4, <1>5

\* No step of a replay breaks the order in which it emits.
LEMMA NextPass == RecordingOK /\ InputOK /\ PassOK /\ [Next]_vars => PassOK'
  <1> SUFFICES ASSUME RecordingOK, InputOK, PassOK, [Next]_vars PROVE PassOK'
    OBVIOUS
  <1>1. OutputOK /\ TornLast'
    BY NextTorn DEF RecordingOK, PassOK
  <1>2. CASE epc = "off" /\ OutputNext /\ UNCHANGED inVars
    <2>1. readers' = <<>> /\ emitted' = <<>> /\ epc' = "off" /\ DOMAIN readers' = {} /\ Len(emitted') = 0
      BY <1>2, Empty DEF inVars, InputOK, OffOK
    <2>2. ReplayedOK' /\ EndedOK'
      BY <2>1 DEF ReplayedOK, EndedOK
    <2>3. EmittedOK' /\ BlockedOK'
      BY <2>1 DEF EmittedOK, BlockedOK
    <2> QED
      BY <1>1, <2>2, <2>3 DEF PassOK
  <1>3. CASE StartReplay
    <2>1. /\ emitted' = <<>> /\ OpenReaders /\ UNCHANGED <<gz, disk>>
          /\ epc' = IF DOMAIN disk = {} THEN "end" ELSE "next"
      BY <1>3 DEF StartReplay, NewFileInput, InputOK, OffOK, config
    <2>2. ReplayedOK' /\ EmittedOK' /\ BlockedOK'
      BY <1>1, <2>1, OthersReplay
    <2>3. EndedOK'
      <3>1. DOMAIN readers' = DOMAIN disk
        BY <1>1, <2>1, OpenReadersOK
      <3> QED
        BY <2>1, <3>1 DEF EndedOK, Candidates
    <2> QED
      BY <1>1, <2>2, <2>3 DEF PassOK
  <1>4. CASE UNCHANGED outVars /\ (InputNext \/ UNCHANGED inVars)
    <2>1. UNCHANGED <<gz, disk>>
      BY <1>4 DEF outVars, config, fileVars
    <2>2. CASE EmitRead
      <3>1. EndedOK'
        BY <2>2 DEF EmitRead, EndedOK
      <3>2. BlockedOK'
        BY <1>4, <2>2, EmitReadBlocked
      <3>3. ReplayedOK' /\ EmittedOK'
        <4>1. CASE ~Blocked
          BY <1>4, <2>2, <4>1, EmitReadReplays
        <4>2. CASE Blocked
          <5>1. Blocked'
            BY <2>1, <2>2, <4>2 DEF EmitRead, Blocked, Readable, Unreadable, HeaderOnly
          <5> QED
            BY <5>1 DEF ReplayedOK, EmittedOK
        <4> QED
          BY <4>1, <4>2
      <3> QED
        BY <1>1, <3>1, <3>2, <3>3 DEF PassOK
    <2>3. CASE EmitLoop
      <3>1. emitted' = <<>> /\ OpenReaders /\ epc' = "next"
        BY <2>3 DEF EmitLoop
      <3>2. EndedOK'
        BY <3>1 DEF EndedOK
      <3> QED
        BY <1>1, <2>1, <3>1, <3>2, OthersReplay DEF PassOK
    <2>4. CASE InputClose
      <3>1. emitted' = emitted /\ exit' /\ unopened' = unopened
        BY <2>4 DEF InputClose
      <3>2. EndedOK'
        BY <3>1 DEF EndedOK
      <3> QED
        BY <1>1, <2>1, <3>1, <3>2, OthersReplay DEF PassOK
    <2>5. CASE EmitStopped \/ EmitNext \/ EmitEnd \/ EmitSend \/ Read \/ ReadStopped \/ UNCHANGED inVars
      <3>1. emitted' = emitted /\ readers' = readers /\ exit' = exit /\ unopened' = unopened
        BY <2>5 DEF EmitStopped, EmitNext, EmitEnd, EmitSend, Read, ReadStopped, inVars
      <3>2. epc' = "end" /\ ~exit => epc = "end" \/ Candidates = {}
        BY <2>5 DEF EmitStopped, EmitNext, EmitEnd, EmitSend, Read, ReadStopped, inVars
      <3>3. EndedOK'
        BY <3>1, <3>2 DEF PassOK, EndedOK, Candidates
      <3> QED
        BY <1>1, <2>1, <3>1, <3>3, OthersReplay DEF PassOK
    <2> QED
      BY <1>4, <2>2, <2>3, <2>4, <2>5 DEF InputNext, emit
  <1> QED
    BY <1>2, <1>3, <1>4 DEF Next, vars

\* A pass that has ended, and was not closed, has emitted every payload.
LEMMA PassExact == RecordingOK /\ InputOK /\ PassOK => ReplayExact
  <1> SUFFICES ASSUME RecordingOK, InputOK, PassOK PROVE ReplayExact
    OBVIOUS
  <1>1. \A f \in DOMAIN disk : DOMAIN disk[f] = 1 .. Len(disk[f]) /\ Len(disk[f]) \in Nat
    <2>1. ASSUME NEW S, NEW q \in Seq(S) PROVE DOMAIN q = 1 .. Len(q)
      OBVIOUS
    <2> QED
      BY <2>1, KeptTypes DEF RecordingOK
  <1>2. DOMAIN emitted = 1 .. Len(emitted)
    BY DEF InputOK, InputTypeOK
  <1>a. /\ \A f \in Readable : f \in DOMAIN disk /\ ~Unreadable(f)
        /\ \A f \in DOMAIN disk : ~Unreadable(f) => f \in Readable
    BY DEF Readable
  <1>b. ASSUME epc = "end", ~exit PROVE ~Blocked
    <2> SUFFICES ASSUME NEW f \in Readable, HeaderOnly(f) PROVE FALSE
      BY DEF Blocked
    <2>1. f \in DOMAIN readers /\ readers[f] # NoReader
      BY <1>a, <1>b, NoReaderIsNone DEF InputOK, ReadersOK
    <2>2. ~readers[f].closed
      BY <1>b, <2>1 DEF PassOK, BlockedOK
    <2> QED
      BY <1>b, <2>1, <2>2 DEF PassOK, EndedOK, Candidates
  <1>3. ASSUME epc = "end", ~exit, NEW f \in Readable
        PROVE  /\ ~Unended(f)
               /\ \A l \in 1 .. Len(disk[f]) :
                     disk[f][l] # Torn => \E i \in 1 .. Len(emitted) : emitted[i] = disk[f][l]
    <2>1. f \in DOMAIN readers /\ f \in DOMAIN disk /\ readers[f] # NoReader
      BY <1>3, <1>a, NoReaderIsNone DEF InputOK, ReadersOK
    <2>2. readers[f].closed
      BY <1>3, <2>1 DEF PassOK, EndedOK, Candidates
    <2>3. PICK k : k = Passed(readers[f], disk[f])
      OBVIOUS
    <2>4. /\ \A l \in 1 .. k : \E h \in 1 .. Len(emitted) : emitted[h] = disk[f][l]
          /\ k = Len(disk[f]) \/ (~gz /\ disk[f][k + 1] = Torn)
      BY <1>3, <1>b, <2>1, <2>2, <2>3 DEF PassOK, ReplayedOK, Replays
    <2>5. readers[f] \in Reader /\ Inside(readers[f], disk[f])
      BY <2>1 DEF InputOK, ReadersOK, Follows
    <2>6. k \in Nat /\ k <= Len(disk[f]) /\ \A l \in 1 .. k : disk[f][l] # Torn
      <3>1. k \in Nat /\ \A l \in 1 .. k : disk[f][l] # Torn
        BY <2>3, <2>5 DEF Inside
      <3>2. Len(readers[f].rest) \in Nat /\ k = Len(disk[f]) - Len(readers[f].rest)
        BY <2>3, <2>5 DEF Reader, Passed
      <3>3. k <= Len(disk[f])
        BY ONLY <1>1, <2>1, <3>2
      <3> QED
        BY <3>1, <3>3
    <2>7. ~Unended(f)
      <3> SUFFICES ASSUME gz, Contains(disk[f], Torn) PROVE FALSE
        BY DEF Unended
      <3>1. PICK l \in 1 .. Len(disk[f]) : disk[f][l] = Torn
        BY DEF Contains
      <3>2. l \in 1 .. k
        BY <2>4, <2>6
      <3> QED
        BY <2>6, <3>1, <3>2
    <2>8. ASSUME NEW l \in 1 .. Len(disk[f]), disk[f][l] # Torn PROVE l \in 1 .. k
      <3>1. CASE k = Len(disk[f])
        BY <3>1
      <3>2. CASE k # Len(disk[f])
        <4>1. k + 1 \in 1 .. Len(disk[f]) /\ disk[f][k + 1] = Torn
          BY <1>1, <2>1, <2>4, <2>6, <3>2
        <4>2. k + 1 = Len(disk[f])
          BY <2>1, <4>1 DEF PassOK, TornLast, TornAtEnd
        <4>3. l # k + 1
          BY <2>8, <4>1
        <4> QED
          BY <1>1, <2>1, <2>6, <4>2, <4>3
      <3> QED
        BY <3>1, <3>2
    <2> QED
      BY <2>4, <2>7, <2>8
  <1>4. ASSUME ~Blocked, NEW i \in DOMAIN emitted
        PROVE  \E f \in Readable : \E k \in DOMAIN disk[f] :
                  emitted[i] = disk[f][k] /\ emitted[i] # Torn /\ InTurn(f, k, i)
    <2>1. PICK f \in Readable : \E k \in 1 .. Len(disk[f]) :
             emitted[i] = disk[f][k] /\ emitted[i] # Torn /\ InTurn(f, k, i)
      BY <1>2, <1>4 DEF PassOK, EmittedOK
    <2>2. f \in DOMAIN disk
      BY <1>a
    <2> QED
      BY <1>1, <2>1, <2>2
  <1>5. ASSUME Blocked, NEW i \in DOMAIN emitted PROVE emitted[i] = NoData
    BY <1>2, <1>5 DEF PassOK, BlockedOK
  <1>6. \A i \in DOMAIN emitted :
           IF \E f \in Readable : HeaderOnly(f) THEN emitted[i] = NoData
           ELSE \E f \in Readable : \E k \in DOMAIN disk[f] :
                   /\ emitted[i] = disk[f][k] /\ emitted[i] # Torn
                   /\ InTurn(f, k, i)
    BY <1>4, <1>5 DEF Blocked
  <1>7. ASSUME epc = "end", ~exit, NEW f \in Readable
        PROVE  /\ ~Unended(f)
               /\ \A k \in DOMAIN disk[f] :
                     disk[f][k] # Torn => \E i \in DOMAIN emitted : emitted[i] = disk[f][k]
    BY <1>1, <1>2, <1>3, <1>7, <1>a
  <1> QED
    BY <1>6, <1>7 DEF ReplayExact

(***************************************************************************)
(* For any number of files, payloads and passes, whatever ends the         *)
(* recordings have had and whichever files can not be opened: a pass       *)
(* replays the whole payloads of each of the other files, in their order   *)
(* and once, and all of them unless it is closed.  A compressed file       *)
(* without an end keeps the pass from ending: its last payload is          *)
(* repeated, and if it has only a header, empty payloads are all that the  *)
(* replay ever has.                                                        *)
(***************************************************************************)
THEOREM ReplayIsExact == Spec => []ReplayExact
  <1>1. Init => PassOK
    <2> SUFFICES ASSUME Init PROVE PassOK
      OBVIOUS
    <2>1. /\ disk = <<>> /\ DOMAIN disk = {} /\ readers = <<>> /\ DOMAIN readers = {}
          /\ Len(emitted) = 0 /\ epc = "off" /\ 1 .. 0 = {}
      BY Empty DEF Init, OutputInit, InputInit
    <2> QED
      BY <2>1 DEF PassOK, TornLast, TornAtEnd, ReplayedOK, EndedOK, EmittedOK, BlockedOK
  <1> QED
    BY <1>1, NextPass, PassExact, ReplayAlwaysOK, PTL DEF Spec
=============================================================================
