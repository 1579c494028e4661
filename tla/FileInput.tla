----------------------------- MODULE FileInput -----------------------------
(***************************************************************************)
(* FileInput (input_file.go) on the files that FileOutput has left.  One   *)
(* reader per file holds its next payload; emit takes the one with the     *)
(* smallest timestamp, waits, and puts it into the data channel; with      *)
(* --input-file-loop it starts over at the end.  Waiting for the time      *)
(* between two payloads is no step.  Read and Close run concurrently.  The *)
(* slice of readers is a function of the names, which GlobBefore orders.   *)
(***************************************************************************)
EXTENDS FileOutput

CONSTANTS
    DataCap,     \* capacity of the data channel (1000)
    MaxPasses,   \* bound: times the files are read
    MaxEmitted,  \* bound: payloads emitted in a pass
    MaxUnopened  \* bound: files that cannot be opened in a pass
ASSUME InputAssumption ==
    DataCap \in Nat \ {0} /\ MaxPasses \in Nat \ {0} /\ MaxEmitted \in Nat

NoReader == <<>>   \* a nil reader
NoData == <<>>     \* a nil payload

VARIABLES
    loop,       \* --input-file-loop
    readers,    \* i.readers, by file
    unopened,   \* files that os.Open has failed for in this pass
    epc, cur,   \* emit: control point and the file whose reader it has chosen
    hand,       \* the payload it is about to send
    data,       \* i.data
    exit,       \* i.exit is closed
    reading,    \* the copy goroutine has not been told to stop
    panicked,   \* Close has dereferenced a nil reader
    passes, emitted  \* history: passes begun, payloads emitted in this one

inVars ==
    <<loop, readers, unopened, epc, cur, hand, data, exit, reading, panicked, passes, emitted>>

Reader == [data : Record \cup {NoData}, timestamp : Nat,
           rest : Seq(Record \cup {Torn}), closed : BOOLEAN]

InputTypeOK ==
    /\ loop \in BOOLEAN /\ exit \in BOOLEAN /\ reading \in BOOLEAN /\ panicked \in BOOLEAN
    /\ epc \in {"off", "next", "read", "send", "end"}
    /\ cur \in DOMAIN readers \cup {NoName}
    /\ \A f \in DOMAIN readers : readers[f] \in Reader \cup {NoReader}
    /\ unopened \subseteq DOMAIN readers
    /\ hand \in Record \cup {NoData}
    /\ data \in Seq(Record \cup {NoData}) /\ Len(data) <= DataCap
    /\ passes \in 0 .. MaxPasses
    /\ emitted \in Seq(Record \cup {NoData}) /\ Len(emitted) <= MaxEmitted

InputInit ==
    /\ loop = FALSE /\ readers = <<>> /\ unopened = {}
    /\ epc = "off" /\ cur = NoName /\ hand = NoData /\ data = <<>>
    /\ exit = FALSE /\ reading = TRUE /\ panicked = FALSE
    /\ passes = 0 /\ emitted = <<>>

-----------------------------------------------------------------------------
(* Readers                                                                   *)

\* Mutant: what is left of a torn file counts as a payload.
parseNextTorn(r) ==
    IF r.rest = <<>> THEN [r EXCEPT !.closed = TRUE]
    ELSE IF Head(r.rest) = Torn THEN [r EXCEPT !.rest = <<>>]
    ELSE [r EXCEPT !.data = Head(r.rest), !.timestamp = Head(r.rest).ts, !.rest = Tail(r.rest)]

\* Mutant: the end of the file is an error like any other.
parseNextUnclosed(r) ==
    IF r.rest # <<>> /\ Head(r.rest) # Torn
    THEN [r EXCEPT !.data = Head(r.rest), !.timestamp = Head(r.rest).ts, !.rest = Tail(r.rest)]
    ELSE r

\* The end of the file closes the reader.  The missing end of a compressed file
\* is another error: reader and payload stay as they are.
parseNext(r) ==
    IF r.rest # <<>> /\ Head(r.rest) # Torn
    THEN [r EXCEPT !.data = Head(r.rest), !.timestamp = Head(r.rest).ts, !.rest = Tail(r.rest)]
    ELSE IF r.rest # <<>> /\ gz THEN r
    ELSE [r EXCEPT !.closed = TRUE]

\* A file that cannot be opened, and a compressed one without a header, have no
\* reader.  Of a compressed file with nothing but a header there is one, with no
\* payload and the time 0.
NewFileInputReader(f, opened) ==
    IF ~opened \/ (gz /\ disk[f] = <<>>) THEN NoReader
    ELSE parseNext([data |-> NoData, timestamp |-> 0, rest |-> disk[f], closed |-> FALSE])

\* init opens all files that match; any of them may fail.
OpenReaders ==
    /\ unopened' \in SUBSET DOMAIN disk /\ Cardinality(unopened') <= MaxUnopened
    /\ readers' = [f \in DOMAIN disk |-> NewFileInputReader(f, f \notin unopened')]

\* The number of digits of n.
Width(n) == CHOOSE k \in 1 .. (n + 1) : n < 10 ^ k /\ (k = 1 \/ 10 ^ (k - 1) <= n)

\* The numeral of i sorts before that of j: "10" comes before "2".
NumeralBefore(i, j) ==
    LET d == Width(j) - Width(i)
    IN  IF d >= 0 THEN i * 10 ^ d <= j ELSE i < j * 10 ^ (-d)

\* The order in which filepath.Glob returns the names.
GlobBefore(f, g) ==
    \/ f = g
    \/ f[1] < g[1]
    \/ f[1] = g[1] /\ g[2] # Plain /\ (f[2] = Plain \/ NumeralBefore(f[2], g[2]))

Candidates == {f \in DOMAIN readers : readers[f] # NoReader /\ ~readers[f].closed}

\* Mutant: the readers are taken in the order of the files.
nextReaderFirst(f) == f \in Candidates /\ \A g \in Candidates : GlobBefore(f, g)

\* f's reader is the first one with the smallest timestamp.
nextReader(f) ==
    /\ f \in Candidates
    /\ \A g \in Candidates :
          \/ readers[f].timestamp < readers[g].timestamp
          \/ readers[f].timestamp = readers[g].timestamp /\ GlobBefore(f, g)

-----------------------------------------------------------------------------
(* NewFileInput and emit                                                     *)

NewFileInput ==
    /\ epc = "off" /\ phase = "idle"
    /\ loop' \in BOOLEAN
    /\ OpenReaders
    /\ epc' = IF DOMAIN disk = {} THEN "end" ELSE "next"
    /\ passes' = 1
    /\ UNCHANGED <<cur, hand, data, exit, reading, panicked, emitted>>

EmitStopped ==
    /\ epc \in {"next", "read"} /\ exit
    /\ epc' = "end"
    /\ UNCHANGED <<loop, readers, unopened, cur, hand, data, exit, reading, panicked, passes, emitted>>

EmitNext ==
    /\ epc = "next" /\ ~exit
    /\ \E f \in Candidates : nextReader(f) /\ cur' = f
    /\ epc' = "read"
    /\ UNCHANGED <<loop, readers, unopened, hand, data, exit, reading, panicked, passes, emitted>>

\* All readers are closed.  Looping calls init, which Close may have come before.
EmitEnd ==
    /\ epc = "next" /\ ~loop /\ Candidates = {}
    /\ epc' = "end"
    /\ UNCHANGED <<loop, readers, unopened, cur, hand, data, exit, reading, panicked, passes, emitted>>

EmitLoop ==
    /\ epc = "next" /\ loop /\ Candidates = {} /\ passes < MaxPasses
    /\ OpenReaders
    /\ passes' = passes + 1 /\ emitted' = <<>>
    /\ UNCHANGED <<loop, epc, cur, hand, data, exit, reading, panicked>>

\* ReadPayload returns the payload and parses the next one.
EmitRead ==
    /\ epc = "read" /\ ~exit /\ Len(emitted) < MaxEmitted
    /\ hand' = readers[cur].data
    /\ emitted' = Append(emitted, readers[cur].data)
    /\ readers' = [readers EXCEPT ![cur] = parseNext(@)]
    /\ epc' = "send"
    /\ UNCHANGED <<loop, unopened, cur, data, exit, reading, panicked, passes>>

EmitSend ==
    /\ epc = "send" /\ Len(data) < DataCap
    /\ data' = Append(data, hand)
    /\ hand' = NoData
    /\ epc' = "next"
    /\ UNCHANGED <<loop, readers, unopened, cur, exit, reading, panicked, passes, emitted>>

emit == EmitStopped \/ EmitNext \/ EmitEnd \/ EmitLoop \/ EmitRead \/ EmitSend

-----------------------------------------------------------------------------
(* Read and Close                                                            *)

Read ==
    /\ epc # "off" /\ reading /\ data # <<>>
    /\ data' = Tail(data)
    /\ UNCHANGED <<loop, readers, unopened, epc, cur, hand, exit, reading, panicked, passes, emitted>>

ReadStopped ==
    /\ reading /\ exit
    /\ reading' = FALSE
    /\ UNCHANGED <<loop, readers, unopened, epc, cur, hand, data, exit, panicked, passes, emitted>>

\* Mutant: only the reader that is in use is closed.
InputCloseCurrent ==
    /\ epc # "off" /\ ~exit
    /\ exit' = TRUE
    /\ readers' = [f \in DOMAIN readers |->
                      IF f = cur /\ readers[f] # NoReader
                      THEN [readers[f] EXCEPT !.closed = TRUE] ELSE readers[f]]
    /\ panicked' = \E f \in DOMAIN readers : readers[f] = NoReader
    /\ UNCHANGED <<loop, unopened, epc, cur, hand, data, reading, passes, emitted>>

\* Readers are closed in order; a nil one ends the loop, and the process.
InputClose ==
    LET nil == {f \in DOMAIN readers : readers[f] = NoReader}
    IN  /\ epc # "off" /\ ~exit
        /\ exit' = TRUE
        /\ readers' = [f \in DOMAIN readers |->
                          IF \E g \in nil : GlobBefore(g, f) THEN readers[f]
                          ELSE [readers[f] EXCEPT !.closed = TRUE]]
        /\ panicked' = (nil # {})
        /\ UNCHANGED <<loop, unopened, epc, cur, hand, data, reading, passes, emitted>>

InputNext == ~panicked /\ (emit \/ Read \/ ReadStopped \/ InputClose)
=============================================================================
