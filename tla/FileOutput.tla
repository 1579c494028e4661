----------------------------- MODULE FileOutput ----------------------------
(***************************************************************************)
(* FileOutput (output_file.go), optionally behind a Limiter (limiter.go),  *)
(* over successive runs of the process.                                    *)
(*                                                                         *)
(* Several copy goroutines, the writers, call Write, and a flush goroutine *)
(* wakes up periodically.  All call updateName, which computes a name      *)
(* under the read lock and sets it under the write lock: two steps, before *)
(* the locked part of Write that follows.  A payload is a record of size   *)
(* one; the buffered writer holds BufCap of them.  The template's date is  *)
(* a counter, stem; a name is a stem with a chunk index, or with Plain     *)
(* when chunks are appended.                                               *)
(***************************************************************************)
EXTENDS Integers, SequencesExt

CONSTANTS
    Writers,     \* the copy goroutines: one for each input and each readable output
    QueueLimit,  \* --output-file-queue-limit, 0 for none
    SizeLimit,   \* --output-file-size-limit, 0 for none
    MaxSize,     \* --output-file-max-size-limit, 0 for none
    BufCap,      \* records the buffered writer holds
    MaxRecords,  \* bound: payloads over all runs
    MaxStem,     \* bound: changes of the date
    MaxRuns,     \* bound: runs that record
    Stamp,       \* timestamps of payloads, never zero
    Torn         \* end of a file that was not closed

ASSUME LimitAssumption ==
    /\ QueueLimit \in Nat /\ SizeLimit \in Nat /\ MaxSize \in Nat
    /\ BufCap \in Nat \ {0} /\ Stamp \subseteq Nat \ {0}
    /\ MaxRecords \in Nat /\ MaxStem \in Nat /\ MaxRuns \in Nat

Plain == -1
Name == (0 .. MaxStem) \X Int
NoName == <<>>
Record == [id : 1 .. MaxRecords, run : 1 .. MaxRuns, ts : Stamp]
ASSUME TornAssumption == Torn \notin Record

VARIABLES
    gz,                   \* the name ends in .gz
    append, limited,      \* of this run: config.Append, a Limiter in front
    stem,                 \* the date, as the template shows it
    disk,                 \* contents of the files, by name
    phase,                \* "idle", "record" or "closed": the recording process
    run, ids,             \* runs and payloads so far
    log,                  \* payloads written in this run before Close
    currentName, file, isOpen, QueueLength, chunkSize, total, closed,
    buffer,               \* the buffered writer
    wpc, wname,           \* by writer, Write: control point and the name it has computed
    fpc, fname,           \* the flush goroutine, likewise
    reverted,             \* history of this run: a Write has been left with a name before
                          \* that of the file in use,
    crowded               \* or with the name of a chunk that is full

config == <<gz, append, limited>>
nameVars == <<currentName, wname, fname>>
fileVars == <<file, isOpen, QueueLength, chunkSize, total, closed, buffer, disk, log, ids>>
history == <<reverted, crowded>>
control == <<wpc, fpc, history>>
outVars == <<config, stem, phase, run, nameVars, fileVars, control>>

OutputTypeOK ==
    /\ append \in BOOLEAN /\ gz \in BOOLEAN /\ limited \in BOOLEAN
    /\ stem \in 0 .. MaxStem
    /\ \A f \in DOMAIN disk : f \in Name /\ disk[f] \in Seq(Record \cup {Torn})
    /\ phase \in {"idle", "record", "closed"} /\ run \in 0 .. MaxRuns
    /\ ids \in 0 .. MaxRecords /\ log \in Seq(Record) /\ buffer \in Seq(Record)
    /\ {currentName, file, fname} \subseteq Name \cup {NoName}
    /\ isOpen \in BOOLEAN /\ closed \in BOOLEAN
    /\ reverted \in BOOLEAN /\ crowded \in BOOLEAN
    /\ QueueLength \in Nat /\ chunkSize \in Nat /\ total \in Nat
    /\ wpc \in [Writers -> {"idle", "set", "locked", "error"}]
    /\ wname \in [Writers -> Name \cup {NoName}]
    /\ fpc \in {"off", "sleep", "name", "set", "flush"}

\* No process and no file yet.
OutputInit ==
    /\ gz \in BOOLEAN /\ append = FALSE /\ limited = FALSE
    /\ stem = 0 /\ disk = <<>> /\ phase = "idle" /\ run = 0 /\ ids = 0
    /\ log = <<>> /\ buffer = <<>>
    /\ currentName = NoName /\ file = NoName /\ fname = NoName
    /\ isOpen = FALSE /\ closed = FALSE
    /\ QueueLength = 0 /\ chunkSize = 0 /\ total = 0
    /\ wpc = [w \in Writers |-> "idle"] /\ wname = [w \in Writers |-> NoName]
    /\ fpc = "off" /\ reverted = FALSE /\ crowded = FALSE

-----------------------------------------------------------------------------
(* filename and updateName                                                   *)

Indexes == {f[2] : f \in {g \in DOMAIN disk : g[1] = stem}}

\* Mutant: the limits are compared one payload late.
LimitReachedLate(queueLength) ==
    QueueLimit > 0 /\ queueLength > QueueLimit

LimitReached(queueLength) ==
    \/ QueueLimit > 0 /\ queueLength >= QueueLimit
    \/ SizeLimit > 0 /\ chunkSize >= SizeLimit

\* The last index found on disk, or the next one when this chunk is full or the
\* output has just been made.
filename(current, queueLength) ==
    LET nextChunk == current = NoName \/ LimitReached(queueLength)
    IN  IF append THEN <<stem, Plain>>
        ELSE IF Indexes \subseteq {Plain} THEN <<stem, 0>>
        ELSE <<stem, Max(Indexes) + (IF nextChunk THEN 1 ELSE 0)>>

\* NewFileOutput in a new process.
NewFileOutput ==
    /\ phase = "idle" /\ run < MaxRuns
    /\ phase' = "record" /\ run' = run + 1
    /\ append' \in BOOLEAN /\ limited' \in BOOLEAN
    /\ currentName' = IF append' THEN <<stem, Plain>> ELSE filename(NoName, 0)
    /\ file' = NoName /\ isOpen' = FALSE /\ closed' = FALSE
    /\ QueueLength' = 0 /\ chunkSize' = 0 /\ total' = 0
    /\ buffer' = <<>> /\ log' = <<>>
    /\ wpc' = [w \in Writers |-> "idle"] /\ wname' = [w \in Writers |-> NoName]
    /\ fpc' = "sleep" /\ fname' = NoName /\ reverted' = FALSE /\ crowded' = FALSE
    /\ UNCHANGED <<gz, stem, disk, ids>>

-----------------------------------------------------------------------------
(* Write                                                                     *)

Running == phase \in {"record", "closed"}

\* updateName, the reading half.  A payload the Limiter drops is no step.
WriteName(w) ==
    /\ Running /\ wpc[w] = "idle" /\ ids < MaxRecords
    /\ wname' = [wname EXCEPT ![w] = filename(currentName, QueueLength)]
    /\ wpc' = [wpc EXCEPT ![w] = "set"]
    /\ UNCHANGED <<config, stem, phase, run, currentName, fname, fileVars, fpc, history>>

\* The writing half.  Another Write may have set a name, and also opened the file.
WriteSetName(w) ==
    /\ Running /\ wpc[w] = "set"
    /\ currentName' = wname[w]
    /\ wname' = [wname EXCEPT ![w] = NoName]
    /\ wpc' = [wpc EXCEPT ![w] = "locked"]
    /\ UNCHANGED <<config, stem, phase, run, fname, fileVars, fpc, history>>

\* The disk after the buffered writer was flushed to a file that is still open.
Flushed(d) ==
    IF file # NoName /\ isOpen THEN [d EXCEPT ![file] = @ \o buffer] ELSE d

With(d, f, content) == [g \in DOMAIN d \cup {f} |-> IF g = f THEN content ELSE d[g]]

\* bufio.Writer.Write: a full buffer goes to the file first.
Buffered(buf, rec) == IF Len(buf) = BufCap THEN <<rec>> ELSE Append(buf, rec)

\* The order of chunks: by date, then by index (sortByFileIndex).
Before(f, g) == f[1] < g[1] \/ (f[1] = g[1] /\ f[2] <= g[2])

\* Another Write is under way with a name before the one of the file in use.
Overtaken(v) == wpc[v] = "set" /\ ~Before(currentName, wname[v])

\* Another Write is under way to the same chunk.
Shares(v) == wpc[v] = "locked" \/ (wpc[v] = "set" /\ wname[v] = currentName)

\* The file has to be opened.
Reopens == file = NoName \/ currentName # file

\* The locked part: another name closes the old file and opens (O_TRUNC) the new,
\* and closeLocked sets closed, as it does in Close.
WriteLocked(w, ts) ==
    LET rec == [id |-> ids + 1, run |-> run, ts |-> ts]
        start == IF Reopens THEN <<>> ELSE buffer
        spills == ~Reopens /\ Len(buffer) = BufCap
    IN  /\ Running /\ wpc[w] = "locked" /\ ids < MaxRecords
        /\ ids' = ids + 1
        /\ disk' = IF Reopens THEN With(Flushed(disk), currentName, <<>>)
                   ELSE IF spills THEN Flushed(disk) ELSE disk
        /\ buffer' = Buffered(start, rec)
        /\ file' = currentName
        /\ isOpen' = (Reopens \/ isOpen)
        /\ closed' = (Reopens \/ closed)
        /\ QueueLength' = (IF Reopens THEN 0 ELSE QueueLength) + 1
        /\ total' = total + 1
        /\ log' = IF phase = "record" THEN Append(log, rec) ELSE log
        /\ wpc' = [wpc EXCEPT ![w] = IF MaxSize > 0 /\ total' >= MaxSize THEN "error" ELSE "idle"]
        /\ reverted' = (reverted \/ \E v \in Writers \ {w} : Overtaken(v))
        /\ crowded' = (crowded \/ (QueueLength' >= QueueLimit /\ \E v \in Writers \ {w} : Shares(v)))
        /\ UNCHANGED <<config, stem, phase, run, nameVars, chunkSize, fpc>>

-----------------------------------------------------------------------------
(* The flush goroutine                                                       *)

FlushCheck ==
    /\ Running /\ fpc = "sleep"
    /\ fpc' = IF closed THEN "off" ELSE "name"
    /\ UNCHANGED <<config, stem, phase, run, nameVars, fileVars, wpc, history>>

FlushName ==
    /\ Running /\ fpc = "name"
    /\ fname' = filename(currentName, QueueLength)
    /\ fpc' = "set"
    /\ UNCHANGED <<config, stem, phase, run, currentName, wname, fileVars, wpc, history>>

FlushSetName ==
    /\ Running /\ fpc = "set"
    /\ LET waiting == \E v \in Writers : wpc[v] = "locked"
       IN  /\ reverted' = (reverted \/ (waiting /\ file # NoName /\ ~Before(file, fname)))
           /\ crowded' = (crowded \/ (waiting /\ fname = file /\ QueueLength >= QueueLimit))
    /\ currentName' = fname
    /\ fname' = NoName
    /\ fpc' = "flush"
    /\ UNCHANGED <<config, stem, phase, run, wname, fileVars, wpc>>

\* Mutant: what was flushed stays in the buffer.
FlushKeeps ==
    /\ Running /\ fpc = "flush"
    /\ disk' = Flushed(disk)
    /\ fpc' = "sleep"
    /\ UNCHANGED <<config, stem, phase, run, nameVars, file, isOpen, QueueLength, total,
                   closed, log, ids, wpc, history, buffer, chunkSize>>

\* flush: the size of the file becomes chunkSize.
Flush ==
    /\ Running /\ fpc = "flush"
    /\ IF file = NoName THEN UNCHANGED <<disk, buffer, chunkSize>>
       ELSE /\ disk' = Flushed(disk)
            /\ buffer' = IF isOpen THEN <<>> ELSE buffer
            /\ chunkSize' = IF isOpen THEN Len(disk'[file]) ELSE chunkSize
    /\ fpc' = "sleep"
    /\ UNCHANGED <<config, stem, phase, run, nameVars, file, isOpen, QueueLength, total,
                   closed, log, ids, wpc, history>>

-----------------------------------------------------------------------------
(* The end of a run                                                          *)

\* Emitter.Close, on a signal or because Write returned an error.  A Limiter
\* forwards Close only to plugins that can be read, and FileOutput cannot.
Close ==
    /\ phase = "record"
    /\ phase' = "closed"
    /\ IF limited THEN UNCHANGED <<disk, buffer, isOpen, closed>>
       ELSE /\ disk' = Flushed(disk)
            /\ buffer' = <<>> /\ isOpen' = FALSE /\ closed' = TRUE
    /\ UNCHANGED <<config, stem, run, nameVars, file, QueueLength, chunkSize, total, log, ids,
                   control>>

\* What a process leaves on disk when it ends here.  A file that is still open may
\* end in the middle of a payload; compressed, it lacks its end, and of a chunk that
\* was never flushed it holds only the header, which goes out with the first payload.
Left ==
    IF file = NoName \/ ~isOpen THEN {disk}
    ELSE LET torn == [disk EXCEPT ![file] = Append(@, Torn)]
         IN  IF gz THEN {torn} ELSE {disk, torn}

\* The end of the process.
Ends ==
    /\ phase' = "idle"
    /\ buffer' = <<>> /\ isOpen' = FALSE
    /\ file' = NoName /\ currentName' = NoName /\ fname' = NoName
    /\ QueueLength' = 0 /\ chunkSize' = 0 /\ total' = 0 /\ closed' = FALSE
    /\ wpc' = [w \in Writers |-> "idle"] /\ wname' = [w \in Writers |-> NoName]
    /\ fpc' = "off" /\ append' = FALSE /\ limited' = FALSE
    /\ UNCHANGED <<gz, stem, run, log, ids, history>>

\* The process exits, or is killed while it records.
Exit ==
    /\ Running
    /\ disk' \in Left
    /\ Ends

\* It is killed inside of Write, when the next file is open and nothing is in it yet.
KilledOpening(w) ==
    /\ Running /\ wpc[w] = "locked" /\ Reopens
    /\ disk' = With(Flushed(disk), currentName, <<>>)
    /\ Ends

\* The date in the template changes.
Tick ==
    /\ Running /\ stem < MaxStem
    /\ stem' = stem + 1
    /\ UNCHANGED <<config, phase, run, nameVars, fileVars, control>>

OutputNext ==
    \/ NewFileOutput
    \/ \E w \in Writers :
          WriteName(w) \/ WriteSetName(w) \/ (\E ts \in Stamp : WriteLocked(w, ts)) \/ KilledOpening(w)
    \/ FlushCheck \/ FlushName \/ FlushSetName \/ Flush
    \/ Close \/ Exit \/ Tick
=============================================================================
