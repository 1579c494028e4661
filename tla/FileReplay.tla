----------------------------- MODULE FileReplay ----------------------------
(***************************************************************************)
(* Recording to files in one or more runs, ended in order or by a crash,   *)
(* and then replaying what is on disk.                                     *)
(***************************************************************************)
EXTENDS FileInput

vars == <<outVars, inVars>>

Init == OutputInit /\ InputInit

\* A replay is a process of its own, that knows of the files only.
StartReplay ==
    /\ NewFileInput
    /\ log' = <<>> /\ reverted' = FALSE
    /\ UNCHANGED <<config, stem, phase, run, nameVars, wpc, fpc, crowded, disk, ids,
                   file, isOpen, QueueLength, chunkSize, total, closed, buffer>>

Next ==
    \/ epc = "off" /\ OutputNext /\ UNCHANGED inVars
    \/ StartReplay
    \/ InputNext /\ UNCHANGED outVars

Spec == Init /\ [][Next]_vars

(***************************************************************************)
(* Once the replay has begun, emit and the copy goroutine that reads run   *)
(* when they can.  Nothing forces Close.                                   *)
(***************************************************************************)
FairSpec ==
    /\ Spec
    /\ WF_vars(emit /\ ~panicked /\ UNCHANGED outVars)
    /\ WF_vars(Read /\ ~panicked /\ UNCHANGED outVars)

-----------------------------------------------------------------------------
(* Properties of the recording                                               *)

\* Where payloads of this run are on disk, and the order of these places: chunk by chunk.
Spots ==
    UNION {{f} \X {i \in DOMAIN disk[f] : disk[f][i] # Torn /\ disk[f][i].run = run} :
              f \in DOMAIN disk}

At(p) == disk[p[1]][p[2]]

Precedes(p, q) == IF p[1] = q[1] THEN p[2] < q[2] ELSE Before(p[1], q[1])

\* The payloads of s are on disk, each once and in the order of s.
InOrder(s) ==
    /\ \A i \in DOMAIN s : \E p \in Spots : At(p) = s[i]
    /\ \A p, q \in Spots : \A i, j \in DOMAIN s :
          At(p) = s[i] /\ At(q) = s[j] => (Precedes(p, q) <=> i < j)

\* They are the first of the run there, or all of them.
Begins(s) ==
    /\ InOrder(s)
    /\ \A p, q \in Spots : At(p) \in Range(s) /\ At(q) \notin Range(s) => Precedes(p, q)

Holds(s) == InOrder(s) /\ \A p \in Spots : At(p) \in Range(s)

(***************************************************************************)
(* Whatever the writers and the flush goroutine do to each other's names,  *)
(* no payload is on disk twice.                                            *)
(***************************************************************************)
NeverTwice == \A p, q \in Spots : At(p) = At(q) => p = q

(***************************************************************************)
(* Changing chunks loses nothing: while a run records, the chunks in the   *)
(* order of their names, followed by the buffered writer, hold what was    *)
(* written, once and in order, and after Close the chunks alone do.  Two   *)
(* exceptions: a Write left with a name before that of the file in use,    *)
(* which opens an earlier chunk again and empties it, and a Limiter, which *)
(* keeps Close from the file.                                              *)
(***************************************************************************)
RunKept ==
    ~reverted =>
        /\ phase = "record" =>
              \E n \in 0 .. Len(log) :
                  Holds(SubSeq(log, 1, n)) /\ buffer = SubSeq(log, n + 1, Len(log))
        /\ phase = "closed" /\ ~limited => Begins(log)

(***************************************************************************)
(* A crash, or an exit that did not close the file, loses the last payloads *)
(* of the run and no others, and at most what the buffered writer held.    *)
(***************************************************************************)
CrashLosesBuffer ==
    phase = "idle" /\ ~reverted =>
        \/ Begins(log)
        \/ \E n \in 0 .. Len(log) : Len(log) - n <= BufCap /\ Holds(SubSeq(log, 1, n))

\* What a chunk holds, with what the buffered writer still has for it.
Held(f) == disk[f] \o (IF f = file /\ isOpen THEN buffer ELSE <<>>)

\* Where payloads of this run are in it.
OfThisRun(f) == {i \in DOMAIN Held(f) : Held(f)[i] # Torn /\ Held(f)[i].run = run}

(***************************************************************************)
(* No chunk outgrows --output-file-queue-limit, whatever the date, the     *)
(* flush goroutine and the other writers do, unless a chunk became full    *)
(* while another Write was under way to it, or was set again when full.    *)
(***************************************************************************)
ChunkBounded ==
    QueueLimit > 0 /\ ~crowded =>
        \A f \in DOMAIN disk : f[2] # Plain => Cardinality(OfThisRun(f)) <= QueueLimit

\* Payloads on disk that an earlier run has written.
Earlier == {r \in UNION {Range(disk[f]) : f \in DOMAIN disk} : r # Torn /\ r.run < run}

(***************************************************************************)
(* "If you run gor multiple times, and it finds existing files, it will    *)
(* continue from last known index": a new run adds chunks and leaves what  *)
(* earlier runs have recorded.                                             *)
(***************************************************************************)
EarlierRunsKept == [][Earlier \subseteq Earlier']_vars

-----------------------------------------------------------------------------
(* Properties of the replay                                                  *)

Unended(f) == gz /\ Contains(disk[f], Torn)

\* The k-th payload of f is its last, and f ends in the middle of the next.
LastBeforeTorn(f, k) ==
    Unended(f) /\ \A l \in DOMAIN disk[f] : l > k => disk[f][l] = Torn

\* What is emitted i-th is the k-th payload of f: those before it were, and it was not.
InTurn(f, k, i) ==
    /\ \A l \in 1 .. (k - 1) : \E h \in 1 .. (i - 1) : emitted[h] = disk[f][l]
    /\ \A h \in 1 .. (i - 1) : emitted[h] = emitted[i] => LastBeforeTorn(f, k)

\* A compressed file of which there is only the header.
HeaderOnly(f) == gz /\ disk[f] # <<>> /\ Head(disk[f]) = Torn

\* A file without a reader.
Unreadable(f) == f \in unopened \/ (gz /\ disk[f] = <<>>)

Readable == {f \in DOMAIN disk : ~Unreadable(f)}

(***************************************************************************)
(* A pass replays the whole payloads of each file that can be opened and   *)
(* nothing else, in their order, each once, and all of them unless it is   *)
(* closed.  Only a compressed file that lacks its end is different: its    *)
(* last payload is replayed for ever, and if it has none, empty payloads   *)
(* are, and the other files never get their turn.                          *)
(***************************************************************************)
ReplayExact ==
    /\ \A i \in DOMAIN emitted :
          IF \E f \in Readable : HeaderOnly(f) THEN emitted[i] = NoData
          ELSE \E f \in Readable : \E k \in DOMAIN disk[f] :
                  /\ emitted[i] = disk[f][k] /\ emitted[i] # Torn
                  /\ InTurn(f, k, i)
    /\ epc = "end" /\ ~exit =>
          \A f \in Readable :
              /\ ~Unended(f)
              /\ \A k \in DOMAIN disk[f] :
                    disk[f][k] # Torn => \E i \in DOMAIN emitted : emitted[i] = disk[f][k]

\* The position of r in the file it is from.
Position(r) ==
    LET f == CHOOSE g \in DOMAIN disk : Contains(disk[g], r)
    IN  <<f, CHOOSE i \in DOMAIN disk[f] : disk[f][i] = r>>

(***************************************************************************)
(* Files are merged by time: a payload is replayed after a later one only  *)
(* if in its own file a payload that is not earlier stands before it.      *)
(***************************************************************************)
MergedByTime ==
    ~(\E f \in DOMAIN disk : Unended(f)) =>
        \A j \in DOMAIN emitted : \A i \in 1 .. (j - 1) :
            emitted[j].ts < emitted[i].ts =>
                LET p == Position(emitted[j])
                IN  \E k \in 1 .. (p[2] - 1) : disk[p[1]][k].ts >= emitted[i].ts

(***************************************************************************)
(* Close and the end of emit leave no file open, in whatever order they    *)
(* come, unless looping opens the files again behind Close.                *)
(***************************************************************************)
ReadersReleased ==
    exit /\ epc = "end" /\ ~loop /\ ~panicked =>
        \A f \in DOMAIN readers : readers[f].closed

(***************************************************************************)
(* Close panics, over a nil reader, when a file could not be opened or is  *)
(* compressed and empty, as a kill between the opening of a chunk and its  *)
(* first payload leaves it; and only then, unless looping has opened the   *)
(* files again behind it.                                                  *)
(***************************************************************************)
PanicNeedsUnreadable ==
    /\ panicked => \E f \in DOMAIN disk : Unreadable(f)
    /\ exit /\ ~loop /\ ~panicked => Readable = DOMAIN disk

(***************************************************************************)
(* A replay that does not loop comes to its end, although the data channel *)
(* fills up, unless it is closed or a compressed file that can be opened   *)
(* lacks its end.                                                          *)
(***************************************************************************)
ReplayEnds ==
    epc # "off" /\ ~loop /\ ~(\E f \in Readable : Unended(f)) ~> epc = "end" \/ exit

(***************************************************************************)
(* A recording keeps what it was given: nothing is recorded twice, between *)
(* two chunks nothing is lost, and a run that ends loses at most the       *)
(* buffered tail.                                                          *)
(***************************************************************************)
RecordingInv ==
    /\ OutputTypeOK
    /\ NeverTwice
    /\ RunKept
    /\ CrashLosesBuffer

(***************************************************************************)
(* Close and the end of a replay meet in any order: no file stays open, and*)
(* only a file without a reader makes Close panic.                         *)
(***************************************************************************)
CloseInv ==
    /\ InputTypeOK
    /\ ReadersReleased
    /\ PanicNeedsUnreadable
=============================================================================
