------------------------------- MODULE Emitter -----------------------------
(***************************************************************************)
(* Life cycle of the process: main (gor.go), emitter.Start, emitter.Close  *)
(* and the copy goroutines that run CopyMulty (emitter.go).                *)
(*                                                                         *)
(* Inputs are the plugins 1 .. NIn, outputs NIn+1 .. NIn+NOut, in the      *)
(* order of their slices.  There is one copy goroutine per input and per   *)
(* output that can be read (its responses), or a single one that reads the *)
(* middleware.  Both main and every copy goroutine whose CopyMulty returns *)
(* an error call emitter.Close.  What CopyMulty does to a payload between  *)
(* reading and writing it is the subject of module CopyMulty.              *)
(***************************************************************************)
EXTENDS Naturals

CONSTANTS
    NIn, NOut,      \* number of inputs and of outputs
    Readable,       \* outputs that implement io.Reader
    Recloseable,    \* plugins whose Close may run twice without a panic
    StopErrors,     \* outputs whose Write fails once they are closed
    IOErrors,       \* TRUE: Read and Write may fail by themselves
    Middleware,     \* the cases considered: TRUE, --middleware is set, and FALSE
    ExitAfter,      \* TRUE: --exit-after is set
    MaxReads        \* bound on the payloads read by one copy goroutine

Input == 1 .. NIn
Output == NIn + 1 .. NIn + NOut
Plugin == 1 .. NIn + NOut
MW == NIn + NOut + 1
Main == 0

ASSUME CountAssumption == NIn \in Nat \ {0} /\ NOut \in Nat \ {0} /\ MaxReads \in Nat
ASSUME PluginAssumption ==
    /\ Readable \subseteq Output /\ StopErrors \subseteq Output
    /\ Recloseable \subseteq Plugin
ASSUME FlagAssumption ==
    IOErrors \in BOOLEAN /\ Middleware \subseteq BOOLEAN /\ ExitAfter \in BOOLEAN

\* Copy goroutines, named after the plugin they read: the middleware, or every
\* input and readable output.
Copiers(mw) == IF mw THEN {MW} ELSE Input \cup Readable
Copier == UNION {Copiers(mw) : mw \in Middleware}
Goroutine == {Main} \cup Copier

VARIABLES
    quit,       \* the channel e.quit, which is closeCh in main, is closed
    signal,     \* a SIGINT or SIGTERM has been delivered
    timer,      \* the exit-after timer is armed
    plugins,    \* e.plugins: "unset" before Start, "set", "nil" after Close
    closedP,    \* plugins (and MW) whose Close has run
    pc,         \* control point of each goroutine
    pos,        \* the output a copier writes next, or the plugin a closer closes next
    result,     \* what the last Read of a copier returned
    reads,      \* payloads each copier has read
    crashed     \* a goroutine panicked, which ends the process

vars == <<quit, signal, timer, plugins, closedP, pc, pos, result, reads, crashed>>

TypeOK ==
    /\ quit \in BOOLEAN /\ signal \in BOOLEAN /\ timer \in BOOLEAN
    /\ plugins \in {"unset", "set", "nil"}
    /\ closedP \subseteq Plugin \cup {MW}
    /\ pc \in [Goroutine -> {"none", "select", "read", "stop", "write", "check",
                             "closeq", "inputs", "outputs", "close", "unset",
                             "end"}]
    /\ pos \in [Goroutine -> 1 .. NIn + NOut + 1]
    /\ result \in [Goroutine -> {"data", "error", "stopped"}]
    /\ reads \in [Goroutine -> 0 .. MaxReads]
    /\ crashed \in BOOLEAN

Init ==
    /\ quit = FALSE /\ signal = FALSE /\ timer = ExitAfter
    /\ plugins = "unset" /\ closedP = {}
    /\ pc = [g \in Goroutine |-> IF g = Main THEN "select" ELSE "none"]
    /\ pos = [g \in Goroutine |-> 1]
    /\ result = [g \in Goroutine |-> "data"]
    /\ reads = [g \in Goroutine |-> 0]
    /\ crashed = FALSE

\* Nothing runs after a panic, or after main has called os.Exit.
Alive == ~crashed /\ pc[Main] # "end"

Goto(g, label) == pc' = [pc EXCEPT ![g] = label]

Panic == crashed' = TRUE

-----------------------------------------------------------------------------
(* main, Start and the middleware's closer                                   *)

\* Start runs in a goroutine of its own: main may be in its select, or already
\* in Close, when e.plugins is set and the copy goroutines are started.
Start(mw) ==
    /\ Alive /\ plugins = "unset"
    /\ plugins' = "set"
    /\ pc' = [g \in Goroutine |-> IF g \in Copiers(mw) THEN "read" ELSE pc[g]]
    /\ UNCHANGED <<quit, signal, timer, closedP, pos, result, reads, crashed>>

Signal ==
    /\ Alive /\ ~signal
    /\ signal' = TRUE
    /\ UNCHANGED <<quit, timer, plugins, closedP, pc, pos, result, reads, crashed>>

\* time.AfterFunc closes closeCh without looking whether it is closed already.
ExitTimer ==
    /\ Alive /\ timer
    /\ timer' = FALSE
    /\ quit' = TRUE
    /\ crashed' = quit
    /\ UNCHANGED <<signal, plugins, closedP, pc, pos, result, reads>>

\* Mutant: main waits for a signal only.
MainWakesOnSignal ==
    /\ Alive /\ pc[Main] = "select"
    /\ signal
    /\ Goto(Main, "check")
    /\ UNCHANGED <<quit, signal, timer, plugins, closedP, pos, result, reads, crashed>>

MainWakes ==
    /\ Alive /\ pc[Main] = "select"
    /\ signal \/ quit
    /\ Goto(Main, "check")
    /\ UNCHANGED <<quit, signal, timer, plugins, closedP, pos, result, reads, crashed>>

\* The goroutine that closes the middleware is started with its copy goroutine.
MiddlewareClose ==
    /\ Alive /\ MW \in Copier /\ pc[MW] # "none"
    /\ quit /\ MW \notin closedP
    /\ closedP' = closedP \cup {MW}
    /\ UNCHANGED <<quit, signal, timer, plugins, pc, pos, result, reads, crashed>>

-----------------------------------------------------------------------------
(* CopyMulty, run by copy goroutine g                                        *)

\* src.Read returns: a payload, an error of its own, or ErrorStopped because
\* the plugin has been closed.
CopyRead(g) ==
    /\ Alive /\ pc[g] = "read"
    /\ \/ /\ reads[g] < MaxReads
          /\ reads' = [reads EXCEPT ![g] = @ + 1]
          /\ result' = [result EXCEPT ![g] = "data"]
       \/ /\ IOErrors
          /\ result' = [result EXCEPT ![g] = "error"]
          /\ reads' = reads
       \/ /\ g \in closedP
          /\ result' = [result EXCEPT ![g] = "stopped"]
          /\ reads' = reads
    /\ Goto(g, "stop")
    /\ UNCHANGED <<quit, signal, timer, plugins, closedP, pos, crashed>>

\* Mutant: the error is looked at before the stop channel.
CopyStopLate(g) ==
    /\ Alive /\ pc[g] = "stop"
    /\ \/ result[g] # "data" /\ Goto(g, "check") /\ pos' = pos
       \/ result[g] = "data" /\ quit /\ Goto(g, "end") /\ pos' = pos
       \/ /\ ~quit /\ result[g] = "data"
          /\ Goto(g, "write")
          /\ pos' = [pos EXCEPT ![g] = NIn + 1]
    /\ UNCHANGED <<quit, signal, timer, plugins, closedP, result, reads, crashed>>

\* The check of the stop channel that precedes the check of the error; a payload
\* that is filtered, malformed or empty is not written anywhere.
CopyStop(g) ==
    /\ Alive /\ pc[g] = "stop"
    /\ \/ quit /\ Goto(g, "end") /\ pos' = pos
       \/ ~quit /\ result[g] # "data" /\ Goto(g, "check") /\ pos' = pos
       \/ ~quit /\ result[g] = "data" /\ Goto(g, "read") /\ pos' = pos
       \/ /\ ~quit /\ result[g] = "data"
          /\ Goto(g, "write")
          /\ pos' = [pos EXCEPT ![g] = NIn + 1]
    /\ UNCHANGED <<quit, signal, timer, plugins, closedP, result, reads, crashed>>

WriteMayFail(k) == IOErrors \/ (k \in StopErrors /\ k \in closedP)

\* dst.Write for each writer in turn; an error is returned without a look at stop.
CopyWrite(g) ==
    /\ Alive /\ pc[g] = "write"
    /\ \/ /\ pos[g] \notin StopErrors \/ pos[g] \notin closedP
          /\ IF pos[g] = NIn + NOut
             THEN Goto(g, "read") /\ pos' = [pos EXCEPT ![g] = 1]
             ELSE pos' = [pos EXCEPT ![g] = @ + 1] /\ pc' = pc
       \/ WriteMayFail(pos[g]) /\ Goto(g, "check") /\ pos' = pos
    /\ UNCHANGED <<quit, signal, timer, plugins, closedP, result, reads, crashed>>

-----------------------------------------------------------------------------
(* emitter.Close, run by main or by a copy goroutine that got an error       *)

\* close(): the select on e.quit, and the close it decides on, are two steps.
CloseCheck(g) ==
    /\ Alive /\ pc[g] = "check"
    /\ Goto(g, IF quit THEN "inputs" ELSE "closeq")
    /\ UNCHANGED <<quit, signal, timer, plugins, closedP, pos, result, reads, crashed>>

CloseQuit(g) ==
    /\ Alive /\ pc[g] = "closeq"
    /\ quit' = TRUE
    /\ crashed' = quit
    /\ Goto(g, "inputs")
    /\ UNCHANGED <<signal, timer, plugins, closedP, pos, result, reads>>

\* Mutant: the second loop ranges over the inputs again.
CloseRangeInputs(g) ==
    /\ Alive /\ pc[g] \in {"inputs", "outputs"}
    /\ IF plugins = "set"
       THEN /\ pos' = [pos EXCEPT ![g] = 1]
            /\ Goto(g, "close")
            /\ crashed' = crashed
       ELSE Panic /\ UNCHANGED <<pc, pos>>
    /\ UNCHANGED <<quit, signal, timer, plugins, closedP, result, reads>>

\* The two range loops each dereference e.plugins once.
CloseRange(g) ==
    /\ Alive /\ pc[g] \in {"inputs", "outputs"}
    /\ IF plugins = "set"
       THEN /\ pos' = [pos EXCEPT ![g] = IF pc[g] = "inputs" THEN 1 ELSE NIn + 1]
            /\ Goto(g, "close")
            /\ crashed' = crashed
       ELSE Panic /\ UNCHANGED <<pc, pos>>
    /\ UNCHANGED <<quit, signal, timer, plugins, closedP, result, reads>>

\* Close of one plugin: most close a channel, which panics the second time.
ClosePlugin(g) ==
    /\ Alive /\ pc[g] = "close"
    /\ IF pos[g] \in closedP \ Recloseable
       THEN Panic /\ UNCHANGED <<closedP, pc, pos>>
       ELSE /\ closedP' = closedP \cup {pos[g]}
            /\ pos' = [pos EXCEPT ![g] = @ + 1]
            /\ Goto(g, CASE pos[g] = NIn -> "outputs"
                         [] pos[g] = NIn + NOut -> "unset"
                         [] OTHER -> "close")
            /\ crashed' = crashed
    /\ UNCHANGED <<quit, signal, timer, plugins, result, reads>>

\* e.plugins = nil; then main calls os.Exit, a copy goroutine ends.
CloseUnset(g) ==
    /\ Alive /\ pc[g] = "unset"
    /\ plugins' = "nil"
    /\ Goto(g, "end")
    /\ UNCHANGED <<quit, signal, timer, closedP, pos, result, reads, crashed>>

Close(g) ==
    CloseCheck(g) \/ CloseQuit(g) \/ CloseRange(g) \/ ClosePlugin(g) \/ CloseUnset(g)

Copy(g) == CopyRead(g) \/ CopyStop(g) \/ CopyWrite(g)

-----------------------------------------------------------------------------
Next ==
    \/ \E mw \in Middleware : Start(mw)
    \/ Signal \/ ExitTimer \/ MainWakes \/ MiddlewareClose
    \/ \E g \in Copier : Copy(g)
    \/ \E g \in Goroutine : Close(g)

Spec == Init /\ [][Next]_vars

(***************************************************************************)
(* Goroutines that can run do run.  Nothing forces data, errors, a signal  *)
(* or the timer.                                                           *)
(***************************************************************************)
Fairness ==
    /\ WF_vars(\E mw \in Middleware : Start(mw))
    /\ WF_vars(MainWakes) /\ WF_vars(MiddlewareClose)
    /\ \A g \in Goroutine : WF_vars(Close(g))
    /\ \A g \in Copier : WF_vars(CopyStop(g)) /\ WF_vars(CopyWrite(g))

FairSpec == Spec /\ Fairness

-----------------------------------------------------------------------------
(* Properties                                                                *)

Closing(g) == pc[g] \in {"check", "closeq", "inputs", "outputs", "close", "unset"}

(***************************************************************************)
(* The stop channel is closed before any plugin is, so a Read that fails   *)
(* because its plugin was closed is always recognised as a stop: it never  *)
(* makes its copy goroutine run Close.                                     *)
(***************************************************************************)
StopIsNoError ==
    \A g \in Copier : result[g] = "stopped" /\ pc[g] # "read" => pc[g] \in {"stop", "end"}

(***************************************************************************)
(* Whoever closes, no output is closed while an input is still open: the   *)
(* inputs stop producing first.                                            *)
(***************************************************************************)
InputsCloseFirst ==
    (\E o \in Output : o \in closedP) => Input \subseteq closedP

(***************************************************************************)
(* A request to stop ends the process, by os.Exit or by a panic.           *)
(***************************************************************************)
StopEndsProcess == (signal \/ quit) ~> (pc[Main] = "end" \/ crashed)

(***************************************************************************)
(* Close is not made to run twice (its plugins close channels, and it sets *)
(* e.plugins to nil): a panic after Start takes a second goroutine that is *)
(* in Close, one that enters it after another has left it, or the exit     *)
(* timer, which closes the same channel.  Nothing else brings one about:   *)
(* main alone closes every plugin once.                                    *)
(***************************************************************************)
OneCloserNoPanic ==
    crashed => \/ plugins = "unset"
               \/ ExitAfter /\ ~timer
               \/ plugins = "nil" /\ \E g \in Goroutine : Closing(g)
               \/ \E g, h \in Goroutine : g # h /\ Closing(g) /\ Closing(h)

(***************************************************************************)
(* Why these hold.  Who closes plugins has seen the stop channel closed, or *)
(* has closed it, and nobody else closes it but the exit timer.            *)
(***************************************************************************)
PastQuit(g) == pc[g] \in {"inputs", "outputs", "close", "unset"}

QuitComesFirst ==
    /\ \A g \in Goroutine : PastQuit(g) \/ result[g] = "stopped" => quit
    /\ closedP # {} => quit
    /\ quit => \/ ExitAfter /\ ~timer
               \/ plugins = "nil"
               \/ \E g \in Goroutine : PastQuit(g)
    /\ timer => ExitAfter

\* Copy goroutines exist only after Start.
NoneBeforeStart == plugins = "unset" => \A g \in Copier : pc[g] = "none"

\* The plugins that closer g has closed already.
ClosedBy(g) ==
    CASE pc[g] = "close" -> 1 .. (pos[g] - 1)
      [] pc[g] = "outputs" -> Input
      [] pc[g] = "unset" -> Plugin
      [] OTHER -> {}

(***************************************************************************)
(* The loops over the plugins go in the order of their slices, and what is *)
(* closed was closed by one of them, which is still there or has set       *)
(* e.plugins to nil.                                                       *)
(***************************************************************************)
ClosersInOrder ==
    /\ \A g \in Goroutine :
          /\ pc[g] = "close" => pos[g] \in Plugin
          /\ pc[g] = "write" => pos[g] \in Output
          /\ ClosedBy(g) \subseteq closedP
    /\ \A k \in closedP \cap Plugin :
          plugins = "nil" \/ \E g \in Goroutine : k \in ClosedBy(g)

(***************************************************************************)
(* What holds at every moment of a shutdown: a stop is never taken for an  *)
(* error, and inputs are closed before outputs, however many goroutines    *)
(* close at the same time.                                                 *)
(***************************************************************************)
EmitterInv ==
    /\ TypeOK
    /\ StopIsNoError
    /\ InputsCloseFirst
    /\ QuitComesFirst
    /\ NoneBeforeStart
    /\ ClosersInOrder
=============================================================================
