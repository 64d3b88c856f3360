-------------------------------- MODULE Pipe --------------------------------
(***************************************************************************)
(* transport/pipe: the bounded in-process pipe, with its mutex, its two    *)
(* one-token notifiers, its done channel and its three states.  Data is    *)
(* counted in units: MergeMulti and reads keep the order, so how many      *)
(* units were accepted and wait says everything.   The section under the   *)
(* mutex and the notification after it are separate steps.  The caller of  *)
(* the reader is the module that extends this one.                         *)
(***************************************************************************)
EXTENDS Naturals

CONSTANTS Limit,     \* option.limit, in units
          MaxWrite,  \* bound: units in one WriteMultiBuffer
          MaxUnits   \* bound: units written in a behaviour

ASSUME PipeAssumption == Limit \in Nat /\ MaxWrite \in Nat \ {0} /\ MaxUnits \in Nat

VARIABLES state,       \* open, closed or errord
          pending,     \* units in data
          readSignal, writeSignal,  \* a token waits in the notifier
          done,        \* the done channel is closed
          wpc, size,   \* the writer: where it is, and what it writes
          rpc,         \* the reader: idle, try, wait, or the outcome of its read
          got,         \* units the reader took with its last read
          accepted     \* history: units written

pipeVars == <<state, pending, readSignal, writeSignal, done, wpc, size, rpc, got,
              accepted>>
signals  == <<readSignal, writeSignal>>

PipeInit == /\ state = "open" /\ pending = 0 /\ done = FALSE
            /\ readSignal = FALSE /\ writeSignal = FALSE
            /\ wpc = "idle" /\ size = 0 /\ rpc = "idle" /\ got = 0
            /\ accepted = 0

IsFull == pending > Limit

-----------------------------------------------------------------------------
(* WriteMultiBuffer.                                                       *)

\* A new call, or the retry of a writer that was woken.
Writes(n) == \/ wpc = "idle" /\ accepted + n <= MaxUnits
             \/ wpc = "try" /\ n = size

\* writeMultiBufferInternal under the lock.
WriteTry(n) ==
    /\ Writes(n)
    /\ \/ /\ state = "open" /\ ~IsFull
          /\ pending' = pending + n /\ accepted' = accepted + n
          /\ wpc' = "wrote" /\ size' = 0
       \/ /\ state = "open" /\ IsFull /\ wpc' = "blocked" /\ size' = n
          /\ UNCHANGED <<pending, accepted>>
       \/ /\ state # "open" /\ wpc' = "refused" /\ size' = 0
          /\ UNCHANGED <<pending, accepted>>
    /\ UNCHANGED <<state, signals, done, rpc, got>>

SignalsNobody == UNCHANGED readSignal
SignalsReader == readSignal' = TRUE

WriteReturns == /\ wpc \in {"wrote", "refused"} /\ SignalsReader
                /\ wpc' = IF wpc = "wrote" THEN "idle" ELSE "failed"
                /\ UNCHANGED <<state, pending, writeSignal, done, size, rpc, got, accepted>>

\* The select of a blocked writer.
WriteWakes == /\ wpc = "blocked"
              /\ \/ writeSignal /\ writeSignal' = FALSE /\ wpc' = "try"
                 \/ done /\ wpc' = "failed" /\ UNCHANGED writeSignal
              /\ size' = IF wpc' = "try" THEN size ELSE 0
              /\ UNCHANGED <<state, pending, readSignal, done, rpc, got, accepted>>

-----------------------------------------------------------------------------
(* ReadMultiBuffer.                                                        *)

ReadCall == /\ rpc = "idle" /\ rpc' = "try"
            /\ UNCHANGED <<state, pending, signals, done, wpc, size, got, accepted>>

AtEof == state = "closed" /\ pending = 0

\* readMultiBufferInternal under the lock: an error, all the data, or nothing yet.
ReadTry ==
    /\ rpc = "try"
    /\ \/ (state = "errord" \/ AtEof) /\ rpc' = "fails"
          /\ UNCHANGED <<pending, got>>
       \/ /\ state # "errord" /\ ~AtEof /\ pending > 0 /\ rpc' = "took"
          /\ got' = pending /\ pending' = 0
       \/ state = "open" /\ pending = 0 /\ rpc' = "wait"
          /\ UNCHANGED <<pending, got>>
    /\ UNCHANGED <<state, signals, done, wpc, size, accepted>>

WakesNobody == UNCHANGED writeSignal
WakesWriter == writeSignal' = TRUE

ReadReturns == /\ rpc \in {"took", "fails"} /\ WakesWriter
               /\ rpc' = IF rpc = "took" THEN "data" ELSE "end"
               /\ UNCHANGED <<state, pending, readSignal, done, wpc, size, got, accepted>>

ReadWakes == /\ rpc = "wait" /\ (readSignal \/ done) /\ rpc' = "try"
             /\ \/ readSignal /\ readSignal' = FALSE
                \/ done /\ UNCHANGED readSignal
             /\ UNCHANGED <<state, pending, writeSignal, done, wpc, size, got, accepted>>

-----------------------------------------------------------------------------
(* Close and Interrupt.                                                    *)

PipeClose == /\ state' = IF state = "open" THEN "closed" ELSE state
             /\ done' = TRUE
             /\ UNCHANGED <<pending, signals, wpc, size, rpc, got, accepted>>

\* Interrupt drops the data; a closed pipe without data stays closed.
PipeInterrupt ==
    /\ pending' = 0
    /\ state' = IF state = "closed" /\ pending = 0 THEN "closed" ELSE "errord"
    /\ done' = TRUE
    /\ UNCHANGED <<signals, wpc, size, rpc, got, accepted>>

WriteStep == (wpc = "try" /\ WriteTry(size)) \/ WriteReturns \/ WriteWakes
ReadStep  == ReadTry \/ ReadReturns \/ ReadWakes

PipeTypeOK == /\ state \in {"open", "closed", "errord"}
              /\ {readSignal, writeSignal, done} \subseteq BOOLEAN
              /\ wpc \in {"idle", "try", "wrote", "refused", "blocked", "failed"}
              /\ size \in 0 .. MaxWrite
              /\ rpc \in {"idle", "try", "wait", "took", "fails", "data", "end"}
              /\ {pending, got, accepted} \subseteq 0 .. MaxUnits

=============================================================================
