----------------------------- MODULE TraceReader -----------------------------
(***************************************************************************)
(* What trace_reader_get (io.c) promises a command, whatever the format of *)
(* the file: the entries of the trace one after the other, then the end.   *)
(* A byte is represented by its place in the trace.                        *)
(***************************************************************************)
EXTENDS Integers

CONSTANTS EntrySize,    \* bytes in an entry
          NumEntries    \* entries in the trace

VARIABLES available,  \* entries that can be had from the file
          intact,     \* it is the file that was written, whole and alone
          num_read,   \* entries returned
          entry,      \* the bytes of the last one
          ended       \* trace_reader_get returned false

vars == <<available, intact, num_read, entry, ended>>

EntryAt(n) == [i \in 1 .. EntrySize |-> n * EntrySize + i]

Init ==
    /\ available \in 0 .. NumEntries
    /\ intact \in BOOLEAN
    /\ intact => available = NumEntries
    /\ num_read = 0
    /\ entry = [i \in 1 .. EntrySize |-> 0]
    /\ ended = FALSE

Get ==
    /\ num_read < available
    /\ entry' = EntryAt(num_read)
    /\ num_read' = num_read + 1
    /\ UNCHANGED <<available, intact, ended>>

\* A damaged file gives what it has and never a clean end.
End ==
    /\ intact
    /\ num_read = available
    /\ ~ ended
    /\ ended' = TRUE
    /\ UNCHANGED <<available, intact, num_read, entry>>

Next == Get \/ End

Spec == Init /\ [][Next]_vars /\ WF_vars(Next)

=============================================================================
