------------------------------ MODULE Commands ------------------------------
(***************************************************************************)
(* The life of a command (handlers.c): the files it asks about, opens,     *)
(* writes and closes, in its order, up to the exit of the program.  One    *)
(* execution of the program after another runs on the same files.          *)
(***************************************************************************)
EXTENDS Integers, Sequences, SequencesExt

CONSTANTS Names,          \* commands the runs use
          Lz4Files,       \* outputs whose name ends in .lz4
          MaxEntries,     \* bound: entries written in an execution
          MaxRuns,        \* bound: executions of the program
          BufferEntries,  \* entries a writer can hold back
          PipeEntries     \* entries a pipe holds

Files == {"a", "b"}

\* The table of the program's commands.
CommandNames ==
    {"get-info", "patch-paddrs", "convert", "convert-generic", "split",
     "convert-drcachesim-vaddr", "convert-drcachesim-paddr",
     "get-initial-state", "simulate", "simulate-tag-cache",
     "requests-get-info", "requests-tag-csv"}

\* For any other name the program prints them and quits.
ASSUME NamesAssumption == Names \subseteq CommandNames

(***************************************************************************)
(* The handlers.  "refuse" and "confirm" are the two checks for an output  *)
(* that exists, "read" and "write" are trace_reader_open and               *)
(* trace_writer_open, "create" is fopen of the initial state file, "save"  *)
(* writes and closes it, "loop" is the loop over the entries of the input. *)
(***************************************************************************)
Step(op, file) == [op |-> op, file |-> file]
Input(op) == [op |-> op, file |-> "input"]

ReadOnly == <<Input("read"), Input("loop"), Input("close_reader")>>

OneOutput(check) ==
    <<Step(check, "a"), Input("read"), Step("write", "a"), Input("loop"),
      Input("close_reader"), Step("close_writer", "a")>>

\* BUG: the second output is not asked about.
SplitUnchecked ==
    <<Step("confirm", "a"), Input("read"), Step("write", "a"),
      Step("write", "b"), Input("loop"), Input("close_reader"),
      Step("close_writer", "a"), Step("close_writer", "b")>>

\* BUG: one output is written after the other.
SplitTwice ==
    <<Step("confirm", "a"), Step("confirm", "b"), Input("read"),
      Step("write", "a"), Input("loop"), Step("close_writer", "a"),
      Step("write", "b"), Input("loop"), Step("close_writer", "b"),
      Input("close_reader")>>

Split ==
    <<Step("confirm", "a"), Step("confirm", "b"), Input("read"),
      Step("write", "a"), Step("write", "b"), Input("loop"),
      Input("close_reader"), Step("close_writer", "a"),
      Step("close_writer", "b")>>

\* BUG: the input is opened before the user is asked.
SimulateReaderFirst ==
    <<Input("read"), Step("confirm", "a"), Step("write", "a"), Input("loop"),
      Step("close_writer", "a"), Input("close_reader")>>

\* controller_interface_init asks and opens, device_cleanup closes.
Simulate ==
    <<Step("confirm", "a"), Step("write", "a"), Input("read"), Input("loop"),
      Step("close_writer", "a"), Input("close_reader")>>

InitialState ==
    <<Step("confirm", "a"), Input("read"), Step("create", "a"), Input("loop"),
      Step("save", "a"), Input("close_reader")>>

Handler(name) ==
    CASE name \in {"get-info", "simulate-tag-cache", "requests-get-info",
                   "requests-tag-csv"} -> ReadOnly
      [] name = "patch-paddrs" -> OneOutput("refuse")
      [] name \in {"convert", "convert-generic", "convert-drcachesim-vaddr",
                   "convert-drcachesim-paddr"} -> OneOutput("confirm")
      [] name = "split" -> Split
      [] name = "get-initial-state" -> InitialState
      [] name = "simulate" -> Simulate

\* The outputs of a command that are traces.
Steps(name) == {Handler(name)[i] : i \in 1 .. Len(Handler(name))}
Traces(name) == {f \in Files : Step("write", f) \in Steps(name)}

VARIABLES
  pipes,     \* outputs that are FIFOs
  follower,  \* a reader that opens its FIFO when the other one is done, or ""
  runs,      \* executions so far; what the current one writes
  command,   \* its command
  step,      \* the step of the handler it is at
  turn,      \* outputs that still have to get the entry it is at
  files,     \* output -> its contents, what waits in the FIFO, or Absent
  offset,    \* output -> where its writer is, or Closed
  buffered,  \* output -> what its writer holds back
  written,   \* entries the loop has come to
  allowed,   \* outputs the user let it overwrite, or that were not there
  lost,      \* outputs whose last write failed when they were closed
  num_readers_open, num_writers_open,
  outcome,   \* of the last execution
  consumer,  \* FIFO -> what the program that reads it does
  received   \* FIFO -> what that program has read

control == <<runs, command, step, outcome>>
progress == <<turn, written>>
streams == <<files, offset, buffered>>
counts == <<num_readers_open, num_writers_open>>
consumers == <<consumer, received>>
vars == <<pipes, follower, control, progress, streams, allowed, lost, counts,
          consumers>>

Absent == <<-1>>
Closed == -1
EndMark == 0

Init ==
    /\ pipes \in SUBSET Files
    /\ follower \in {"", "b"}
    /\ runs = 0
    /\ command = "get-info"
    /\ step = 1
    /\ turn = {}
    /\ files = [f \in Files |-> IF f \in pipes THEN <<>> ELSE Absent]
    /\ offset = [f \in Files |-> Closed]
    /\ buffered = [f \in Files |-> <<>>]
    /\ written = 0
    /\ allowed = {}
    /\ lost = {}
    /\ num_readers_open = 0
    /\ num_writers_open = 0
    /\ outcome = "none"
    /\ consumer = [f \in Files |-> "idle"]
    /\ received = [f \in Files |-> <<>>]

Current == Handler(command)[step]
At(op) == outcome = "running" /\ step <= Len(Handler(command)) /\ Current.op = op

\* main looks the handler up and calls it.
Start(name) ==
    /\ outcome # "running"
    /\ runs < MaxRuns
    /\ \A f \in pipes : consumer[f] # "reading"
    /\ runs' = runs + 1
    /\ command' = name
    /\ step' = 1
    /\ turn' = {}
    /\ files' = [f \in Files |-> IF f \in pipes THEN <<>> ELSE files[f]]
    /\ offset' = [f \in Files |-> Closed]
    /\ buffered' = [f \in Files |-> <<>>]
    /\ written' = 0
    /\ allowed' = {}
    /\ lost' = {}
    /\ num_readers_open' = 0
    /\ num_writers_open' = 0
    /\ outcome' = "running"
    /\ consumer' = [f \in Files |-> "idle"]
    /\ received' = [f \in Files |-> <<>>]

(***************************************************************************)
(* exit, from quit or at the end of main, calls check_readers_closed and   *)
(* check_writers_closed: they abort the program when something is open.    *)
(***************************************************************************)
Exit(code) ==
    /\ outcome' = IF num_readers_open' = 0 /\ num_writers_open' = 0 THEN code
                  ELSE "aborted"
    /\ UNCHANGED <<runs, command, step>>

Return ==
    /\ outcome = "running"
    /\ step = Len(Handler(command)) + 1
    /\ UNCHANGED counts
    /\ Exit("done")
    /\ UNCHANGED <<progress, streams, allowed, lost, consumers>>

Continue == step' = step + 1 /\ UNCHANGED <<runs, command, outcome>>
Quit == Exit("quit")

\* abort, or a signal: no exit handler runs.
Killed == outcome' = "killed" /\ UNCHANGED <<runs, command, step>>

\* file_exists_not_fifo
Exists(f) == f \notin pipes /\ files[f] # Absent

\* An output that exists is left alone (patch-paddrs), or the user is asked.
Check ==
    /\ At("refuse") \/ At("confirm")
    /\ UNCHANGED counts
    /\ \/ /\ ~ Exists(Current.file) \/ At("confirm")
          /\ allowed' = allowed \cup {Current.file}
          /\ Continue
       \/ /\ Exists(Current.file)
          /\ Quit
          /\ UNCHANGED allowed
    /\ UNCHANGED <<progress, streams, lost, consumers>>

\* The count goes up before the file is opened, whether it can be or not.
CountReader ==
    /\ At("read")
    /\ num_readers_open' = num_readers_open + 1
    /\ UNCHANGED num_writers_open

CountWriter ==
    /\ At("write")
    /\ num_writers_open' = num_writers_open + 1
    /\ UNCHANGED num_readers_open

OpenReader ==
    /\ CountReader
    /\ Continue
    /\ UNCHANGED <<progress, streams, allowed, lost, consumers>>

\* open waits until a FIFO is being opened at its other end.
Opens(f) ==
    /\ f \in pipes => consumer[f] = "opening"
    /\ consumer' = IF f \in pipes THEN [consumer EXCEPT ![f] = "reading"]
                   ELSE consumer

\* A file that is there keeps its contents.
OpensKeeping(f) ==
    /\ Opens(f)
    /\ files' = [files EXCEPT ![f] = IF @ = Absent THEN <<>> ELSE @]

StartsAt0(f) == offset' = [offset EXCEPT ![f] = 0] /\ Continue

OpenWriter ==
    /\ CountWriter
    /\ OpensKeeping(Current.file)
    /\ StartsAt0(Current.file)
    /\ UNCHANGED <<progress, buffered, allowed, lost, received>>

\* fopen with "wb" truncates.
CreateFile ==
    /\ At("create")
    /\ Opens(Current.file)
    /\ files' = [files EXCEPT ![Current.file] = <<>>]
    /\ StartsAt0(Current.file)
    /\ UNCHANGED <<progress, buffered, allowed, lost, counts, received>>

-----------------------------------------------------------------------------
\* BUG: a FIFO is opened for reading as well, so that it always has a reader.
ReadsItself(f) == FALSE

\* A FIFO is opened for writing only: a write fails when its reader is gone.
Broken(f) == f \in pipes /\ consumer[f] = "gone"

\* A FIFO takes what fits.
Writable(f) == ~ Broken(f) /\ (f \in pipes => Len(files[f]) < PipeEntries)

\* What is written to a file overwrites what is there.
With(f, x) ==
    [files EXCEPT ![f] = IF f \in pipes \/ offset[f] = Len(@) THEN Append(@, x)
                         ELSE [@ EXCEPT ![offset[f] + 1] = x]]

\* BUG: an entry goes to one output.
FirstOpen == {f \in Traces(command) \cap {"a"} : offset[f] # Closed}

Open == {f \in Traces(command) : offset[f] # Closed}

\* The loop comes to an entry, which goes to the outputs in their order.
NextOutput == IF "a" \in turn THEN "a" ELSE "b"

NextEntry ==
    /\ At("loop")
    /\ turn = {}
    /\ written < MaxEntries
    /\ written' = written + 1
    /\ turn' = Open
    /\ UNCHANGED <<control, streams, allowed, lost, counts, consumers>>

\* trace_writer_emit, once the writer has room.
Emit ==
    LET f == NextOutput IN
    /\ At("loop")
    /\ turn # {}
    /\ Len(buffered[f]) < BufferEntries
    /\ buffered' = [buffered EXCEPT ![f] = Append(@, runs)]
    /\ turn' = turn \ {f}
    /\ UNCHANGED <<control, written, files, offset, allowed, lost, counts, consumers>>

\* The output that an emit or a close is at.
AtOutput(f) ==
    \/ At("loop") /\ turn # {} /\ f = NextOutput
    \/ At("close_writer") /\ f = Current.file

HoldsBack(f) == buffered[f] # <<>>

\* lz4_writer_compress, or the library for the other formats, writes some of
\* what is held back; when that is depends on how well it compresses.
Flush(f) ==
    /\ AtOutput(f)
    /\ HoldsBack(f)
    /\ Writable(f)
    /\ files' = With(f, Head(buffered[f]))
    /\ offset' = [offset EXCEPT ![f] = @ + 1]
    /\ buffered' = [buffered EXCEPT ![f] = Tail(@)]
    /\ UNCHANGED <<control, progress, allowed, lost, counts, consumers>>

EndOfInput ==
    /\ At("loop")
    /\ turn = {}
    /\ Continue
    /\ UNCHANGED <<progress, streams, allowed, lost, counts, consumers>>

CloseReader ==
    /\ At("close_reader")
    /\ num_readers_open' = num_readers_open - 1
    /\ Continue
    /\ UNCHANGED <<progress, streams, allowed, lost, num_writers_open, consumers>>

\* BUG: the last write does not wait for what is held back.
NotWaiting(f) == TRUE

Emptied(f) == ~ HoldsBack(f)

\* The last write, if there is one, and fclose: nobody looks whether what was
\* left could be written to a file.
Close(f, last) ==
    /\ \/ /\ Emptied(f)
          /\ IF last = <<>> THEN UNCHANGED files
             ELSE Writable(f) /\ files' = With(f, Head(last))
          /\ UNCHANGED lost
       \/ f \notin pipes /\ lost' = lost \cup {f} /\ UNCHANGED files
    /\ offset' = [offset EXCEPT ![f] = Closed]
    /\ buffered' = [buffered EXCEPT ![f] = <<>>]
    /\ Continue
    /\ UNCHANGED <<progress, allowed, consumers>>

\* lz4_writer_close ends the frame.
LastWrite(f) == IF f \in Lz4Files THEN <<EndMark>> ELSE <<>>

CloseWriter ==
    LET f == Current.file IN
    /\ At("close_writer")
    /\ Close(f, LastWrite(f))
    /\ num_writers_open' = num_writers_open - 1
    /\ UNCHANGED num_readers_open

\* The table of the initial state is one entry.
SaveFile ==
    /\ At("save")
    /\ Close(Current.file, <<runs>>)
    /\ UNCHANGED counts

-----------------------------------------------------------------------------
\* The program fails.

\* open does not find the file, or may not; or an input is there, but an
\* assertion on it, or on the library that is to read it, fails.
OpenFails ==
    /\ \/ CountReader /\ (Quit \/ Killed)
       \/ CountWriter /\ Quit
    /\ UNCHANGED <<progress, streams, allowed, lost, consumers>>

\* The output is there, but an assertion on it or on its library fails.
WriterFails ==
    /\ CountWriter
    /\ OpensKeeping(Current.file)
    /\ Killed
    /\ UNCHANGED <<progress, offset, buffered, allowed, lost, received>>

\* gzread fails at the head of the loop, with the reader open and the writers.
ReadFails ==
    /\ At("loop")
    /\ turn = {}
    /\ UNCHANGED counts
    /\ Quit
    /\ UNCHANGED <<progress, streams, allowed, lost, consumers>>

\* An assertion fails: on an entry, because it could not be written, because
\* the initial state file could not be created, or on a library at a close.
AssertionFails ==
    /\ At("create") \/ At("loop") \/ At("close_reader") \/ At("close_writer")
    /\ Killed
    /\ UNCHANGED <<progress, streams, allowed, lost, counts, consumers>>

Fail == OpenFails \/ WriterFails \/ ReadFails \/ AssertionFails

\* SIGPIPE: no handler runs, nothing that is held back is written.
BrokenPipe ==
    /\ \E f \in pipes :
         /\ Broken(f)
         /\ \/ AtOutput(f) /\ (HoldsBack(f) \/ f \in Lz4Files)
            \/ At("save") /\ f = Current.file
    /\ Killed
    /\ UNCHANGED <<progress, streams, allowed, lost, counts, consumers>>

-----------------------------------------------------------------------------
\* The programs that read the FIFOs.
ConsumerOpens(f) ==
    /\ outcome = "running"
    /\ consumer[f] = "idle"
    /\ f = follower => \A g \in pipes \ {f} : consumer[g] \in {"ended", "gone"}
    /\ consumer' = [consumer EXCEPT ![f] = "opening"]
    /\ UNCHANGED <<control, progress, streams, allowed, lost, counts, received>>

ConsumerReads(f) ==
    /\ consumer[f] = "reading"
    /\ files[f] # <<>>
    /\ received' = [received EXCEPT ![f] = Append(@, Head(files[f]))]
    /\ files' = [files EXCEPT ![f] = Tail(@)]
    /\ UNCHANGED <<control, progress, offset, buffered, allowed, lost, counts,
                   consumer>>

\* The end of the file: the writer, or the program, has closed it.
ConsumerEnds(f) ==
    /\ consumer[f] = "reading"
    /\ files[f] = <<>>
    /\ offset[f] = Closed \/ outcome # "running"
    /\ consumer' = [consumer EXCEPT ![f] = "ended"]
    /\ UNCHANGED <<control, progress, streams, allowed, lost, counts, received>>

ConsumerDies(f) ==
    /\ consumer[f] = "reading"
    /\ consumer' = [consumer EXCEPT ![f] = "gone"]
    /\ files' = [files EXCEPT ![f] = <<>>]
    /\ UNCHANGED <<control, progress, offset, buffered, allowed, lost, counts,
                   received>>

\* What the program does without failing.
Command ==
    \/ Check
    \/ OpenReader
    \/ OpenWriter
    \/ CreateFile
    \/ NextEntry
    \/ Emit
    \/ \E f \in Files : Flush(f)
    \/ EndOfInput
    \/ CloseReader
    \/ CloseWriter
    \/ SaveFile
    \/ BrokenPipe
    \/ Return

Consumes(f) == ConsumerOpens(f) \/ ConsumerReads(f) \/ ConsumerEnds(f)

Next ==
    /\ \/ \E name \in Names : Start(name)
       \/ Command
       \/ Fail
       \/ \E f \in pipes : Consumes(f) \/ ConsumerDies(f)
    /\ UNCHANGED <<pipes, follower>>

\* The program and those that read its FIFOs go on when they can; no program
\* has to be started.
Spec ==
    /\ Init /\ [][Next]_vars
    /\ WF_vars(Command /\ UNCHANGED <<pipes, follower>>)
    /\ \A f \in Files :
         WF_vars(f \in pipes /\ Consumes(f) /\ UNCHANGED <<pipes, follower>>)

-----------------------------------------------------------------------------
\* An output that exists changes only after the user was asked about it in
\* the same execution, whichever command and whichever of its outputs it is.
OnlyAllowedChange ==
    [][\A f \in Files \ pipes : files'[f] # files[f] => f \in allowed]_vars

\* The trace of this execution, as its outputs should have it.
Whole(f) ==
    [i \in 1 .. written |-> runs] \o LastWrite(f)

\* What has come through a FIFO, or is in a file.
Stream(f) ==
    received[f] \o (IF files[f] = Absent THEN <<>> ELSE files[f])

\* A command that ran to its end has written its input to all of its outputs,
\* FIFOs and files, but for what a close could not write to a file.
OutputsHoldTrace ==
    outcome = "done" =>
      \A f \in Traces(command) \ lost :
        IF f \in pipes THEN consumer[f] # "gone" => Stream(f) = Whole(f)
        ELSE IsPrefix(Whole(f), files[f])

\* The exit handlers (io.c:170 and 387) find a file open only when one could
\* not be opened (io.c:184 and 416), or the input not be read (io.c:151): not
\* when the user answers no, and not at the end, whichever the command is.
OnlyIoErrorsAbort ==
    outcome = "aborted" =>
      /\ step <= Len(Handler(command))
      /\ Current.op \in {"read", "write", "loop"}

\* Whatever fails, and whoever dies: a new compressed output that has the end
\* of a frame has all of the trace before it.
EndMarkMeansWhole ==
    \A f \in Lz4Files \cap Traces(command) :
      /\ f \in pipes \/ runs = 1
      /\ EndMark \in Range(Stream(f))
      => Stream(f) = Whole(f)

\* With readers that do not wait for each other a command ends, and so do the
\* readers of what it has opened: two outputs that are written in turn do not
\* block each other for good.
PipesDrain ==
    (outcome = "running" /\ follower = "") ~>
      (outcome # "running" /\ \A f \in pipes : consumer[f] # "reading")

\* split opens both outputs before it writes to either: with anything to write
\* to the first it never gets through when the reader of the second waits for
\* that of the first to be done.
SplitNeedsBothReaders ==
    /\ outcome = "done" /\ command = "split" /\ pipes = Files
    /\ written > 0 \/ LastWrite("a") # <<>>
    => follower = ""

\* The prompt before an output is opened (utils.c:30) speaks of overwriting
\* the file: afterwards it holds the trace and nothing else.
OverwrittenFileIsTrace ==
    outcome = "done" =>
      \A f \in Traces(command) \ (pipes \cup lost) : files[f] = Whole(f)

=============================================================================
