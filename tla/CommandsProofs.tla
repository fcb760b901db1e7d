--------------------------- MODULE CommandsProofs ---------------------------
(***************************************************************************)
(* Every command on any number of files, FIFOs and entries: what it opens  *)
(* it closes, it changes no file the user has not allowed, and what it     *)
(* leaves in its outputs at the end is the trace.                          *)
(***************************************************************************)
EXTENDS Commands, SequenceTheorems, TLAPS

Ops == {"refuse", "confirm", "read", "write", "create", "loop", "close_reader",
        "close_writer", "save"}
HandlerStep == [op : Ops, file : Files \cup {"input"}]

\* One of the steps before the n-th is s.
Before(h, n, s) == \E j \in 1 .. n - 1 : h[j] = s

Checked(h, n, f) == Before(h, n, Step("refuse", f)) \/ Before(h, n, Step("confirm", f))

\* What a step of a handler may count on.
Orderly(h, n) ==
    /\ h[n] \in HandlerStep
    /\ h[n].op \in {"read", "loop", "close_reader"} => h[n].file = "input"
    /\ h[n].op \notin {"read", "loop", "close_reader"} => h[n].file \in Files
    /\ h[n].op \in {"refuse", "confirm"} =>
         \A j \in 1 .. n - 1 : h[j].op \in {"refuse", "confirm"}
    /\ h[n].op = "read" =>
         ~ Before(h, n, Input("read")) /\ ~ Before(h, n, Input("close_reader"))
    /\ h[n].op = "close_reader" =>
         Before(h, n, Input("read")) /\ ~ Before(h, n, Input("close_reader"))
    /\ h[n].op \in {"write", "create"} => Checked(h, n, h[n].file)
    /\ h[n].op = "write" =>
         /\ ~ Before(h, n, Step("write", h[n].file))
         /\ ~ Before(h, n, Step("close_writer", h[n].file))
         /\ ~ Before(h, n, Input("loop"))
    /\ h[n].op = "close_writer" =>
         /\ Before(h, n, Step("write", h[n].file))
         /\ ~ Before(h, n, Step("close_writer", h[n].file))
         /\ Before(h, n, Input("loop"))
    /\ h[n].op = "save" => Before(h, n, Step("create", h[n].file))
    /\ h[n].op \in {"write", "close_writer"} =>
         \A j \in 1 .. Len(h) : h[j].op \notin {"create", "save"}
    /\ h[n].op = "loop" =>
         \A f \in Files :
           \/ \A j \in 1 .. Len(h) : h[j] # Step("write", f)
           \/ /\ Before(h, n, Step("write", f))
              /\ ~ Before(h, n, Step("close_writer", f))

\* A handler closes what it has opened.
ClosesAll(h) ==
    /\ Before(h, Len(h) + 1, Input("read"))
    /\ Before(h, Len(h) + 1, Input("close_reader"))
    /\ \A f \in Files : Before(h, Len(h) + 1, Step("write", f)) =>
                          Before(h, Len(h) + 1, Step("close_writer", f))

WellFormed(h) == /\ Len(h) \in Nat
                 /\ \A n \in 1 .. Len(h) : Orderly(h, n)
                 /\ ClosesAll(h)

LEMMA ReadOnlyWellFormed == WellFormed(ReadOnly)
<1> DEFINE h == ReadOnly
<1>1. /\ Len(h) = 3
      /\ h[1] = Input("read") /\ h[2] = Input("loop") /\ h[3] = Input("close_reader")
  BY DEF ReadOnly
<1> HIDE DEF h
<1>2. ASSUME NEW n \in 1 .. 3
      PROVE  Orderly(h, n)
  <2>1. n = 1 \/ n = 2 \/ n = 3
    OBVIOUS
  <2> QED
    BY <1>1, <2>1 DEF Orderly, Before, Checked, Step, Input, Files, HandlerStep, Ops
<1>3. ClosesAll(h)
  BY <1>1 DEF ClosesAll, Before, Step, Input, Files
<1> QED
  BY <1>1, <1>2, <1>3 DEF WellFormed, h

LEMMA OneOutputWellFormed ==
    ASSUME NEW check \in {"refuse", "confirm"}
    PROVE  WellFormed(OneOutput(check))
<1> DEFINE h == OneOutput(check)
<1>1. /\ Len(h) = 6
      /\ h[1] = Step(check, "a") /\ h[2] = Input("read") /\ h[3] = Step("write", "a")
      /\ h[4] = Input("loop") /\ h[5] = Input("close_reader") /\ h[6] = Step("close_writer", "a")
  BY DEF OneOutput
<1> HIDE DEF h
<1>2. ASSUME NEW n \in 1 .. 6
      PROVE  Orderly(h, n)
  <2>1. n = 1 \/ n = 2 \/ n = 3 \/ n = 4 \/ n = 5 \/ n = 6
    OBVIOUS
  <2> QED
    BY <1>1, <2>1 DEF Orderly, Before, Checked, Step, Input, Files, HandlerStep, Ops
<1>3. ClosesAll(h)
  BY <1>1 DEF ClosesAll, Before, Step, Input, Files
<1> QED
  BY <1>1, <1>2, <1>3 DEF WellFormed, h

LEMMA SplitWellFormed == WellFormed(Split)
<1> DEFINE h == Split
<1>1. /\ Len(h) = 9
      /\ h[1] = Step("confirm", "a") /\ h[2] = Step("confirm", "b") /\ h[3] = Input("read")
      /\ h[4] = Step("write", "a") /\ h[5] = Step("write", "b") /\ h[6] = Input("loop")
      /\ h[7] = Input("close_reader") /\ h[8] = Step("close_writer", "a") /\ h[9] = Step("close_writer", "b")
  BY DEF Split
<1> HIDE DEF h
<1>2. ASSUME NEW n \in 1 .. 9
      PROVE  Orderly(h, n)
  <2>1. n = 1 \/ n = 2 \/ n = 3 \/ n = 4 \/ n = 5 \/ n = 6 \/ n = 7 \/ n = 8 \/ n = 9
    OBVIOUS
  <2> QED
    BY <1>1, <2>1 DEF Orderly, Before, Checked, Step, Input, Files, HandlerStep, Ops
<1>3. ClosesAll(h)
  BY <1>1 DEF ClosesAll, Before, Step, Input, Files
<1> QED
  BY <1>1, <1>2, <1>3 DEF WellFormed, h

LEMMA InitialStateWellFormed == WellFormed(InitialState)
<1> DEFINE h == InitialState
<1>1. /\ Len(h) = 6
      /\ h[1] = Step("confirm", "a") /\ h[2] = Input("read") /\ h[3] = Step("create", "a")
      /\ h[4] = Input("loop") /\ h[5] = Step("save", "a") /\ h[6] = Input("close_reader")
  BY DEF InitialState
<1> HIDE DEF h
<1>2. ASSUME NEW n \in 1 .. 6
      PROVE  Orderly(h, n)
  <2>1. n = 1 \/ n = 2 \/ n = 3 \/ n = 4 \/ n = 5 \/ n = 6
    OBVIOUS
  <2> QED
    BY <1>1, <2>1 DEF Orderly, Before, Checked, Step, Input, Files, HandlerStep, Ops
<1>3. ClosesAll(h)
  BY <1>1 DEF ClosesAll, Before, Step, Input, Files
<1> QED
  BY <1>1, <1>2, <1>3 DEF WellFormed, h

LEMMA SimulateWellFormed == WellFormed(Simulate)
<1> DEFINE h == Simulate
<1>1. /\ Len(h) = 6
      /\ h[1] = Step("confirm", "a") /\ h[2] = Step("write", "a") /\ h[3] = Input("read")
      /\ h[4] = Input("loop") /\ h[5] = Step("close_writer", "a") /\ h[6] = Input("close_reader")
  BY DEF Simulate
<1> HIDE DEF h
<1>2. ASSUME NEW n \in 1 .. 6
      PROVE  Orderly(h, n)
  <2>1. n = 1 \/ n = 2 \/ n = 3 \/ n = 4 \/ n = 5 \/ n = 6
    OBVIOUS
  <2> QED
    BY <1>1, <2>1 DEF Orderly, Before, Checked, Step, Input, Files, HandlerStep, Ops
<1>3. ClosesAll(h)
  BY <1>1 DEF ClosesAll, Before, Step, Input, Files
<1> QED
  BY <1>1, <1>2, <1>3 DEF WellFormed, h

LEMMA HandlerWellFormed ==
    ASSUME NEW name \in CommandNames
    PROVE  WellFormed(Handler(name))
<1>1. CASE name \in {"get-info", "simulate-tag-cache", "requests-get-info",
                     "requests-tag-csv"}
  <2>1. Handler(name) = ReadOnly
    BY <1>1 DEF Handler
  <2> QED
    BY <2>1, ReadOnlyWellFormed
<1>2. CASE name = "patch-paddrs"
  <2>1. Handler(name) = OneOutput("refuse")
    BY <1>2 DEF Handler
  <2> QED
    BY <2>1, OneOutputWellFormed
<1>3. CASE name \in {"convert", "convert-generic", "convert-drcachesim-vaddr",
                     "convert-drcachesim-paddr"}
  <2>1. Handler(name) = OneOutput("confirm")
    BY <1>3 DEF Handler
  <2> QED
    BY <2>1, OneOutputWellFormed
<1>4. CASE name = "split"
  <2>1. Handler(name) = Split
    BY <1>4 DEF Handler
  <2> QED
    BY <2>1, SplitWellFormed
<1>5. CASE name = "get-initial-state"
  <2>1. Handler(name) = InitialState
    BY <1>5 DEF Handler
  <2> QED
    BY <2>1, InitialStateWellFormed
<1>6. CASE name = "simulate"
  <2>1. Handler(name) = Simulate
    BY <1>6 DEF Handler
  <2> QED
    BY <2>1, SimulateWellFormed
<1> QED
  BY <1>1, <1>2, <1>3, <1>4, <1>5, <1>6 DEF CommandNames

-----------------------------------------------------------------------------
(* The control of a command *)

TheHandler == Handler(command)
Did(s) == Before(TheHandler, step, s)
Opened(f) == Did(Step("write", f))
Shut(f) == Did(Step("close_writer", f))

ReadersOpen ==
    IF Did(Input("read")) /\ ~ Did(Input("close_reader")) THEN 1 ELSE 0
WriterOpen(f) == IF Opened(f) /\ ~ Shut(f) THEN 1 ELSE 0

ControlTypeOK ==
    /\ runs \in Nat
    /\ command \in CommandNames
    /\ step \in 1 .. Len(TheHandler) + 1
    /\ outcome \in {"none", "running", "quit", "done", "aborted", "killed"}
    /\ num_readers_open \in Int
    /\ num_writers_open \in Int

\* The counts of io.c are those of the steps that were done.
CountsRight ==
    outcome = "running" =>
      /\ num_readers_open = ReadersOpen
      /\ num_writers_open = WriterOpen("a") + WriterOpen("b")

AbortRight ==
    /\ outcome = "aborted" =>
         /\ step <= Len(TheHandler)
         /\ Current.op \in {"read", "write", "loop"}
    /\ outcome = "done" => step = Len(TheHandler) + 1

ControlInv == ControlTypeOK /\ CountsRight /\ AbortRight

LEMMA HandlerFacts ==
    ASSUME ControlTypeOK
    PROVE  /\ Len(TheHandler) \in Nat
           /\ step \in Nat \ {0}
           /\ step <= Len(TheHandler) + 1
           /\ ClosesAll(TheHandler)
           /\ \A n \in 1 .. Len(TheHandler) : Orderly(TheHandler, n)
<1>1. WellFormed(TheHandler)
  BY HandlerWellFormed DEF ControlTypeOK, TheHandler
<1>2. Len(TheHandler) \in Nat
  BY <1>1 DEF WellFormed
<1> QED
  BY <1>1, <1>2 DEF WellFormed, ControlTypeOK

\* A step of a handler, and what was done before it.
LEMMA AtFacts ==
    ASSUME ControlTypeOK, NEW op, At(op)
    PROVE  /\ outcome = "running"
           /\ step \in 1 .. Len(TheHandler)
           /\ Current = TheHandler[step]
           /\ Current.op = op
           /\ Current = Step(op, Current.file)
           /\ Orderly(TheHandler, step)
           /\ op \in Ops
           /\ op \in {"read", "loop", "close_reader"} => Current = Input(op)
           /\ op \notin {"read", "loop", "close_reader"} => Current.file \in Files
<1>1. /\ outcome = "running" /\ step <= Len(TheHandler) /\ Current.op = op
      /\ Current = TheHandler[step]
  BY DEF At, Current, TheHandler
<1>2. step \in 1 .. Len(TheHandler)
  BY <1>1, HandlerFacts
<1>3. Orderly(TheHandler, step)
  BY <1>2, HandlerFacts
<1>4. Current \in HandlerStep
  BY <1>1, <1>3 DEF Orderly
<1>5. Current = Step(op, Current.file) /\ op \in Ops
  BY <1>1, <1>4 DEF HandlerStep, Step
<1>6. /\ op \in {"read", "loop", "close_reader"} => Current.file = "input"
      /\ op \notin {"read", "loop", "close_reader"} => Current.file \in Files
  BY <1>1, <1>3 DEF Orderly
<1> QED
  BY <1>1, <1>2, <1>3, <1>5, <1>6 DEF Step, Input

\* The next step.
LEMMA ContinueFacts ==
    ASSUME ControlTypeOK, NEW op, At(op), Continue
    PROVE  /\ UNCHANGED <<runs, command, outcome>>
           /\ step' = step + 1
           /\ step' \in 1 .. Len(TheHandler') + 1
           /\ TheHandler' = TheHandler
           /\ \A s : Did(s)' <=> Did(s) \/ s = Current
<1>1. UNCHANGED <<runs, command, outcome>> /\ step' = step + 1 /\ TheHandler' = TheHandler
  BY DEF Continue, TheHandler
<1>2. step \in 1 .. Len(TheHandler) /\ Len(TheHandler) \in Nat /\ Current = TheHandler[step]
  BY AtFacts, HandlerFacts
<1>3. 1 .. step' - 1 = (1 .. step - 1) \cup {step}
  BY <1>1, <1>2
<1>4. ASSUME NEW s PROVE Did(s)' <=> Did(s) \/ s = Current
  BY <1>1, <1>2, <1>3, Zenon DEF Did, Before
<1>5. step' \in 1 .. Len(TheHandler') + 1
  BY <1>1, <1>2
<1> QED
  BY <1>1, <1>4, <1>5

LEMMA StayFacts ==
    ASSUME UNCHANGED <<command, step>>
    PROVE  /\ TheHandler' = TheHandler
           /\ Current' = Current
           /\ \A s : Did(s)' <=> Did(s)
BY Zenon DEF TheHandler, Current, Did, Before

\* What was done by the steps before it.
LEMMA StepOrder ==
    ASSUME ControlTypeOK, NEW op, At(op)
    PROVE  /\ op \in {"refuse", "confirm"} =>
                /\ ~ Did(Input("read"))
                /\ \A f \in Files : ~ Opened(f)
           /\ op = "read" => ~ Did(Input("read")) /\ ~ Did(Input("close_reader"))
           /\ op = "close_reader" => Did(Input("read")) /\ ~ Did(Input("close_reader"))
           /\ op = "write" => ~ Opened(Current.file) /\ ~ Shut(Current.file)
                              /\ ~ Did(Input("loop"))
           /\ op = "close_writer" => Opened(Current.file) /\ ~ Shut(Current.file)
                                     /\ Did(Input("loop"))
<1>1. Orderly(TheHandler, step) /\ Current = TheHandler[step] /\ Current.op = op
  BY AtFacts
<1>2. ASSUME op \in {"refuse", "confirm"}, NEW s, s.op \notin {"refuse", "confirm"}
      PROVE  ~ Did(s)
  BY <1>1, <1>2, Zenon DEF Orderly, Did, Before
<1>3. Input("read").op = "read" /\ \A f : Step("write", f).op = "write"
  BY DEF Input, Step
<1>4. op \in {"refuse", "confirm"} =>
        ~ Did(Input("read")) /\ \A f \in Files : ~ Opened(f)
  BY <1>2, <1>3 DEF Opened
<1> QED
  BY <1>1, <1>4 DEF Orderly, Did, Opened, Shut

LEMMA StepNames ==
    /\ \A f, g, op, o : Step(op, f) = Step(o, g) <=> op = o /\ f = g
    /\ \A op : Input(op) = Step(op, "input")
    /\ Files = {"a", "b"} /\ "input" \notin Files
BY DEF Step, Input, Files

\* Whatever fails, the handler is left where it is; what it has opened and
\* written is left as well, but for the output it was about to open.
LEMMA FailFacts ==
    ASSUME Fail
    PROVE  /\ UNCHANGED <<runs, command, step, turn, written, offset, buffered, allowed,
                           lost, received>>
           /\ outcome = "running" /\ outcome' # "running" /\ outcome' # "done"
           /\ UNCHANGED <<files, consumer>> \/ WriterFails
<1>1. CASE OpenFails \/ ReadFails
  <2>1. /\ outcome = "running"
        /\ Quit \/ Killed
        /\ UNCHANGED <<progress, streams, allowed, lost, consumers>>
    BY <1>1 DEF OpenFails, ReadFails, CountReader, CountWriter, At
  <2> QED
    BY <2>1 DEF Quit, Exit, Killed, progress, streams, consumers
<1>2. CASE WriterFails
  BY <1>2 DEF WriterFails, CountWriter, At, Killed, progress
<1>3. CASE AssertionFails
  BY <1>3 DEF AssertionFails, At, Killed, progress, streams, consumers
<1> QED
  BY <1>1, <1>2, <1>3 DEF Fail

-----------------------------------------------------------------------------

LEMMA InitControl == Init => ControlInv
<1> SUFFICES ASSUME Init PROVE ControlInv
  OBVIOUS
<1>1. command \in CommandNames /\ step = 1 /\ outcome = "none" /\ runs = 0
      /\ num_readers_open = 0 /\ num_writers_open = 0
  BY DEF Init, CommandNames
<1>2. Len(TheHandler) \in Nat
  BY <1>1, HandlerWellFormed DEF WellFormed, TheHandler
<1> QED
  BY <1>1, <1>2 DEF ControlInv, ControlTypeOK, CountsRight, AbortRight

LEMMA StartControl ==
    ASSUME NEW name \in Names, ControlInv, Start(name)
    PROVE  ControlInv'
<1>1. /\ command' = name /\ step' = 1 /\ outcome' = "running" /\ runs' = runs + 1
      /\ num_readers_open' = 0 /\ num_writers_open' = 0
  BY DEF Start
<1>2. name \in CommandNames
  BY NamesAssumption
<1>3. Len(TheHandler') \in Nat
  BY <1>1, <1>2, HandlerWellFormed DEF WellFormed, TheHandler
<1>4. \A s : ~ Did(s)'
  BY <1>1 DEF Did, Before
<1> QED
  BY <1>1, <1>2, <1>3, <1>4
     DEF ControlInv, ControlTypeOK, CountsRight, AbortRight, ReadersOpen, WriterOpen, Opened

\* A step that leaves the control and the counts alone.
LEMMA StayControl ==
    ASSUME ControlInv, UNCHANGED <<runs, command, step, counts, outcome>>
    PROVE  ControlInv'
<1>1. TheHandler' = TheHandler /\ Current' = Current /\ \A s : Did(s)' <=> Did(s)
  BY StayFacts
<1>2. ControlTypeOK'
  BY <1>1 DEF ControlInv, ControlTypeOK, counts
<1>3. ReadersOpen' = ReadersOpen /\ \A f : WriterOpen(f)' = WriterOpen(f)
  BY <1>1 DEF ReadersOpen, WriterOpen, Opened, Shut
<1>4. CountsRight' /\ AbortRight'
  BY <1>1, <1>3 DEF ControlInv, CountsRight, AbortRight, counts
<1> QED
  BY <1>2, <1>4 DEF ControlInv

\* After abort nobody looks at the counts.
LEMMA KilledControl ==
    ASSUME ControlInv, Killed, num_readers_open' \in Int, num_writers_open' \in Int
    PROVE  ControlInv'
<1>1. UNCHANGED <<runs, command, step>> /\ outcome' = "killed"
  BY DEF Killed
<1>2. TheHandler' = TheHandler
  BY <1>1, StayFacts
<1> QED
  BY <1>1, <1>2 DEF ControlInv, ControlTypeOK, CountsRight, AbortRight

\* A step of the handler that opens and closes nothing.
LEMMA PlainControl ==
    ASSUME ControlInv, NEW op, At(op), Continue, UNCHANGED counts,
           op \notin {"read", "close_reader", "write", "close_writer"}
    PROVE  ControlInv'
<1>1. /\ UNCHANGED <<runs, command, outcome>>
      /\ step' \in 1 .. Len(TheHandler') + 1
      /\ \A s : Did(s)' <=> Did(s) \/ s = Current
      /\ outcome = "running"
      /\ Current = Step(op, Current.file)
  BY ContinueFacts, AtFacts DEF ControlInv
<1>2. /\ Did(Input("read"))' <=> Did(Input("read"))
      /\ Did(Input("close_reader"))' <=> Did(Input("close_reader"))
      /\ \A f : (Opened(f)' <=> Opened(f)) /\ (Shut(f)' <=> Shut(f))
  BY <1>1, StepNames DEF Opened, Shut
<1>3. ReadersOpen' = ReadersOpen /\ \A f : WriterOpen(f)' = WriterOpen(f)
  BY <1>2 DEF ReadersOpen, WriterOpen
<1> QED
  BY <1>1, <1>3 DEF ControlInv, ControlTypeOK, CountsRight, AbortRight, counts

LEMMA QuitControl ==
    ASSUME ControlInv, NEW op \in {"refuse", "confirm", "read", "write", "loop"}, At(op), Quit,
           num_readers_open' = num_readers_open + (IF op = "read" THEN 1 ELSE 0),
           num_writers_open' = num_writers_open + (IF op = "write" THEN 1 ELSE 0)
    PROVE  ControlInv'
<1>1. /\ UNCHANGED <<runs, command, step>>
      /\ outcome' = IF num_readers_open' = 0 /\ num_writers_open' = 0 THEN "quit"
                    ELSE "aborted"
  BY DEF Quit, Exit
<1>2. /\ step \in 1 .. Len(TheHandler) /\ Current.op = op /\ outcome = "running"
      /\ Len(TheHandler) \in Nat
  BY AtFacts, HandlerFacts DEF ControlInv
<1>3. TheHandler' = TheHandler /\ Current' = Current
  BY <1>1, StayFacts
<1>4. op \in {"refuse", "confirm"} => outcome' = "quit"
  <2>1. SUFFICES ASSUME op \in {"refuse", "confirm"}
                 PROVE  num_readers_open' = 0 /\ num_writers_open' = 0
    BY <1>1
  <2>2. ReadersOpen = 0 /\ WriterOpen("a") = 0 /\ WriterOpen("b") = 0
    BY <2>1, StepOrder, StepNames DEF ControlInv, ReadersOpen, WriterOpen
  <2> QED
    BY <1>2, <2>1, <2>2 DEF ControlInv, CountsRight
<1>5. ControlTypeOK'
  BY <1>1, <1>3 DEF ControlInv, ControlTypeOK
<1>6. CountsRight' /\ AbortRight'
  BY <1>1, <1>2, <1>3, <1>4 DEF CountsRight, AbortRight
<1> QED
  BY <1>5, <1>6 DEF ControlInv

LEMMA ReaderControl ==
    ASSUME ControlInv, OpenReader \/ CloseReader
    PROVE  ControlInv'
<1>2. ASSUME NEW op \in {"read", "close_reader"}, At(op), Continue,
             num_readers_open' = num_readers_open + (IF op = "read" THEN 1 ELSE -1),
             UNCHANGED num_writers_open
      PROVE  ControlInv'
  <2>1. /\ UNCHANGED <<runs, command, outcome>>
        /\ step' \in 1 .. Len(TheHandler') + 1
        /\ \A s : Did(s)' <=> Did(s) \/ s = Input(op)
        /\ outcome = "running"
    BY <1>2, ContinueFacts, AtFacts DEF ControlInv
  <2>2. /\ Did(Input("read"))' <=> Did(Input("read")) \/ op = "read"
        /\ Did(Input("close_reader"))' <=> Did(Input("close_reader")) \/ op = "close_reader"
        /\ \A f : (Opened(f)' <=> Opened(f)) /\ (Shut(f)' <=> Shut(f))
    BY <2>1, StepNames DEF Opened, Shut
  <2>3. /\ op = "read" => ~ Did(Input("read")) /\ ~ Did(Input("close_reader"))
        /\ op = "close_reader" => Did(Input("read")) /\ ~ Did(Input("close_reader"))
    BY <1>2, StepOrder DEF ControlInv
  <2>4. ReadersOpen' = ReadersOpen + (IF op = "read" THEN 1 ELSE -1)
    BY <2>2, <2>3 DEF ReadersOpen
  <2>5. \A f : WriterOpen(f)' = WriterOpen(f)
    BY <2>2 DEF WriterOpen
  <2> QED
    BY <1>2, <2>1, <2>4, <2>5 DEF ControlInv, ControlTypeOK, CountsRight, AbortRight
<1>3. CASE OpenReader
  BY <1>2, <1>3 DEF OpenReader, CountReader
<1>4. CASE CloseReader
  BY <1>2, <1>4 DEF CloseReader, ControlInv, ControlTypeOK
<1> QED
  BY <1>3, <1>4

LEMMA WriterControl ==
    ASSUME ControlInv, OpenWriter \/ CloseWriter
    PROVE  ControlInv'
<1>2. ASSUME NEW op \in {"write", "close_writer"}, At(op), Continue,
             num_writers_open' = num_writers_open + (IF op = "write" THEN 1 ELSE -1),
             UNCHANGED num_readers_open
      PROVE  ControlInv'
  <2>1. /\ UNCHANGED <<runs, command, outcome>>
        /\ step' \in 1 .. Len(TheHandler') + 1
        /\ \A s : Did(s)' <=> Did(s) \/ s = Step(op, Current.file)
        /\ outcome = "running"
        /\ Current.file \in Files
    BY <1>2, ContinueFacts, AtFacts DEF ControlInv
  <2>2. /\ Did(Input("read"))' <=> Did(Input("read"))
        /\ Did(Input("close_reader"))' <=> Did(Input("close_reader"))
        /\ \A f : Opened(f)' <=> Opened(f) \/ (op = "write" /\ f = Current.file)
        /\ \A f : Shut(f)' <=> Shut(f) \/ (op = "close_writer" /\ f = Current.file)
    BY <2>1, StepNames DEF Opened, Shut
  <2>3. /\ op = "write" => ~ Opened(Current.file) /\ ~ Shut(Current.file)
        /\ op = "close_writer" => Opened(Current.file) /\ ~ Shut(Current.file)
    BY <1>2, StepOrder DEF ControlInv
  <2>4. \A f : WriterOpen(f)' = WriterOpen(f) +
                 (IF f # Current.file THEN 0 ELSE IF op = "write" THEN 1 ELSE -1)
    BY <2>2, <2>3 DEF WriterOpen
  <2>5. ReadersOpen' = ReadersOpen
    BY <2>2 DEF ReadersOpen
  <2>6. Current.file = "a" \/ Current.file = "b"
    BY <2>1, StepNames
  <2>7. WriterOpen("a") \in Int /\ WriterOpen("b") \in Int
    BY DEF WriterOpen
  <2>8. WriterOpen("a")' + WriterOpen("b")' =
          WriterOpen("a") + WriterOpen("b") + (IF op = "write" THEN 1 ELSE -1)
    BY <2>4, <2>6, <2>7
  <2> QED
    BY <1>2, <2>1, <2>5, <2>7, <2>8 DEF ControlInv, ControlTypeOK, CountsRight, AbortRight
<1>3. CASE OpenWriter
  BY <1>2, <1>3 DEF OpenWriter, CountWriter, StartsAt0
<1>4. CASE CloseWriter
  BY <1>2, <1>4 DEF CloseWriter, Close, ControlInv, ControlTypeOK
<1> QED
  BY <1>3, <1>4

LEMMA ReturnControl ==
    ASSUME ControlInv, Return
    PROVE  ControlInv'
<1>1. /\ outcome = "running" /\ step = Len(TheHandler) + 1
      /\ UNCHANGED <<counts, runs, command, step>>
      /\ outcome' = IF num_readers_open' = 0 /\ num_writers_open' = 0 THEN "done"
                    ELSE "aborted"
  BY DEF Return, Exit, TheHandler
<1>2. ReadersOpen = 0 /\ WriterOpen("a") = 0 /\ WriterOpen("b") = 0
  BY <1>1, HandlerFacts, StepNames
     DEF ControlInv, ClosesAll, ReadersOpen, WriterOpen, Opened, Shut, Did
<1>3. outcome' = "done"
  BY <1>1, <1>2 DEF ControlInv, CountsRight, counts
<1>4. TheHandler' = TheHandler
  BY <1>1, StayFacts
<1> QED
  BY <1>1, <1>3, <1>4 DEF ControlInv, ControlTypeOK, CountsRight, AbortRight, counts

LEMMA FailControl ==
    ASSUME ControlInv, Fail
    PROVE  ControlInv'
<1>1. num_readers_open \in Int /\ num_writers_open \in Int
  BY DEF ControlInv, ControlTypeOK
<1>2. CASE CountReader /\ Quit
  BY <1>1, <1>2, QuitControl DEF CountReader
<1>3. CASE CountReader /\ Killed
  BY <1>1, <1>3, KilledControl DEF CountReader
<1>4. CASE CountWriter /\ Quit
  BY <1>1, <1>4, QuitControl DEF CountWriter
<1>5. CASE WriterFails
  BY <1>1, <1>5, KilledControl DEF WriterFails, CountWriter
<1>6. CASE ReadFails
  BY <1>1, <1>6, QuitControl DEF ReadFails, counts
<1>7. CASE AssertionFails
  BY <1>1, <1>7, KilledControl DEF AssertionFails, counts
<1> QED
  BY <1>2, <1>3, <1>4, <1>5, <1>6, <1>7 DEF Fail, OpenFails

LEMMA NextControl == ControlInv /\ [Next]_vars => ControlInv'
<1> SUFFICES ASSUME ControlInv, [Next]_vars PROVE ControlInv'
  OBVIOUS
<1>1. ASSUME NEW name \in Names, Start(name) PROVE ControlInv'
  BY <1>1, StartControl
<1>2. CASE Check
  <2>1. PICK op \in {"refuse", "confirm"} : At(op)
    BY <1>2 DEF Check
  <2>2. CASE Continue
    BY <1>2, <2>1, <2>2, PlainControl DEF Check
  <2>3. CASE Quit
    BY <1>2, <2>1, <2>3, QuitControl DEF Check, counts, ControlInv, ControlTypeOK
  <2> QED
    BY <1>2, <2>2, <2>3 DEF Check
<1>3. CASE OpenReader \/ CloseReader
  BY <1>3, ReaderControl
<1>4. CASE OpenWriter \/ CloseWriter
  BY <1>4, WriterControl
<1>5. CASE CreateFile
  BY <1>5, PlainControl DEF CreateFile, StartsAt0
<1>6. CASE EndOfInput
  BY <1>6, PlainControl DEF EndOfInput
<1>7. CASE SaveFile
  BY <1>7, PlainControl DEF SaveFile, Close
<1>8. CASE Return
  BY <1>8, ReturnControl
<1>9. CASE BrokenPipe
  BY <1>9, KilledControl DEF BrokenPipe, counts, ControlInv, ControlTypeOK
<1>10. CASE UNCHANGED <<control, counts>>
  BY <1>10, StayControl DEF control, counts
<1>11. ASSUME NEW f \in Files, Flush(f) PROVE ControlInv'
  BY <1>10, <1>11 DEF Flush
<1>12. CASE NextEntry \/ Emit
  BY <1>10, <1>12 DEF NextEntry, Emit
<1>13. ASSUME NEW f \in pipes, Consumes(f) \/ ConsumerDies(f) PROVE ControlInv'
  BY <1>10, <1>13
     DEF Consumes, ConsumerOpens, ConsumerReads, ConsumerEnds, ConsumerDies
<1>14. CASE UNCHANGED vars
  BY <1>10, <1>14 DEF vars
<1> QED
  BY <1>1, <1>2, <1>3, <1>4, <1>5, <1>6, <1>7, <1>8, <1>9, <1>11, <1>12, <1>13, <1>14,
     FailControl DEF Next, Command

\* Every handler of handlers.c closes what it has opened, and asks before it opens
\* anything: the assertions of check_readers_closed and check_writers_closed (io.c)
\* fail only after an open that failed and had been counted, or in the loop, when
\* gzread fails (gz_at_eof).
THEOREM IoErrorsAbort == Spec => []OnlyIoErrorsAbort
<1>1. ControlInv => OnlyIoErrorsAbort
  BY DEF ControlInv, AbortRight, OnlyIoErrorsAbort, TheHandler
<1> QED
  BY <1>1, InitControl, NextControl, PTL DEF Spec

-----------------------------------------------------------------------------
(* What the user was asked about *)

AllowedRight ==
    \A f \in Files : Checked(TheHandler, step, f) => f \in allowed

TurnRight ==
    /\ turn \subseteq Traces(command)
    /\ turn # {} => step <= Len(TheHandler) /\ Current.op = "loop"

AskInv == ControlInv /\ AllowedRight /\ TurnRight

LEMMA TracesFacts ==
    ASSUME NEW f
    PROVE  /\ f \in Traces(command) <=>
                f \in Files /\ \E n \in 1 .. Len(TheHandler) : TheHandler[n] = Step("write", f)
           /\ Traces(command) \subseteq Files
BY Zenon DEF Traces, Steps, TheHandler

LEMMA CheckedLater ==
    ASSUME ControlTypeOK, step <= Len(TheHandler) + 1, NEW f \in Files,
           Opened(f) \/ Did(Step("create", f))
    PROVE  Checked(TheHandler, step, f)
<1>1. PICK j \in 1 .. step - 1 : TheHandler[j] = Step("write", f)
                                 \/ TheHandler[j] = Step("create", f)
  BY DEF Opened, Did, Before
<1>2. j \in 1 .. Len(TheHandler) /\ 1 .. j - 1 \subseteq 1 .. step - 1
  BY <1>1, HandlerFacts
<1>3. Orderly(TheHandler, j)
  BY <1>2, HandlerFacts
<1>4. TheHandler[j].op \in {"write", "create"} /\ TheHandler[j].file = f
  BY <1>1 DEF Step
<1>5. Checked(TheHandler, j, f)
  BY <1>3, <1>4 DEF Orderly
<1> QED
  BY <1>2, <1>5, Zenon DEF Checked, Before

\* Whatever file an execution is about to write to, it has asked about.
LEMMA AskedFirst ==
    ASSUME AskInv, NEW f \in Files,
           \/ (At("write") \/ At("create") \/ At("save")) /\ f = Current.file
           \/ AtOutput(f)
    PROVE  f \in allowed
<1>1. ControlTypeOK
  BY DEF AskInv, ControlInv
<1>2. SUFFICES Checked(TheHandler, step, f)
  BY DEF AskInv, AllowedRight
<1>3. CASE (At("write") \/ At("create")) /\ f = Current.file
  BY <1>1, <1>3, AtFacts DEF Orderly
<1>4. CASE At("save") /\ f = Current.file
  <2>1. Did(Step("create", f))
    BY <1>1, <1>4, AtFacts DEF Orderly, Did
  <2> QED
    BY <1>1, <2>1, CheckedLater, HandlerFacts
<1>5. CASE AtOutput(f)
  <2>1. Opened(f)
    <3>1. CASE At("close_writer") /\ f = Current.file
      BY <1>1, <3>1, StepOrder
    <3>2. CASE At("loop") /\ turn # {} /\ f = NextOutput
      <4>1. f \in Traces(command)
        BY <3>2, TracesFacts DEF AskInv, TurnRight, NextOutput, Files
      <4>2. Orderly(TheHandler, step) /\ TheHandler[step].op = "loop"
        BY <1>1, <3>2, AtFacts
      <4> QED
        BY <4>1, <4>2, TracesFacts DEF Orderly, Opened, Did
    <3> QED
      BY <1>5, <3>1, <3>2 DEF AtOutput
  <2> QED
    BY <1>1, <2>1, CheckedLater, HandlerFacts
<1> QED
  BY <1>3, <1>4, <1>5

LEMMA InitAsk == Init => AskInv
<1> SUFFICES ASSUME Init PROVE AskInv
  OBVIOUS
<1>1. step = 1 /\ turn = {}
  BY DEF Init
<1> QED
  BY <1>1, InitControl DEF AskInv, AllowedRight, TurnRight, Checked, Before

\* The control stays where it is, and so does what was asked.
LEMMA StayAsk ==
    ASSUME AskInv, ControlInv', UNCHANGED <<command, step, allowed>>, turn' \subseteq turn
    PROVE  AskInv'
<1>1. TheHandler' = TheHandler /\ Current' = Current
  BY StayFacts
<1>2. Traces(command)' = Traces(command)
  BY DEF Traces, Steps
<1> QED
  BY <1>1, <1>2 DEF AskInv, AllowedRight, TurnRight, Checked, Before

\* The next step of the handler.
LEMMA ContinueAsk ==
    ASSUME AskInv, ControlInv', NEW op, At(op), Continue, UNCHANGED turn,
           turn = {} \/ op # "loop",
           allowed' = IF op \in {"refuse", "confirm"} THEN allowed \cup {Current.file}
                      ELSE allowed
    PROVE  AskInv'
<1>1. ControlTypeOK
  BY DEF AskInv, ControlInv
<1>2. /\ TheHandler' = TheHandler /\ command' = command
      /\ \A s : Did(s)' <=> Did(s) \/ s = Current
      /\ Current = Step(op, Current.file)
  BY <1>1, ContinueFacts, AtFacts
<1>3. turn = {}
  BY <1>1, AtFacts DEF AskInv, TurnRight
<1>4. AllowedRight'
  <2>1. SUFFICES ASSUME NEW f \in Files, Checked(TheHandler, step, f)'
                 PROVE  f \in allowed'
    BY DEF AllowedRight
  <2>2. Did(Step("refuse", f))' \/ Did(Step("confirm", f))'
    BY <2>1 DEF Checked, Did
  <2>3. CASE Did(Step("refuse", f)) \/ Did(Step("confirm", f))
    <3>1. f \in allowed
      BY <2>3 DEF AskInv, AllowedRight, Checked, Did
    <3> QED
      BY <3>1
  <2>4. CASE Step("refuse", f) = Current \/ Step("confirm", f) = Current
    <3>1. op \in {"refuse", "confirm"} /\ f = Current.file
      BY <1>2, <2>4, StepNames
    <3> QED
      BY <3>1
  <2> QED
    BY <1>2, <2>2, <2>3, <2>4
<1>5. TurnRight'
  BY <1>3 DEF TurnRight
<1> QED
  BY <1>4, <1>5 DEF AskInv

LEMMA NextAsk == AskInv /\ [Next]_vars => AskInv'
<1> SUFFICES ASSUME AskInv, [Next]_vars PROVE AskInv'
  OBVIOUS
<1>1. ControlInv /\ ControlInv'
  BY NextControl DEF AskInv
<1>2. ASSUME NEW name \in Names, Start(name) PROVE AskInv'
  BY <1>1, <1>2 DEF Start, AskInv, AllowedRight, TurnRight, Checked, Before
<1>3. CASE Check
  <2>1. PICK op \in {"refuse", "confirm"} : At(op)
    BY <1>3 DEF Check
  <2>2. CASE Continue /\ allowed' = allowed \cup {Current.file}
    BY <1>1, <1>3, <2>1, <2>2, ContinueAsk DEF Check, progress
  <2>3. CASE Quit /\ UNCHANGED allowed
    BY <1>1, <1>3, <2>1, <2>3, StayAsk DEF Check, Quit, Exit, progress
  <2> QED
    BY <1>3, <2>2, <2>3 DEF Check
<1>4. ASSUME NEW op \in {"read", "close_reader", "write", "close_writer", "create", "save"},
             At(op), Continue, UNCHANGED <<turn, allowed>>
      PROVE  AskInv'
  BY <1>1, <1>4, ContinueAsk
<1>5. CASE OpenReader \/ CloseReader \/ OpenWriter \/ CloseWriter \/ CreateFile \/ SaveFile
  BY <1>4, <1>5 DEF OpenReader, CloseReader, OpenWriter, CloseWriter, CreateFile, SaveFile,
        CountReader, CountWriter, StartsAt0, Close, progress
<1>6. CASE EndOfInput
  BY <1>1, <1>6, ContinueAsk DEF EndOfInput, progress
<1>7. CASE NextEntry
  <2>1. UNCHANGED <<command, step, allowed>> /\ turn' = Open /\ At("loop")
    BY <1>7 DEF NextEntry, control
  <2>2. TheHandler' = TheHandler /\ Current' = Current /\ Traces(command)' = Traces(command)
    BY <2>1, StayFacts DEF Traces, Steps
  <2>3. Open \subseteq Traces(command)
    BY DEF Open
  <2>4. step <= Len(TheHandler) /\ Current.op = "loop"
    BY <2>1 DEF At, TheHandler
  <2> QED
    BY <1>1, <2>1, <2>2, <2>3, <2>4 DEF AskInv, AllowedRight, TurnRight, Checked, Before
<1>8. CASE Emit
  BY <1>1, <1>8, StayAsk DEF Emit, control
<1>9. ASSUME NEW f \in Files, Flush(f) PROVE AskInv'
  BY <1>1, <1>9, StayAsk DEF Flush, control, progress
<1>10. CASE Return \/ Fail \/ BrokenPipe
  <2>1. UNCHANGED <<command, step, allowed, turn>>
    BY <1>10, FailFacts DEF Return, BrokenPipe, Exit, Killed, progress
  <2> QED
    BY <1>1, <2>1, StayAsk
<1>11. ASSUME NEW f \in pipes, Consumes(f) \/ ConsumerDies(f) PROVE AskInv'
  <2>1. UNCHANGED <<command, step, allowed, turn>>
    BY <1>11 DEF Consumes, ConsumerOpens, ConsumerReads, ConsumerEnds, ConsumerDies,
          control, progress
  <2> QED
    BY <1>1, <2>1, StayAsk
<1>12. CASE UNCHANGED vars
  BY <1>1, <1>12, StayAsk DEF vars, control, progress
<1> QED
  BY <1>2, <1>3, <1>5, <1>6, <1>7, <1>8, <1>9, <1>10, <1>11, <1>12 DEF Next, Command

\* The outputs a step writes to.
LEMMA WrittenAreAllowed ==
    ASSUME AskInv, [Next]_vars, NEW f \in Files \ pipes, files'[f] # files[f],
           DOMAIN files = Files
    PROVE  f \in allowed
<1>1. ASSUME NEW g \in Files, f = g,
             \/ (At("write") \/ At("create") \/ At("save")) /\ g = Current.file
             \/ AtOutput(g)
      PROVE  f \in allowed
  BY <1>1, AskedFirst
<1>2. CASE OpenWriter \/ WriterFails
  <2>1. At("write")
        /\ files' = [files EXCEPT ![Current.file] = IF @ = Absent THEN <<>> ELSE @]
    BY <1>2 DEF OpenWriter, WriterFails, CountWriter, OpensKeeping
  <2> QED
    BY <1>1, <2>1
<1>3. CASE CreateFile
  BY <1>1, <1>3 DEF CreateFile
<1>4. ASSUME NEW g, g \in Files, NEW x, files' = With(g, x)
      PROVE  f = g
  BY <1>4 DEF With
<1>5. ASSUME NEW g \in Files, Flush(g) PROVE f \in allowed
  BY <1>1, <1>4, <1>5 DEF Flush
<1>6. CASE CloseWriter \/ SaveFile
  <2>1. /\ At("save") \/ At("close_writer")
        /\ \/ UNCHANGED files
           \/ \E x : files' = With(Current.file, x)
    BY <1>6 DEF CloseWriter, SaveFile, Close
  <2>2. Current.file \in Files
    BY <2>1, AtFacts DEF AskInv, ControlInv
  <2>3. f = Current.file
    BY <1>4, <2>1, <2>2
  <2> QED
    BY <1>1, <2>1, <2>2, <2>3 DEF AtOutput
<1>7. ASSUME NEW g \in pipes, Consumes(g) \/ ConsumerDies(g) PROVE FALSE
  BY <1>7 DEF Consumes, ConsumerOpens, ConsumerReads, ConsumerEnds, ConsumerDies, streams
<1>8. CASE UNCHANGED files
  BY <1>8
<1>9. ASSUME NEW name \in Names, Start(name) PROVE FALSE
  BY <1>9 DEF Start
<1>10. CASE Check \/ OpenReader \/ NextEntry \/ Emit \/ EndOfInput \/ CloseReader
            \/ BrokenPipe \/ Return
  BY <1>8, <1>10 DEF Check, OpenReader, NextEntry, Emit, EndOfInput, CloseReader,
        BrokenPipe, Return, streams
<1>11. CASE UNCHANGED vars
  BY <1>8, <1>11 DEF vars, streams
<1>12. CASE Fail
  BY <1>2, <1>8, <1>12, FailFacts
<1> QED
  BY <1>2, <1>3, <1>5, <1>6, <1>7, <1>9, <1>10, <1>11, <1>12 DEF Next, Command

-----------------------------------------------------------------------------
(* Types of the files and of the programs that read the FIFOs *)

ConsumerStates == {"idle", "opening", "reading", "ended", "gone"}

DataTypeOK ==
    /\ pipes \in SUBSET Files
    /\ follower \in {"", "b"}
    /\ files \in [Files -> Seq(Int)]
    /\ \A f \in pipes : files[f] \in Seq(Nat)
    /\ offset \in [Files -> Nat \cup {Closed}]
    /\ buffered \in [Files -> Seq(Nat)]
    /\ received \in [Files -> Seq(Nat)]
    /\ consumer \in [Files -> ConsumerStates]
    /\ written \in Nat

LEMMA ExceptInSeq ==
    ASSUME NEW S, NEW s \in Seq(S), NEW k, NEW x \in S
    PROVE  /\ [s EXCEPT ![k] = x] \in Seq(S)
           /\ Len([s EXCEPT ![k] = x]) = Len(s)
<1>1. CASE k \in 1 .. Len(s)
  BY <1>1, ExceptSeq
<1>2. CASE k \notin 1 .. Len(s)
  <2>1. [s EXCEPT ![k] = x] = s
    BY <1>2
  <2> QED
    BY <2>1
<1> QED
  BY <1>1, <1>2

LEMMA SeqFacts ==
    ASSUME NEW S, NEW s \in Seq(S)
    PROVE  /\ \A x \in S : Append(s, x) \in Seq(S) /\ Len(Append(s, x)) = Len(s) + 1
           /\ s # <<>> => /\ Head(s) \in S
                          /\ Tail(s) \in Seq(S)
                          /\ Len(Tail(s)) = Len(s) - 1
                          /\ Len(s) \in Nat \ {0}
           /\ Len(s) \in Nat
           /\ s = <<>> <=> Len(s) = 0
OBVIOUS

LEMMA HeadOfOne == \A x : Head(<<x>>) = x
OBVIOUS

LEMMA NextOffset == \A n \in Nat \cup {Closed} : n + 1 \in Nat
BY DEF Closed

LEMMA NumberSeqs ==
    /\ \A s \in Seq(Nat) :
         /\ \A x \in Nat : Append(s, x) \in Seq(Nat)
         /\ s # <<>> => Head(s) \in Nat /\ Tail(s) \in Seq(Nat)
         /\ s \in Seq(Int)
    /\ \A s \in Seq(Int) :
         /\ \A x \in Int : Append(s, x) \in Seq(Int)
         /\ \A k, x : x \in Int => [s EXCEPT ![k] = x] \in Seq(Int)
    /\ <<>> \in Seq(Int) /\ <<>> \in Seq(Nat)
<1>1. \A s \in Seq(Nat) : s \in Seq(Int)
  OBVIOUS
<1>2. <<>> \in Seq(Int) /\ <<>> \in Seq(Nat)
  OBVIOUS
<1> QED
  BY <1>1, <1>2, SeqFacts, ExceptInSeq, Zenon

LEMMA WithType ==
    ASSUME DataTypeOK, NEW f \in Files, NEW x \in Nat
    PROVE  /\ With(f, x) \in [Files -> Seq(Int)]
           /\ \A g \in pipes : With(f, x)[g] \in Seq(Nat)
<1>0. x \in Int
  OBVIOUS
<1>1. files[f] \in Seq(Int) /\ (f \in pipes => files[f] \in Seq(Nat))
  BY DEF DataTypeOK
<1>2. Append(files[f], x) \in Seq(Int) /\ [files[f] EXCEPT ![offset[f] + 1] = x] \in Seq(Int)
  BY <1>0, <1>1, NumberSeqs
<1>3. f \in pipes => Append(files[f], x) \in Seq(Nat)
  BY <1>1, NumberSeqs
<1> DEFINE s == IF f \in pipes \/ offset[f] = Len(files[f]) THEN Append(files[f], x)
                ELSE [files[f] EXCEPT ![offset[f] + 1] = x]
<1>4. s \in Seq(Int) /\ (f \in pipes => s \in Seq(Nat))
  BY <1>2, <1>3
<1>5. With(f, x) = [files EXCEPT ![f] = s]
  BY DEF With
<1> HIDE DEF s
<1> QED
  BY <1>4, <1>5 DEF DataTypeOK

LEMMA InitData == Init => DataTypeOK
<1> SUFFICES ASSUME Init PROVE DataTypeOK
  OBVIOUS
<1>1. Absent \in Seq(Int)
  BY DEF Absent
<1>2. files \in [Files -> Seq(Int)] /\ \A f \in pipes : files[f] \in Seq(Nat)
  BY <1>1, NumberSeqs DEF Init
<1>3. /\ buffered \in [Files -> Seq(Nat)]
      /\ received \in [Files -> Seq(Nat)]
      /\ consumer \in [Files -> ConsumerStates]
      /\ offset \in [Files -> Nat \cup {Closed}]
  BY NumberSeqs DEF Init, ConsumerStates
<1> QED
  BY <1>2, <1>3 DEF Init, DataTypeOK

LEMMA NextData == ControlInv /\ DataTypeOK /\ [Next]_vars => DataTypeOK'
<1> SUFFICES ASSUME ControlInv, DataTypeOK, [Next]_vars PROVE DataTypeOK'
  OBVIOUS
<1> USE DEF DataTypeOK
<1>1. UNCHANGED <<pipes, follower>>
  BY DEF Next, vars
<1>2. \A op : At(op) /\ op \notin {"read", "loop", "close_reader"} => Current.file \in Files
  BY AtFacts DEF ControlInv
<1>3. runs \in Nat
  BY DEF ControlInv, ControlTypeOK
<1>4. CASE UNCHANGED <<files, offset, buffered, received, consumer>> /\ written' \in Nat
  BY <1>1, <1>4
<1>5. ASSUME NEW name \in Names, Start(name) PROVE DataTypeOK'
  BY <1>1, <1>5, NumberSeqs DEF Start, ConsumerStates
<1>6. ASSUME NEW f \in Files, Opens(f), files'[f] \in {<<>>, files[f]},
             files' = [files EXCEPT ![f] = files'[f]],
             offset' \in {offset, [offset EXCEPT ![f] = 0]},
             UNCHANGED <<buffered, written, received>>
      PROVE  DataTypeOK'
  <2>0. [offset EXCEPT ![f] = 0] \in [Files -> Nat \cup {Closed}]
    OBVIOUS
  <2>1. offset' \in [Files -> Nat \cup {Closed}]
    BY <1>6, <2>0
  <2>2. consumer' \in [Files -> ConsumerStates]
    BY <1>6 DEF Opens, ConsumerStates
  <2>3. files' \in [Files -> Seq(Int)] /\ \A g \in pipes : files'[g] \in Seq(Nat)
    BY <1>6, NumberSeqs
  <2> QED
    BY <1>1, <1>6, <2>1, <2>2, <2>3
<1>7. CASE OpenWriter \/ WriterFails
  <2>1. Current.file \in Files
    BY <1>2, <1>7 DEF OpenWriter, WriterFails, CountWriter
  <2>2. /\ Opens(Current.file)
        /\ files' = [files EXCEPT ![Current.file] = IF @ = Absent THEN <<>> ELSE @]
        /\ offset' \in {offset, [offset EXCEPT ![Current.file] = 0]}
        /\ UNCHANGED <<buffered, written, received>>
    BY <1>7 DEF OpenWriter, WriterFails, OpensKeeping, StartsAt0, progress
  <2> QED
    BY <1>6, <2>1, <2>2
<1>8. CASE CreateFile
  <2>1. Current.file \in Files
    BY <1>2, <1>8 DEF CreateFile
  <2> QED
    BY <1>6, <1>8, <2>1 DEF CreateFile, StartsAt0, progress
<1>9. CASE Emit
  <2> DEFINE f == NextOutput
  <2>1. f \in Files /\ buffered' = [buffered EXCEPT ![f] = Append(buffered[f], runs)]
        /\ UNCHANGED <<written, files, offset, received, consumer>>
    BY <1>9 DEF Emit, NextOutput, Files, consumers
  <2>2. Append(buffered[f], runs) \in Seq(Nat)
    BY <1>3, <2>1, NumberSeqs
  <2> HIDE DEF f
  <2>3. buffered' \in [Files -> Seq(Nat)]
    BY <2>1, <2>2
  <2> QED
    BY <1>1, <2>1, <2>3
<1>10. ASSUME NEW f \in Files, Flush(f) PROVE DataTypeOK'
  <2>1. buffered[f] \in Seq(Nat) /\ buffered[f] # <<>>
    BY <1>10 DEF Flush, HoldsBack
  <2>2. Head(buffered[f]) \in Nat /\ Tail(buffered[f]) \in Seq(Nat)
    BY <2>1, NumberSeqs
  <2>3. files' \in [Files -> Seq(Int)] /\ \A g \in pipes : files'[g] \in Seq(Nat)
    BY <1>10, <2>2, WithType DEF Flush
  <2>4. offset[f] + 1 \in Nat
    BY NextOffset
  <2>6. offset' \in [Files -> Nat \cup {Closed}]
    BY <1>10, <2>4 DEF Flush
  <2>5. buffered' \in [Files -> Seq(Nat)]
    BY <1>10, <2>2 DEF Flush
  <2> QED
    BY <1>1, <1>10, <2>3, <2>5, <2>6 DEF Flush, progress, consumers
<1>11. ASSUME NEW f \in Files, NEW last, last = <<>> \/ Head(last) \in Nat, Close(f, last)
       PROVE  DataTypeOK'
  <2>1. files' = files \/ (files' = With(f, Head(last)) /\ Head(last) \in Nat)
    BY <1>11 DEF Close
  <2>2. files' \in [Files -> Seq(Int)] /\ \A g \in pipes : files'[g] \in Seq(Nat)
    BY <1>1, <2>1, WithType
  <2>3. offset' \in [Files -> Nat \cup {Closed}] /\ buffered' \in [Files -> Seq(Nat)]
    BY <1>11, NumberSeqs DEF Close
  <2> QED
    BY <1>1, <1>11, <2>2, <2>3 DEF Close, progress, consumers
<1>12. CASE CloseWriter
  <2>1. Current.file \in Files
    BY <1>2, <1>12 DEF CloseWriter
  <2>2. Head(<<EndMark>>) = EndMark /\ EndMark \in Nat
    BY HeadOfOne DEF EndMark
  <2>3. LastWrite(Current.file) = <<>> \/ Head(LastWrite(Current.file)) \in Nat
    BY <2>2 DEF LastWrite
  <2> QED
    BY <1>11, <1>12, <2>1, <2>3 DEF CloseWriter
<1>13. CASE SaveFile
  <2>0. Head(<<runs>>) = runs
    BY HeadOfOne
  <2>1. Current.file \in Files /\ Head(<<runs>>) \in Nat
    BY <1>2, <1>3, <1>13, <2>0 DEF SaveFile
  <2> QED
    BY <1>11, <1>13, <2>1 DEF SaveFile
<1>14. ASSUME NEW f \in pipes, Consumes(f) \/ ConsumerDies(f) PROVE DataTypeOK'
  <2>1. f \in Files
    OBVIOUS
  <2>2. CASE ConsumerReads(f)
    <3>1. files[f] \in Seq(Nat) /\ received[f] \in Seq(Nat) /\ files[f] # <<>>
      BY <2>1, <2>2 DEF ConsumerReads
    <3>2. Tail(files[f]) \in Seq(Nat) /\ Append(received[f], Head(files[f])) \in Seq(Nat)
      BY <3>1, NumberSeqs
    <3>3. Tail(files[f]) \in Seq(Int)
      BY <2>1, <3>1, NumberSeqs
    <3> QED
      BY <1>1, <2>1, <2>2, <3>2, <3>3 DEF ConsumerReads, progress
  <2>3. CASE ConsumerDies(f)
    BY <1>1, <2>1, <2>3, NumberSeqs DEF ConsumerDies, progress, ConsumerStates
  <2>4. CASE ConsumerOpens(f) \/ ConsumerEnds(f)
    BY <1>1, <2>1, <2>4 DEF ConsumerOpens, ConsumerEnds, progress, streams, ConsumerStates
  <2> QED
    BY <1>14, <2>2, <2>3, <2>4 DEF Consumes
<1>15. CASE NextEntry
  <2>1. UNCHANGED <<files, offset, buffered, received, consumer>>
    BY <1>15 DEF NextEntry, streams, consumers
  <2>2. written' = written + 1
    BY <1>15 DEF NextEntry
  <2>0. written \in Nat
    OBVIOUS
  <2>3. written' \in Nat
    BY <2>0, <2>2, NextOffset, Zenon
  <2> QED
    BY <1>4, <2>1, <2>3
<1>16. CASE Check \/ OpenReader \/ EndOfInput \/ CloseReader \/ BrokenPipe \/ Return
  BY <1>4, <1>16 DEF Check, OpenReader, EndOfInput, CloseReader, BrokenPipe, Return,
        progress, streams, consumers
<1>17. CASE UNCHANGED vars
  BY <1>4, <1>17 DEF vars, progress, streams, consumers
<1>18. CASE Fail
  BY <1>4, <1>7, <1>18, FailFacts
<1> QED
  BY <1>5, <1>7, <1>8, <1>9, <1>10, <1>12, <1>13, <1>14, <1>15, <1>16, <1>17, <1>18
     DEF Next, Command

\* No output of any command changes that confirm_overwrite_file (utils.c) has not
\* asked the user about in the same execution.
THEOREM OnlyAllowedFilesChange == Spec => OnlyAllowedChange
<1> DEFINE Kept == \A f \in Files \ pipes : files'[f] # files[f] => f \in allowed
           Inv == AskInv /\ DataTypeOK
<1>1. Init => Inv
  BY InitAsk, InitData
<1>2. Inv /\ [Next]_vars => Inv'
  BY NextAsk, NextData DEF AskInv
<1>3. Inv /\ [Next]_vars => [Kept]_vars
  BY WrittenAreAllowed DEF DataTypeOK
<1> QED
  BY <1>1, <1>2, <1>3, PTL DEF Spec, OnlyAllowedChange

-----------------------------------------------------------------------------
(* Sequences that hold one value *)

Repeated(n, r) == [i \in 1 .. n |-> r]

LEMMA RepeatedFacts ==
    ASSUME NEW r, NEW n \in Nat
    PROVE  /\ Repeated(n, r) \in Seq({r})
           /\ Len(Repeated(n, r)) = n
           /\ \A i \in 1 .. n : Repeated(n, r)[i] = r
BY DEF Repeated

LEMMA AllSame ==
    ASSUME NEW r, NEW s \in Seq({r})
    PROVE  s = Repeated(Len(s), r)
<1>1. Len(s) \in Nat /\ s \in [1 .. Len(s) -> {r}]
  BY LenProperties
<1> QED
  BY <1>1 DEF Repeated

LEMMA RepeatedIsNumbers ==
    ASSUME NEW r \in Nat, NEW s \in Seq({r})
    PROVE  s \in Seq(Nat)
OBVIOUS

LEMMA AppendSame ==
    ASSUME NEW r, NEW s \in Seq({r})
    PROVE  Append(s, r) \in Seq({r}) /\ Len(Append(s, r)) = Len(s) + 1
OBVIOUS

LEMMA TakeSame ==
    ASSUME NEW r, NEW s \in Seq({r}), s # <<>>
    PROVE  Head(s) = r /\ Tail(s) \in Seq({r}) /\ Len(Tail(s)) = Len(s) - 1
OBVIOUS

LEMMA SameTogether ==
    ASSUME NEW r, NEW s \in Seq({r}), NEW t \in Seq({r})
    PROVE  s \o t = Repeated(Len(s) + Len(t), r)
<1>1. s \o t \in Seq({r}) /\ Len(s \o t) = Len(s) + Len(t)
  BY ConcatProperties
<1> QED
  BY <1>1, AllSame

LEMMA NumbersAssociative == \A s, t, u \in Seq(Nat) : (s \o t) \o u = s \o (t \o u)
<1> SUFFICES ASSUME NEW s \in Seq(Nat), NEW t \in Seq(Nat), NEW u \in Seq(Nat)
             PROVE  (s \o t) \o u = s \o (t \o u)
  OBVIOUS
<1> DEFINE n == Len(s) + Len(t) + Len(u)
           x == (s \o t) \o u
           y == s \o (t \o u)
<1>1. /\ s \o t \in Seq(Nat) /\ Len(s \o t) = Len(s) + Len(t)
      /\ \A i \in 1 .. Len(s) + Len(t) :
           (s \o t)[i] = IF i <= Len(s) THEN s[i] ELSE t[i - Len(s)]
  BY ConcatProperties
<1>2. /\ t \o u \in Seq(Nat) /\ Len(t \o u) = Len(t) + Len(u)
      /\ \A i \in 1 .. Len(t) + Len(u) :
           (t \o u)[i] = IF i <= Len(t) THEN t[i] ELSE u[i - Len(t)]
  BY ConcatProperties
<1>3. /\ x \in Seq(Nat) /\ Len(x) = (Len(s) + Len(t)) + Len(u)
      /\ \A i \in 1 .. (Len(s) + Len(t)) + Len(u) :
           x[i] = IF i <= Len(s) + Len(t) THEN (s \o t)[i] ELSE u[i - (Len(s) + Len(t))]
  BY <1>1, ConcatProperties
<1>4. /\ y \in Seq(Nat) /\ Len(y) = Len(s) + (Len(t) + Len(u))
      /\ \A i \in 1 .. Len(s) + (Len(t) + Len(u)) :
           y[i] = IF i <= Len(s) THEN s[i] ELSE (t \o u)[i - Len(s)]
  BY <1>2, ConcatProperties
<1>5. Len(s) \in Nat /\ Len(t) \in Nat /\ Len(u) \in Nat
  BY LenProperties
<1> HIDE DEF x, y
<1>6. Len(x) = n /\ Len(y) = n
  BY <1>3, <1>4, <1>5
<1>7. ASSUME NEW i \in 1 .. n PROVE x[i] = y[i]
  <2>1. n = Len(s) + (Len(t) + Len(u))
    BY <1>5
  <2>2. x[i] = IF i <= Len(s) + Len(t) THEN (s \o t)[i] ELSE u[i - (Len(s) + Len(t))]
    BY <1>3, Zenon
  <2>3. y[i] = IF i <= Len(s) THEN s[i] ELSE (t \o u)[i - Len(s)]
    BY <1>4, <2>1, Zenon
  <2>4. CASE i <= Len(s)
    BY <1>1, <1>5, <2>2, <2>3, <2>4
  <2>5. CASE i > Len(s) /\ i <= Len(s) + Len(t)
    <3>1. i - Len(s) \in 1 .. Len(t) + Len(u) /\ i - Len(s) <= Len(t)
      BY <1>5, <2>5
    <3> QED
      BY <1>1, <1>2, <1>5, <2>2, <2>3, <2>5, <3>1
  <2>6. CASE i > Len(s) + Len(t)
    <3>1. /\ i - Len(s) \in 1 .. Len(t) + Len(u) /\ ~ (i - Len(s) <= Len(t))
          /\ (i - Len(s)) - Len(t) = i - (Len(s) + Len(t))
      BY <1>5, <2>6
    <3> QED
      BY <1>2, <1>5, <2>2, <2>3, <2>6, <3>1
  <2> QED
    BY <1>5, <2>4, <2>5, <2>6
<1>8. x = y
  BY <1>3, <1>4, <1>6, <1>7, SeqEqual
<1> QED
  BY <1>8 DEF x, y

\* A reader takes the next of what waits for it.
LEMMA ReadKeepsStream ==
    ASSUME NEW s \in Seq(Nat), NEW t \in Seq(Nat), t # <<>>
    PROVE  Append(s, Head(t)) \o Tail(t) = s \o t
<1>1. Head(t) \in Nat /\ Tail(t) \in Seq(Nat)
  BY HeadTailProperties
<1>2. t = <<Head(t)>> \o Tail(t)
  BY <1>1, SMT
<1>3. Append(s, Head(t)) = s \o <<Head(t)>> /\ <<Head(t)>> \in Seq(Nat)
  BY <1>1, AppendIsConcat
<1>4. s \o (<<Head(t)>> \o Tail(t)) = (s \o <<Head(t)>>) \o Tail(t)
  BY <1>1, <1>3, NumbersAssociative, Zenon
<1> QED
  BY <1>2, <1>3, <1>4, Zenon

\* A writer appends to what waits.
LEMMA WriteKeepsStream ==
    ASSUME NEW s \in Seq(Nat), NEW t \in Seq(Nat), NEW x \in Nat
    PROVE  s \o Append(t, x) = (s \o t) \o <<x>>
<1>1. Append(t, x) = t \o <<x>> /\ <<x>> \in Seq(Nat)
  BY AppendIsConcat
<1> QED
  BY <1>1, ConcatAssociative

LEMMA SameStart ==
    ASSUME NEW s \in Seq(Int), NEW t \in Seq(Int), Len(s) <= Len(t),
           \A i \in 1 .. Len(s) : s[i] = t[i]
    PROVE  IsPrefix(s, t)
<1>1. Len(s) \in Nat /\ Len(t) \in Nat
  BY LenProperties
<1>2. \A i \in 1 .. Len(s) : s[i] \in Int /\ t[i] \in Int
  BY <1>1, ElementOfSeq
<1> DEFINE u == SubSeq(s, 1, Len(s))
           v == SubSeq(t, 1, Len(s))
<1>3. /\ u \in Seq(Int) /\ Len(u) = Len(s)
      /\ \A i \in 1 .. Len(s) : u[i] = s[i]
  BY <1>1, <1>2, SubSeqProperties
<1>4. /\ v \in Seq(Int) /\ Len(v) = Len(s)
      /\ \A i \in 1 .. Len(s) : v[i] = t[i]
  BY <1>1, <1>2, SubSeqProperties
<1>5. u = v
  BY <1>3, <1>4, SeqEqual
<1> QED
  BY <1>5 DEF IsPrefix

\* The trace of an execution.
LEMMA WholeFacts ==
    ASSUME NEW f, written \in Nat, runs \in Nat \ {0}
    PROVE  /\ Whole(f) \in Seq(Nat) /\ Whole(f) \in Seq(Int)
           /\ Len(Whole(f)) = written + (IF f \in Lz4Files THEN 1 ELSE 0)
           /\ \A i \in 1 .. written : Whole(f)[i] = runs
           /\ f \in Lz4Files => /\ Whole(f) = Repeated(written, runs) \o <<EndMark>>
                                /\ Whole(f)[written + 1] = EndMark
           /\ f \notin Lz4Files => Whole(f) = Repeated(written, runs)
<1> DEFINE r == Repeated(written, runs)
<1>1. /\ r \in Seq({runs}) /\ r \in Seq(Nat) /\ Len(r) = written
      /\ \A i \in 1 .. written : r[i] = runs
  BY RepeatedFacts, RepeatedIsNumbers
<1>2. Whole(f) = r \o LastWrite(f)
  BY DEF Whole, Repeated
<1> HIDE DEF r
<1>3. CASE f \notin Lz4Files
  <2>1. Whole(f) = r
    BY <1>1, <1>2, <1>3, ConcatEmptySeq DEF LastWrite
  <2> QED
    BY <1>1, <1>3, <2>1, NumberSeqs DEF r
<1>4. CASE f \in Lz4Files
  <2>1. Whole(f) = r \o <<EndMark>>
    BY <1>2, <1>4 DEF LastWrite
  <2>2. <<EndMark>> \in Seq(Nat) /\ Len(<<EndMark>>) = 1 /\ <<EndMark>>[1] = EndMark
    BY DEF EndMark
  <2>3. /\ Whole(f) \in Seq(Nat) /\ Len(Whole(f)) = written + 1
        /\ \A i \in 1 .. written + 1 : Whole(f)[i] = IF i <= written THEN r[i]
                                                     ELSE <<EndMark>>[i - written]
    BY <1>1, <2>1, <2>2, ConcatProperties
  <2>4. Whole(f) \in Seq(Int)
    BY <2>3, NumberSeqs
  <2>5. \A i \in 1 .. written : Whole(f)[i] = runs
    BY <1>1, <2>3
  <2>6. Whole(f)[written + 1] = EndMark
    BY <2>2, <2>3
  <2> QED
    BY <1>4, <2>1, <2>3, <2>4, <2>5, <2>6 DEF r
<1> QED
  BY <1>3, <1>4

\* The end mark is nowhere but at its end.
LEMMA EndIsLast ==
    ASSUME NEW f, written \in Nat, runs \in Nat \ {0}, NEW s \in Seq(Nat), NEW t \in Seq(Nat),
           s \o t = Whole(f), EndMark \in Range(s)
    PROVE  s = Whole(f)
<1>1. PICK i \in 1 .. Len(s) : s[i] = EndMark
  BY LenProperties DEF Range
<1>2. /\ Len(s) \in Nat /\ Len(t) \in Nat /\ i \in Nat
      /\ Len(Whole(f)) = Len(s) + Len(t)
      /\ Whole(f)[i] = s[i]
  BY ConcatProperties, LenProperties
<1>3. i \notin 1 .. written
  BY <1>1, <1>2, WholeFacts DEF EndMark
<1>4. Len(Whole(f)) <= written + 1
  BY WholeFacts
<1>5. Len(t) = 0
  BY <1>1, <1>2, <1>3, <1>4
<1>6. t = <<>>
  BY <1>5, SeqFacts
<1> QED
  BY <1>6, ConcatEmptySeq

-----------------------------------------------------------------------------
(* What is in the outputs *)

\* Entries of this execution that an output has got.
Emitted(f) == written - (IF f \in turn THEN 1 ELSE 0)

\* Before it is opened, or when the writer could not be set up.
Fresh(f) ==
    /\ written = 0
    /\ buffered[f] = <<>>
    /\ received[f] = <<>>
    /\ offset[f] = Closed
    /\ f \in pipes => files[f] = <<>>
    /\ f \notin pipes /\ runs = 1 => files[f] \in {Absent, <<>>}

PipeFilling(f) ==
    /\ received[f] \in Seq({runs})
    /\ files[f] \in Seq({runs})
    /\ consumer[f] = "gone" => files[f] = <<>>
    /\ outcome = "running" =>
         /\ consumer[f] \in {"reading", "gone"}
         /\ consumer[f] # "gone" =>
              Len(received[f]) + Len(files[f]) + Len(buffered[f]) = Emitted(f)

FileFilling(f) ==
    /\ offset[f] <= Len(files[f])
    /\ \A i \in 1 .. offset[f] : files[f][i] = runs
    /\ offset[f] + Len(buffered[f]) = Emitted(f)
    /\ runs = 1 => Len(files[f]) = offset[f]

\* While it is open.
Filling(f) ==
    /\ buffered[f] \in Seq({runs})
    /\ Len(buffered[f]) <= Emitted(f)
    /\ offset[f] # Closed
    /\ IF f \in pipes THEN PipeFilling(f) ELSE FileFilling(f)

PipeFinished(f) ==
    IF consumer[f] = "gone"
    THEN files[f] = <<>> /\ (EndMark \in Range(received[f]) => received[f] = Whole(f))
    ELSE received[f] \o files[f] = Whole(f)

FileFinished(f) ==
    /\ f \notin lost => IsPrefix(Whole(f), files[f])
    /\ runs = 1 /\ EndMark \in Range(files[f]) => files[f] = Whole(f)

\* After it is closed.
Finished(f) ==
    /\ offset[f] = Closed
    /\ IF f \in pipes THEN PipeFinished(f) ELSE FileFinished(f)

Holds(f) ==
    IF Shut(f) THEN Opened(f) /\ Finished(f) ELSE IF Opened(f) THEN Filling(f) ELSE Fresh(f)

Contents == \A f \in Traces(command) : Holds(f)

\* The first execution finds nothing there.
FirstRun ==
    runs = 0 =>
      /\ outcome = "none"
      /\ command = "get-info"
      /\ \A f \in Files \ pipes : files[f] = Absent

\* Nobody reads a file.
NoReader == \A f \in Files \ pipes : received[f] = <<>>

ContentInv == AskInv /\ DataTypeOK /\ FirstRun /\ NoReader /\ Contents

-----------------------------------------------------------------------------
LEMMA FirstCommand == Traces("get-info") = {}
<1>1. Handler("get-info") = ReadOnly
  BY DEF Handler
<1>2. \A f : Step("write", f) \notin Steps("get-info")
  BY <1>1 DEF Steps, ReadOnly, Input, Step
<1> QED
  BY <1>2 DEF Traces

LEMMA RunsPositive ==
    ASSUME ContentInv, NEW f \in Traces(command)
    PROVE  runs \in Nat \ {0} /\ f \in Files
BY FirstCommand, TracesFacts DEF ContentInv, FirstRun, AskInv, ControlInv, ControlTypeOK

LEMMA OpenedSame ==
    ASSUME UNCHANGED <<command, step>>
    PROVE  /\ Traces(command)' = Traces(command)
           /\ \A f : (Opened(f)' <=> Opened(f)) /\ (Shut(f)' <=> Shut(f))
BY StayFacts DEF Traces, Steps, Opened, Shut

LEMMA OpenedLater ==
    ASSUME ControlTypeOK, NEW op, At(op), Continue
    PROVE  /\ UNCHANGED <<runs, command, outcome>>
           /\ outcome = "running"
           /\ Traces(command)' = Traces(command)
           /\ \A f : Opened(f)' <=> Opened(f) \/ (op = "write" /\ f = Current.file)
           /\ \A f : Shut(f)' <=> Shut(f) \/ (op = "close_writer" /\ f = Current.file)
<1>1. /\ UNCHANGED <<runs, command, outcome>>
      /\ outcome = "running"
      /\ \A s : Did(s)' <=> Did(s) \/ s = Current
      /\ Current = Step(op, Current.file)
  BY ContinueFacts, AtFacts
<1>2. Traces(command)' = Traces(command)
  BY <1>1 DEF Traces, Steps
<1> QED
  BY <1>1, <1>2, StepNames DEF Opened, Shut

LEMMA OpenedIsTrace ==
    ASSUME ControlTypeOK, NEW f \in Files, Opened(f)
    PROVE  f \in Traces(command)
<1>1. PICK j \in 1 .. step - 1 : TheHandler[j] = Step("write", f)
  BY DEF Opened, Did, Before
<1>2. j \in 1 .. Len(TheHandler)
  BY <1>1, HandlerFacts
<1> QED
  BY <1>1, <1>2, TracesFacts

\* The loop finds all outputs open, and a close finds its own open.
LEMMA LoopFacts ==
    ASSUME ControlTypeOK, At("loop"), NEW f \in Traces(command)
    PROVE  Opened(f) /\ ~ Shut(f)
<1>1. Orderly(TheHandler, step) /\ TheHandler[step].op = "loop"
  BY AtFacts
<1> QED
  BY <1>1, TracesFacts DEF Orderly, Opened, Shut, Did

LEMMA AtOutputFacts ==
    ASSUME AskInv, NEW f \in Files, AtOutput(f)
    PROVE  /\ Opened(f) /\ ~ Shut(f)
           /\ f \in Traces(command)
           /\ outcome = "running"
<1>1. ControlTypeOK
  BY DEF AskInv, ControlInv
<1>2. CASE At("close_writer") /\ f = Current.file
  BY <1>1, <1>2, StepOrder, OpenedIsTrace, AtFacts
<1>3. CASE At("loop") /\ turn # {} /\ f = NextOutput
  <2>1. f \in Traces(command)
    BY <1>3, TracesFacts DEF AskInv, TurnRight, NextOutput, Files
  <2> QED
    BY <1>1, <1>3, <2>1, LoopFacts, AtFacts
<1> QED
  BY <1>2, <1>3 DEF AtOutput

\* A handler that saves a table has no traces.
LEMMA TableAlone ==
    ASSUME ControlTypeOK, At("create") \/ At("save")
    PROVE  Traces(command) = {}
<1>1. step \in 1 .. Len(TheHandler) /\ TheHandler[step].op \in {"create", "save"}
  BY AtFacts
<1>2. SUFFICES ASSUME NEW f \in Traces(command) PROVE FALSE
  OBVIOUS
<1>3. PICK n \in 1 .. Len(TheHandler) : TheHandler[n] = Step("write", f)
  BY TracesFacts
<1>4. Orderly(TheHandler, n) /\ TheHandler[n].op = "write"
  BY <1>3, HandlerFacts DEF Step
<1> QED
  BY <1>1, <1>4 DEF Orderly

\* A step that does not touch an output.
LEMMA KeepOutput ==
    ASSUME NEW f, Holds(f), UNCHANGED <<pipes, runs, command>>,
           Opened(f)' <=> Opened(f), Shut(f)' <=> Shut(f),
           files'[f] = files[f], offset'[f] = offset[f], buffered'[f] = buffered[f],
           received'[f] = received[f], consumer'[f] = consumer[f],
           f \in lost' <=> f \in lost,
           Emitted(f)' = Emitted(f),
           written' = written \/ (Opened(f) /\ ~ Shut(f)),
           outcome' = "running" => outcome = "running"
    PROVE  Holds(f)'
<1>1. CASE Shut(f)
  <2>1. Whole(f)' = Whole(f)
    BY <1>1 DEF Whole, LastWrite
  <2> QED
    BY <1>1, <2>1 DEF Holds, Finished, PipeFinished, FileFinished
<1>2. CASE ~ Shut(f) /\ Opened(f)
  BY <1>2 DEF Holds, Filling, PipeFilling, FileFilling
<1>3. CASE ~ Shut(f) /\ ~ Opened(f)
  BY <1>3 DEF Holds, Fresh
<1> QED
  BY <1>1, <1>2, <1>3

LEMMA KeepContents ==
    ASSUME ContentInv, UNCHANGED <<pipes, runs, command, streams, received, consumer, lost>>,
           UNCHANGED progress \/ NextEntry,
           \A f : (Opened(f)' <=> Opened(f)) /\ (Shut(f)' <=> Shut(f)),
           outcome' = "running" => outcome = "running"
    PROVE  Contents'
<1>1. SUFFICES ASSUME NEW f \in Traces(command) PROVE Holds(f)'
  BY DEF Contents, Traces, Steps
<1>2. Holds(f)
  BY DEF ContentInv, Contents
<1>3. CASE UNCHANGED progress
  BY <1>2, <1>3, KeepOutput DEF streams, progress, Emitted
<1>4. CASE NextEntry
  <2>1. Opened(f) /\ ~ Shut(f)
    BY <1>4, LoopFacts DEF NextEntry, ContentInv, AskInv, ControlInv
  <2>2. f \in Open
    BY <1>2, <2>1 DEF Holds, Filling, Open
  <2>3. written \in Nat
    BY DEF ContentInv, DataTypeOK
  <2>4. Emitted(f)' = Emitted(f)
    BY <1>4, <2>2, <2>3 DEF NextEntry, Emitted
  <2> QED
    BY <1>2, <2>1, <2>4, KeepOutput DEF streams
<1> QED
  BY <1>3, <1>4

LEMMA StartContents ==
    ASSUME ContentInv, ControlInv', UNCHANGED pipes, NEW name \in Names, Start(name)
    PROVE  Contents'
<1>1. /\ step' = 1 /\ runs' = runs + 1 /\ written' = 0
      /\ offset' = [f \in Files |-> Closed]
      /\ buffered' = [f \in Files |-> <<>>]
      /\ received' = [f \in Files |-> <<>>]
      /\ files' = [f \in Files |-> IF f \in pipes THEN <<>> ELSE files[f]]
  BY DEF Start
<1>2. \A s : ~ Did(s)'
  BY <1>1 DEF Did, Before
<1>3. SUFFICES ASSUME NEW f \in Traces(command)' PROVE Holds(f)'
  BY DEF Contents
<1>4. f \in Files
  BY DEF Traces
<1>5. f \notin pipes /\ runs' = 1 => files[f] = Absent
  BY <1>1, <1>4 DEF ContentInv, FirstRun, AskInv, ControlInv, ControlTypeOK
<1> QED
  BY <1>1, <1>2, <1>4, <1>5 DEF Holds, Opened, Shut, Fresh

LEMMA OpenContents ==
    ASSUME ContentInv, UNCHANGED pipes, OpenWriter \/ WriterFails
    PROVE  Contents'
<1> DEFINE g == Current.file
<1>1. /\ ControlTypeOK
      /\ At("write")
      /\ UNCHANGED <<progress, buffered, lost, received>>
      /\ g \in Files
  BY AtFacts DEF OpenWriter, WriterFails, CountWriter, ContentInv, AskInv, ControlInv
<1>2. /\ files' = [files EXCEPT ![g] = IF @ = Absent THEN <<>> ELSE @]
      /\ consumer' = IF g \in pipes THEN [consumer EXCEPT ![g] = "reading"] ELSE consumer
  BY DEF OpenWriter, WriterFails, OpensKeeping, Opens
<1>4. CASE WriterFails
  <2>1. UNCHANGED <<runs, command, step, offset>> /\ outcome' = "killed"
    BY <1>4 DEF WriterFails, Killed
  <2>2. \A f : (Opened(f)' <=> Opened(f)) /\ (Shut(f)' <=> Shut(f))
    BY <2>1, OpenedSame
  <2>3. SUFFICES ASSUME NEW f \in Traces(command) PROVE Holds(f)'
    BY <2>1 DEF Contents, Traces, Steps
  <2>4. Holds(f) /\ f \in Files
    BY RunsPositive DEF ContentInv, Contents
  <2>5. CASE f # g
    <3>1. files'[f] = files[f] /\ consumer'[f] = consumer[f] /\ Emitted(f)' = Emitted(f)
      BY <1>1, <1>2, <2>4, <2>5 DEF ContentInv, DataTypeOK, progress, Emitted
    <3> QED
      BY <1>1, <2>1, <2>2, <2>4, <3>1, KeepOutput DEF progress
  <2>6. CASE f = g
    <3>1. ~ Opened(f) /\ ~ Shut(f)
      BY <1>1, <2>6, StepOrder
    <3>2. Fresh(f)
      BY <2>4, <3>1 DEF Holds
    <3>3. files'[f] = IF files[f] = Absent THEN <<>> ELSE files[f]
      BY <1>2, <2>4, <2>6 DEF ContentInv, DataTypeOK
    <3>4. Fresh(f)'
      BY <1>1, <2>1, <3>2, <3>3 DEF Fresh, progress
    <3> QED
      BY <2>2, <3>1, <3>4 DEF Holds
  <2> QED
    BY <2>5, <2>6
<1>3. CASE OpenWriter
  <2>1. Continue /\ offset' = [offset EXCEPT ![g] = 0]
    BY <1>3 DEF OpenWriter, StartsAt0
  <2>2. /\ UNCHANGED <<runs, command, outcome>>
        /\ Traces(command)' = Traces(command)
        /\ \A f : Opened(f)' <=> Opened(f) \/ f = g
        /\ \A f : Shut(f)' <=> Shut(f)
        /\ ~ Opened(g) /\ ~ Shut(g)
    BY <1>1, <2>1, OpenedLater, StepOrder
  <2>3. SUFFICES ASSUME NEW f \in Traces(command) PROVE Holds(f)'
    BY <2>2 DEF Contents
  <2>4. Holds(f) /\ f \in Files /\ runs \in Nat \ {0}
    BY RunsPositive DEF ContentInv, Contents
  <2>5. CASE f # g
    <3>1. /\ files'[f] = files[f] /\ offset'[f] = offset[f] /\ consumer'[f] = consumer[f]
          /\ Emitted(f)' = Emitted(f)
      BY <1>1, <1>2, <2>1, <2>4, <2>5 DEF ContentInv, DataTypeOK, progress, Emitted
    <3> QED
      BY <1>1, <2>2, <2>4, <2>5, <3>1, KeepOutput DEF progress
  <2>6. CASE f = g
    <3>1. Fresh(f)
      BY <2>2, <2>4, <2>6 DEF Holds
    <3>2. turn = {}
      BY <1>1, AtFacts DEF ContentInv, AskInv, TurnRight
    <3>3. /\ files'[f] = IF files[f] = Absent THEN <<>> ELSE files[f]
          /\ offset'[f] = 0
          /\ f \in pipes => consumer'[f] = "reading"
      BY <1>2, <2>1, <2>4, <2>6 DEF ContentInv, DataTypeOK
    <3>11. /\ buffered'[f] = <<>> /\ received'[f] = <<>>
          /\ written' = 0 /\ turn' = {}
      BY <1>1, <3>1, <3>2 DEF progress, Fresh
    <3>12. Emitted(f)' = 0
      <4>1. f \notin turn'
        BY <3>11
      <4>2. Emitted(f)' = written' - 0
        BY <4>1 DEF Emitted
      <4> QED
        BY <3>11, <4>2
    <3>4. f \in pipes => files'[f] = <<>>
      BY <3>1, <3>3 DEF Fresh
    <3>5. f \notin pipes /\ runs = 1 => files'[f] = <<>>
      BY <3>1, <3>3 DEF Fresh
    <3>6. files[f] # Absent => Len(files'[f]) \in Nat
      BY <2>4, <3>3, LenProperties DEF ContentInv, DataTypeOK
    <3>7. Len(<<>>) = 0 /\ <<>> \in Seq({runs})
      OBVIOUS
    <3>8. Len(files'[f]) \in Nat
      BY <3>3, <3>6, <3>7
    <3>9. ASSUME f \in pipes PROVE PipeFilling(f)'
      <4>1. /\ received'[f] = <<>> /\ files'[f] = <<>> /\ buffered'[f] = <<>>
            /\ consumer'[f] = "reading" /\ Emitted(f)' = 0
        BY <3>3, <3>4, <3>9, <3>11, <3>12
      <4> QED
        BY <4>1, <3>7 DEF PipeFilling
    <3>10. f \notin pipes => FileFilling(f)'
      BY <2>2, <3>3, <3>5, <3>7, <3>8, <3>11, <3>12 DEF FileFilling
    <3> QED
      BY <2>2, <2>6, <3>3, <3>7, <3>9, <3>10, <3>11, <3>12 DEF Holds, Filling, Closed
  <2> QED
    BY <2>5, <2>6
<1> QED
  BY <1>3, <1>4

LEMMA ContentTypes ==
    ASSUME ContentInv, NEW f \in Files
    PROVE  /\ written \in Nat
           /\ offset[f] \in Nat \cup {Closed}
           /\ files[f] \in Seq(Int)
           /\ buffered[f] \in Seq(Nat) /\ received[f] \in Seq(Nat)
           /\ f \in pipes => files[f] \in Seq(Nat)
           /\ runs \in Nat
BY DEF ContentInv, DataTypeOK, AskInv, ControlInv, ControlTypeOK

LEMMA NumbersPresent == \A s \in Seq(Nat) : s # Absent
<1>1. SUFFICES ASSUME NEW s \in Seq(Nat), s = Absent PROVE FALSE
  OBVIOUS
<1>2. s[1] = -1 /\ Len(s) = 1
  BY <1>1 DEF Absent
<1>3. s[1] \in Nat
  BY <1>2, ElementOfSeq
<1> QED
  BY <1>2, <1>3

LEMMA EmittedFacts ==
    ASSUME ContentInv, NEW f
    PROVE  /\ Emitted(f) \in Int
           /\ f \in turn => Emitted(f) = written - 1
           /\ f \notin turn => Emitted(f) = written
<1>1. written \in Nat
  BY DEF ContentInv, DataTypeOK
<1> QED
  BY <1>1 DEF Emitted

LEMMA EmitContents ==
    ASSUME ContentInv, UNCHANGED pipes, Emit
    PROVE  Contents'
<1> DEFINE g == NextOutput
<1>1. /\ At("loop")
      /\ turn # {}
      /\ buffered' = [buffered EXCEPT ![g] = Append(@, runs)]
      /\ turn' = turn \ {g}
      /\ UNCHANGED <<runs, command, step, outcome, written, files, offset, lost,
                     consumer, received>>
  BY DEF Emit, control, consumers
<1>2. g \in turn /\ g \in Traces(command) /\ g \in Files
  BY <1>1, TracesFacts DEF NextOutput, Files, ContentInv, AskInv, TurnRight
<1> HIDE DEF g
<1>3. /\ Traces(command)' = Traces(command)
      /\ \A f : (Opened(f)' <=> Opened(f)) /\ (Shut(f)' <=> Shut(f))
  BY <1>1, OpenedSame
<1>4. SUFFICES ASSUME NEW f \in Traces(command) PROVE Holds(f)'
  BY <1>3 DEF Contents
<1>5. Holds(f) /\ f \in Files /\ written \in Nat
  BY RunsPositive DEF ContentInv, Contents, DataTypeOK
<1>6. CASE f # g
  <2>1. buffered'[f] = buffered[f] /\ Emitted(f)' = Emitted(f)
    BY <1>1, <1>6, <1>5 DEF Emitted, ContentInv, DataTypeOK
  <2> QED
    BY <1>1, <1>3, <1>5, <2>1, KeepOutput
<1>7. CASE f = g
  <2>1. Opened(f) /\ ~ Shut(f)
    BY <1>1, LoopFacts DEF ContentInv, AskInv, ControlInv
  <2>2. Filling(f)
    BY <1>5, <2>1 DEF Holds
  <2>3. buffered'[f] = Append(buffered[f], runs)
    BY <1>1, <1>2, <1>7 DEF ContentInv, DataTypeOK
  <2>4. buffered'[f] \in Seq({runs}) /\ Len(buffered'[f]) = Len(buffered[f]) + 1
    BY <2>2, <2>3, AppendSame DEF Filling
  <2>5. Emitted(f) = written - 1
    BY <1>2, <1>7 DEF Emitted
  <2>6. f \notin turn' /\ written' = written
    BY <1>1, <1>7
  <2>7. Emitted(f)' = written - 0
    BY <2>6 DEF Emitted
  <2>8. Emitted(f)' = Emitted(f) + 1 /\ Emitted(f) \in Int
    BY <1>5, <2>5, <2>7
  <2>9. Len(buffered[f]) \in Nat
    BY <2>2, LenProperties DEF Filling
  <2>10. ASSUME f \in pipes PROVE PipeFilling(f)'
    <3>1. PipeFilling(f)
      BY <2>2, <2>10 DEF Filling
    <3>2. Len(received[f]) \in Nat /\ Len(files[f]) \in Nat
      BY <3>1, LenProperties DEF PipeFilling
    <3>3. ASSUME outcome = "running", consumer[f] # "gone"
          PROVE  Len(received[f]) + Len(files[f]) + Len(buffered'[f]) = Emitted(f)'
      <4>1. Len(received[f]) + Len(files[f]) + Len(buffered[f]) = Emitted(f)
        BY <3>1, <3>3 DEF PipeFilling
      <4> DEFINE a == Len(received[f])
                 b == Len(files[f])
                 c == Len(buffered[f])
                 d == Emitted(f)
      <4>2. a \in Int /\ b \in Int /\ c \in Int /\ d \in Int
        BY <2>8, <2>9, <3>2
      <4>4. a + b + c = d
        BY <4>1
      <4> HIDE DEF a, b, c, d
      <4>3. a + b + (c + 1) = d + 1
        BY <4>2, <4>4
      <4> QED
        BY <2>4, <2>8, <4>3, Zenon DEF a, b, c, d
    <3> QED
      BY <1>1, <3>1, <3>3 DEF PipeFilling
  <2>11. ASSUME f \notin pipes PROVE FileFilling(f)'
    <3>1. FileFilling(f)
      BY <2>2, <2>11 DEF Filling
    <3>2. offset[f] \in Int
      BY <1>5, ContentTypes DEF Closed
    <3> QED
      BY <1>1, <2>4, <2>8, <2>9, <3>1, <3>2 DEF FileFilling
  <2>12. Len(buffered[f]) <= Emitted(f) /\ offset[f] # Closed
    BY <2>2 DEF Filling
  <2>13. Filling(f)'
    BY <1>1, <2>4, <2>8, <2>9, <2>10, <2>11, <2>12 DEF Filling
  <2> QED
    BY <1>3, <2>1, <2>13 DEF Holds
<1> QED
  BY <1>6, <1>7

\* A write at an offset: what is there is overwritten, or the file grows.
LEMMA FileWrite ==
    ASSUME NEW s \in Seq(Int), NEW k \in Nat, k <= Len(s), NEW x \in Int, NEW r,
           \A i \in 1 .. k : s[i] = r,
           NEW t, t = IF k = Len(s) THEN Append(s, x) ELSE [s EXCEPT ![k + 1] = x]
    PROVE  /\ t \in Seq(Int)
           /\ k + 1 <= Len(t)
           /\ \A i \in 1 .. k : t[i] = r
           /\ t[k + 1] = x
           /\ Len(s) = k => Len(t) = k + 1
<1>1. Len(s) \in Nat
  BY LenProperties
<1>2. CASE k = Len(s)
  BY <1>2, AppendProperties
<1>3. CASE k # Len(s)
  <2>1. k + 1 \in 1 .. Len(s)
    BY <1>1, <1>3
  <2>2. /\ t \in Seq(Int) /\ Len(t) = Len(s)
        /\ \A j \in 1 .. Len(s) : t[j] = IF j = k + 1 THEN x ELSE s[j]
    BY <1>3, <2>1, ExceptSeq
  <2>3. \A i \in 1 .. k : i \in 1 .. Len(s) /\ i # k + 1
    BY <1>1
  <2>4. \A i \in 1 .. k : t[i] = r
    BY <2>2, <2>3
  <2> QED
    BY <1>3, <2>1, <2>2, <2>4
<1> QED
  BY <1>2, <1>3

LEMMA WithFacts ==
    ASSUME ContentInv, NEW f \in Files, NEW x
    PROVE  /\ \A g \in Files : g # f => With(f, x)[g] = files[g]
           /\ f \in pipes => With(f, x)[f] = Append(files[f], x)
           /\ f \notin pipes =>
                With(f, x)[f] = IF offset[f] = Len(files[f]) THEN Append(files[f], x)
                                ELSE [files[f] EXCEPT ![offset[f] + 1] = x]
BY DEF With, ContentInv, DataTypeOK

LEMMA FlushContents ==
    ASSUME ContentInv, UNCHANGED pipes, NEW g \in Files, Flush(g)
    PROVE  Contents'
<1>1. /\ AtOutput(g) /\ buffered[g] # <<>> /\ Writable(g)
      /\ files' = With(g, Head(buffered[g]))
      /\ offset' = [offset EXCEPT ![g] = @ + 1]
      /\ buffered' = [buffered EXCEPT ![g] = Tail(@)]
      /\ UNCHANGED <<runs, command, step, outcome, written, turn, lost, consumer, received>>
  BY DEF Flush, HoldsBack, control, progress, consumers
<1>2. Opened(g) /\ ~ Shut(g) /\ outcome = "running"
  BY <1>1, AtOutputFacts DEF ContentInv
<1>3. /\ Traces(command)' = Traces(command)
      /\ \A f : (Opened(f)' <=> Opened(f)) /\ (Shut(f)' <=> Shut(f))
  BY <1>1, OpenedSame
<1>4. SUFFICES ASSUME NEW f \in Traces(command) PROVE Holds(f)'
  BY <1>3 DEF Contents
<1>5. Holds(f) /\ f \in Files /\ runs \in Nat \ {0}
  BY RunsPositive DEF ContentInv, Contents
<1>8. Emitted(f)' = Emitted(f)
  BY <1>1 DEF Emitted
<1>6. CASE f # g
  <2>1. files'[f] = files[f]
    <3>1. With(g, Head(buffered[g]))[f] = files[f]
      BY <1>5, <1>6 DEF With, ContentInv, DataTypeOK
    <3> QED
      BY <1>1, <3>1, Zenon
  <2>2. buffered'[f] = buffered[f] /\ offset'[f] = offset[f]
    BY <1>1, <1>5, <1>6 DEF ContentInv, DataTypeOK
  <2> QED
    BY <1>1, <1>3, <1>5, <1>8, <2>1, <2>2, KeepOutput
<1>7. CASE f = g
  <2>2. Filling(f)
    BY <1>2, <1>5, <1>7 DEF Holds
  <2>3. /\ Head(buffered[f]) = runs
        /\ Tail(buffered[f]) \in Seq({runs})
        /\ Len(Tail(buffered[f])) = Len(buffered[f]) - 1
        /\ Len(buffered[f]) \in Nat
    BY <1>1, <1>7, <2>2, TakeSame, LenProperties DEF Filling
  <2>4. /\ buffered'[f] = Tail(buffered[f]) /\ offset'[f] = offset[f] + 1
        /\ files' = With(f, runs)
        /\ offset[f] \in Nat
    BY <1>1, <1>5, <1>7, <2>2, <2>3 DEF ContentInv, DataTypeOK, Filling
  <2>5. offset'[f] # Closed
    BY <2>4 DEF Closed
  <2>6. Emitted(f) \in Int
    BY EmittedFacts
  <2>7. ASSUME f \in pipes PROVE PipeFilling(f)'
    <3>1. PipeFilling(f) /\ consumer[f] # "gone"
      BY <1>1, <1>7, <2>2, <2>7 DEF Filling, Writable, Broken
    <3>2. files'[f] = Append(files[f], runs)
      BY <1>5, <2>4, <2>7, WithFacts, Zenon
    <3>3. files'[f] \in Seq({runs}) /\ Len(files'[f]) = Len(files[f]) + 1
      BY <3>1, <3>2, AppendSame DEF PipeFilling
    <3>4. Len(received[f]) \in Nat /\ Len(files[f]) \in Nat
      BY <3>1, LenProperties DEF PipeFilling
    <3>5. Len(received[f]) + Len(files[f]) + Len(buffered[f]) = Emitted(f)
          /\ consumer[f] \in {"reading", "gone"} /\ received[f] \in Seq({runs})
      BY <1>2, <3>1 DEF PipeFilling
    <3>6. Len(received[f]) + Len(files'[f]) + Len(buffered'[f]) = Emitted(f)
      <4> DEFINE a == Len(received[f])
                 b == Len(files[f])
                 c == Len(buffered[f])
                 d == Emitted(f)
      <4>1. a \in Int /\ b \in Int /\ c \in Int /\ d \in Int
        BY <2>3, <2>6, <3>4
      <4>4. a + b + c = d
        BY <3>5
      <4> HIDE DEF a, b, c, d
      <4>2. a + (b + 1) + (c - 1) = d
        BY <4>1, <4>4
      <4> QED
        BY <2>3, <2>4, <3>3, <4>2, Zenon DEF a, b, c, d
    <3> QED
      BY <1>1, <1>8, <3>1, <3>3, <3>5, <3>6 DEF PipeFilling
  <2>8. ASSUME f \notin pipes PROVE FileFilling(f)'
    <3>1. /\ FileFilling(f)
          /\ files[f] \in Seq(Int) /\ runs \in Int
      BY <1>5, <2>2, <2>8, ContentTypes DEF Filling
    <3>2. files'[f] = IF offset[f] = Len(files[f]) THEN Append(files[f], runs)
                      ELSE [files[f] EXCEPT ![offset[f] + 1] = runs]
      BY <1>5, <2>4, <2>8, WithFacts, Zenon
    <3>3. /\ offset[f] + 1 <= Len(files'[f])
          /\ \A i \in 1 .. offset[f] : files'[f][i] = runs
          /\ files'[f][offset[f] + 1] = runs
          /\ Len(files[f]) = offset[f] => Len(files'[f]) = offset[f] + 1
      <4> DEFINE s == files[f]
                 k == offset[f]
                 t == files'[f]
      <4>1. /\ s \in Seq(Int) /\ k \in Nat /\ k <= Len(s)
            /\ \A i \in 1 .. k : s[i] = runs
            /\ t = IF k = Len(s) THEN Append(s, runs) ELSE [s EXCEPT ![k + 1] = runs]
        BY <2>4, <3>1, <3>2 DEF FileFilling
      <4> HIDE DEF s, k, t
      <4>2. /\ k + 1 <= Len(t)
            /\ \A i \in 1 .. k : t[i] = runs
            /\ t[k + 1] = runs
            /\ Len(s) = k => Len(t) = k + 1
        BY <3>1, <4>1, FileWrite
      <4> QED
        BY <4>2 DEF s, k, t
    <3>4. \A i \in 1 .. offset[f] + 1 : i \in 1 .. offset[f] \/ i = offset[f] + 1
      BY <2>4
    <3>5. offset'[f] + Len(buffered'[f]) = Emitted(f)
      BY <2>3, <2>4, <2>6, <3>1 DEF FileFilling
    <3>6. \A i \in 1 .. offset'[f] : files'[f][i] = runs
      BY <2>4, <3>3, <3>4
    <3> QED
      BY <1>1, <1>8, <2>4, <3>1, <3>3, <3>5, <3>6 DEF FileFilling
  <2>9. Len(buffered'[f]) <= Emitted(f)
    BY <2>2, <2>3, <2>4, <2>6 DEF Filling
  <2>10. Filling(f)'
    BY <1>1, <1>8, <2>3, <2>4, <2>5, <2>7, <2>8, <2>9 DEF Filling
  <2> QED
    BY <1>2, <1>3, <1>7, <2>10 DEF Holds
<1> QED
  BY <1>6, <1>7

\* The last write: nothing is held back, or nobody looks.
LEMMA LastWriteContents ==
    ASSUME ContentInv, NEW f \in Traces(command), Filling(f), turn = {},
           outcome = "running",
           Close(f, LastWrite(f)), UNCHANGED <<pipes, runs>>
    PROVE  Finished(f)'
<1>1. /\ offset' = [offset EXCEPT ![f] = Closed]
      /\ UNCHANGED <<written, consumer, received>>
  BY DEF Close, progress, consumers
<1>2. runs \in Nat \ {0} /\ f \in Files /\ written \in Nat /\ runs \in Int
  BY RunsPositive, ContentTypes
<1>3. Emitted(f) = written
  BY EmittedFacts
<1>4. Whole(f)' = Whole(f)
  BY <1>1 DEF Whole, LastWrite
<1>5. offset'[f] = Closed
  BY <1>1, <1>2 DEF ContentInv, DataTypeOK
<1>6. Head(<<EndMark>>) = EndMark /\ EndMark \in Nat /\ EndMark \in Int
  BY HeadOfOne DEF EndMark
<1>7. CASE f \in pipes
  <2>1. PipeFilling(f) /\ files[f] \in Seq(Nat) /\ received[f] \in Seq(Nat)
    BY <1>2, <1>7, ContentTypes DEF Filling
  <2>2. buffered[f] = <<>>
    BY <1>7 DEF Close, Emptied, HoldsBack
  <2>3. CASE consumer[f] = "gone"
    <3>1. LastWrite(f) = <<>> /\ files' = files
      BY <1>7, <2>3 DEF Close, Writable, Broken
    <3>2. EndMark \notin Range(received[f])
      <4>1. received[f] \in Seq({runs})
        BY <2>1 DEF PipeFilling
      <4> QED
        BY <1>2, <4>1 DEF Range, EndMark
    <3> QED
      BY <1>1, <1>5, <1>7, <2>1, <2>3, <3>1, <3>2
         DEF Finished, PipeFinished, PipeFilling
  <2>4. CASE consumer[f] # "gone"
    <3>1. /\ received[f] \in Seq({runs}) /\ files[f] \in Seq({runs})
          /\ Len(received[f]) + Len(files[f]) + Len(buffered[f]) = written
      BY <1>3, <2>1, <2>4 DEF PipeFilling
    <3>2. Len(buffered[f]) = 0 /\ Len(received[f]) \in Nat /\ Len(files[f]) \in Nat
      BY <2>2, <3>1, LenProperties
    <3>3. Len(received[f]) + Len(files[f]) = written
      <4> DEFINE a == Len(received[f])
                 b == Len(files[f])
                 c == Len(buffered[f])
      <4>1. a \in Int /\ b \in Int /\ c = 0
        BY <3>2
      <4>2. a + b + c = written
        BY <3>1
      <4> HIDE DEF a, b, c
      <4>3. a + b = written
        BY <4>1, <4>2
      <4> QED
        BY <4>3 DEF a, b
    <3>4. received[f] \o files[f] = Repeated(written, runs)
      BY <3>1, <3>3, SameTogether
    <3>5. received[f] \o files'[f] = Whole(f)
      <4>1. CASE f \notin Lz4Files
        <5>1. files' = files
          BY <1>7, <4>1 DEF Close, LastWrite
        <5> QED
          BY <1>2, <3>4, <4>1, <5>1, WholeFacts
      <4>2. CASE f \in Lz4Files
        <5>1. files' = With(f, EndMark)
          BY <1>6, <1>7, <4>2 DEF Close, LastWrite
        <5>2. files'[f] = Append(files[f], EndMark)
          BY <1>2, <1>7, <5>1 DEF With, ContentInv, DataTypeOK
        <5>3. received[f] \o files'[f] = (received[f] \o files[f]) \o <<EndMark>>
          <6> DEFINE s == received[f]
                     t == files[f]
          <6>1. s \in Seq(Nat) /\ t \in Seq(Nat)
            BY <2>1
          <6> HIDE DEF s, t
          <6>2. s \o Append(t, EndMark) = (s \o t) \o <<EndMark>>
            BY <1>6, <6>1, WriteKeepsStream
          <6> QED
            BY <5>2, <6>2, Zenon DEF s, t
        <5> QED
          BY <1>2, <3>4, <4>2, <5>3, WholeFacts
      <4> QED
        BY <4>1, <4>2
    <3> QED
      BY <1>1, <1>4, <1>5, <1>7, <2>4, <3>5 DEF Finished, PipeFinished
  <2> QED
    BY <2>3, <2>4
<1>8. CASE f \notin pipes
  <2>1. /\ FileFilling(f) /\ files[f] \in Seq(Int) /\ offset[f] \in Nat
        /\ buffered[f] \in Seq(Nat)
    BY <1>2, <1>8, ContentTypes DEF Filling
  <2>2. /\ offset[f] <= Len(files[f])
        /\ \A i \in 1 .. offset[f] : files[f][i] = runs
        /\ runs = 1 => Len(files[f]) = offset[f]
        /\ offset[f] + Len(buffered[f]) = written
    BY <1>3, <2>1 DEF FileFilling
  <2>3. runs = 1 => EndMark \notin Range(files[f])
    <3>1. DOMAIN files[f] = 1 .. Len(files[f])
      BY <2>1, LenProperties
    <3> QED
      BY <1>2, <2>2, <3>1 DEF Range, EndMark
  <2>4. CASE lost' = lost \cup {f} /\ files' = files
    BY <1>1, <1>5, <1>8, <2>3, <2>4 DEF Finished, FileFinished
  <2>5. CASE Emptied(f)
             /\ IF LastWrite(f) = <<>> THEN files' = files
                ELSE files' = With(f, Head(LastWrite(f)))
    <3>1. offset[f] = written
      BY <2>1, <2>2, <2>5 DEF Emptied, HoldsBack
    <3>2. CASE f \notin Lz4Files
      <4>1. files' = files
        BY <2>5, <3>2 DEF LastWrite
      <4>2. /\ Whole(f) \in Seq(Int) /\ Len(Whole(f)) = written
            /\ \A i \in 1 .. written : Whole(f)[i] = runs
        BY <1>2, <3>2, WholeFacts
      <4>3. IsPrefix(Whole(f), files[f])
        BY <2>1, <2>2, <3>1, <4>2, SameStart
      <4> QED
        BY <1>1, <1>4, <1>5, <1>8, <2>3, <4>1, <4>3 DEF Finished, FileFinished
    <3>3. CASE f \in Lz4Files
      <4>1. files' = With(f, EndMark)
        BY <1>6, <2>5, <3>3 DEF LastWrite
      <4>2. files'[f] = IF offset[f] = Len(files[f]) THEN Append(files[f], EndMark)
                        ELSE [files[f] EXCEPT ![offset[f] + 1] = EndMark]
        BY <1>2, <1>8, <4>1 DEF With, ContentInv, DataTypeOK
      <4>3. /\ files'[f] \in Seq(Int)
            /\ written + 1 <= Len(files'[f])
            /\ \A i \in 1 .. written : files'[f][i] = runs
            /\ files'[f][written + 1] = EndMark
            /\ Len(files[f]) = written => Len(files'[f]) = written + 1
        <5> DEFINE s == files[f]
                   k == offset[f]
                   t == files'[f]
        <5>1. /\ s \in Seq(Int) /\ k \in Nat /\ k <= Len(s) /\ k = written
              /\ \A i \in 1 .. k : s[i] = runs
              /\ t = IF k = Len(s) THEN Append(s, EndMark) ELSE [s EXCEPT ![k + 1] = EndMark]
          BY <2>1, <2>2, <3>1, <4>2
        <5> HIDE DEF s, k, t
        <5>2. /\ t \in Seq(Int) /\ k + 1 <= Len(t)
              /\ \A i \in 1 .. k : t[i] = runs
              /\ t[k + 1] = EndMark
              /\ Len(s) = k => Len(t) = k + 1
          BY <1>6, <5>1, FileWrite
        <5> QED
          BY <5>1, <5>2 DEF s, t
      <4>4. /\ Whole(f) \in Seq(Int) /\ Len(Whole(f)) = written + 1
            /\ \A i \in 1 .. written : Whole(f)[i] = runs
            /\ Whole(f)[written + 1] = EndMark
        BY <1>2, <3>3, WholeFacts
      <4>5. \A i \in 1 .. written + 1 : i \in 1 .. written \/ i = written + 1
        BY <1>2
      <4>6. \A i \in 1 .. Len(Whole(f)) : Whole(f)[i] = files'[f][i]
        BY <4>3, <4>4, <4>5
      <4>7. IsPrefix(Whole(f), files'[f])
        BY <4>3, <4>4, <4>6, SameStart
      <4>8. runs = 1 => files'[f] = Whole(f)
        BY <2>2, <3>1, <4>3, <4>4, <4>6, SeqEqual
      <4> QED
        BY <1>1, <1>4, <1>5, <1>8, <4>7, <4>8 DEF Finished, FileFinished
    <3> QED
      BY <3>2, <3>3
  <2> QED
    BY <2>4, <2>5 DEF Close
<1> QED
  BY <1>7, <1>8

LEMMA CloseContents ==
    ASSUME ContentInv, UNCHANGED pipes, CloseWriter
    PROVE  Contents'
<1> DEFINE g == Current.file
<1>1. /\ ControlTypeOK
      /\ At("close_writer")
      /\ Close(g, LastWrite(g))
      /\ Continue
      /\ UNCHANGED <<progress, allowed, consumers>>
      /\ g \in Files
  BY AtFacts DEF CloseWriter, Close, ContentInv, AskInv, ControlInv
<1>2. /\ UNCHANGED <<runs, command, outcome>>
      /\ outcome = "running"
      /\ Traces(command)' = Traces(command)
      /\ \A f : Opened(f)' <=> Opened(f)
      /\ \A f : Shut(f)' <=> Shut(f) \/ f = g
      /\ Opened(g) /\ ~ Shut(g)
  BY <1>1, OpenedLater, StepOrder
<1>3. turn = {}
  BY <1>1, AtFacts DEF ContentInv, AskInv, TurnRight
<1> HIDE DEF g
<1>4. SUFFICES ASSUME NEW f \in Traces(command) PROVE Holds(f)'
  BY <1>2 DEF Contents
<1>5. Holds(f) /\ f \in Files
  BY RunsPositive DEF ContentInv, Contents
<1>6. CASE f # g
  <2>1. /\ \/ files' = files
           \/ files' = With(g, Head(LastWrite(g)))
        /\ lost' = lost \/ lost' = lost \cup {g}
        /\ offset' = [offset EXCEPT ![g] = Closed]
        /\ buffered' = [buffered EXCEPT ![g] = <<>>]
    BY <1>1 DEF Close
  <2>2. files'[f] = files[f]
    BY <1>5, <1>6, <2>1 DEF With, ContentInv, DataTypeOK
  <2>3. offset'[f] = offset[f] /\ buffered'[f] = buffered[f] /\ (f \in lost' <=> f \in lost)
    BY <1>5, <1>6, <2>1 DEF ContentInv, DataTypeOK
  <2>4. Emitted(f)' = Emitted(f) /\ UNCHANGED <<written, consumer, received>>
    BY <1>1 DEF progress, consumers, Emitted
  <2> QED
    BY <1>2, <1>5, <1>6, <2>2, <2>3, <2>4, KeepOutput
<1>7. CASE f = g
  <2>1. Filling(f)
    BY <1>2, <1>5, <1>7 DEF Holds
  <2>2. Finished(f)'
    BY <1>1, <1>2, <1>3, <1>7, <2>1, LastWriteContents
  <2> QED
    BY <1>2, <1>7, <2>2 DEF Holds
<1> QED
  BY <1>6, <1>7

LEMMA ConsumerContents ==
    ASSUME ContentInv, UNCHANGED pipes, NEW g \in pipes, Consumes(g) \/ ConsumerDies(g)
    PROVE  Contents'
<1>1. UNCHANGED <<runs, command, step, outcome, written, turn, offset, buffered, lost>>
  BY DEF Consumes, ConsumerOpens, ConsumerReads, ConsumerEnds, ConsumerDies,
         control, progress, streams
<1>2. g \in Files
  BY DEF ContentInv, DataTypeOK
<1>3. /\ Traces(command)' = Traces(command)
      /\ \A f : (Opened(f)' <=> Opened(f)) /\ (Shut(f)' <=> Shut(f))
      /\ \A f : Emitted(f)' = Emitted(f)
      /\ \A f : Whole(f)' = Whole(f)
  BY <1>1, OpenedSame DEF Emitted, Whole, LastWrite
<1>4. SUFFICES ASSUME NEW f \in Traces(command) PROVE Holds(f)'
  BY <1>3 DEF Contents
<1>5. Holds(f) /\ f \in Files /\ runs \in Nat \ {0}
  BY RunsPositive DEF ContentInv, Contents
<1>6. CASE f # g
  <2>1. files'[f] = files[f] /\ received'[f] = received[f] /\ consumer'[f] = consumer[f]
    BY <1>2, <1>5, <1>6
       DEF Consumes, ConsumerOpens, ConsumerReads, ConsumerEnds, ConsumerDies, streams,
           ContentInv, DataTypeOK
  <2> QED
    BY <1>1, <1>3, <1>5, <2>1, KeepOutput
<1>7. CASE f = g
  <2>1. /\ f \in pipes
        /\ files[f] \in Seq(Nat) /\ received[f] \in Seq(Nat)
    BY <1>5, <1>7, ContentTypes
  <2>2. CASE ConsumerOpens(f) \/ ConsumerEnds(f)
    <3>1. /\ files'[f] = files[f] /\ received'[f] = received[f]
          /\ consumer[f] \in {"idle", "reading"} /\ consumer'[f] \in {"opening", "ended"}
          /\ consumer[f] = "reading" => offset[f] = Closed \/ outcome # "running"
      BY <1>5, <2>2 DEF ConsumerOpens, ConsumerEnds, streams, ContentInv, DataTypeOK
    <3>2. CASE Shut(f)
      BY <1>1, <1>3, <1>5, <2>1, <3>1, <3>2 DEF Holds, Finished, PipeFinished
    <3>3. CASE ~ Shut(f) /\ Opened(f)
      BY <1>1, <1>3, <1>5, <2>1, <3>1, <3>3 DEF Holds, Filling, PipeFilling
    <3>4. CASE ~ Shut(f) /\ ~ Opened(f)
      BY <1>1, <1>3, <1>5, <2>1, <3>1, <3>4 DEF Holds, Fresh
    <3> QED
      BY <3>2, <3>3, <3>4
  <2>3. CASE ConsumerReads(f)
    <3>1. /\ consumer[f] = "reading" /\ consumer'[f] = "reading" /\ files[f] # <<>>
          /\ received'[f] = Append(received[f], Head(files[f]))
          /\ files'[f] = Tail(files[f])
      BY <1>5, <2>3 DEF ConsumerReads, ContentInv, DataTypeOK
    <3>2. CASE Shut(f)
      <4>1. received'[f] \o files'[f] = received[f] \o files[f]
        BY <2>1, <3>1, ReadKeepsStream
      <4> QED
        BY <1>1, <1>3, <1>5, <2>1, <3>1, <3>2, <4>1 DEF Holds, Finished, PipeFinished
    <3>3. CASE ~ Shut(f) /\ Opened(f)
      <4>1. Filling(f) /\ PipeFilling(f)
        BY <1>5, <2>1, <3>3 DEF Holds, Filling
      <4>2. /\ Head(files[f]) = runs
            /\ files'[f] \in Seq({runs})
            /\ Len(files'[f]) = Len(files[f]) - 1
        BY <3>1, <4>1, TakeSame DEF PipeFilling
      <4>3. received'[f] \in Seq({runs}) /\ Len(received'[f]) = Len(received[f]) + 1
        BY <3>1, <4>1, <4>2, AppendSame DEF PipeFilling
      <4>4. ASSUME outcome = "running"
            PROVE  Len(received'[f]) + Len(files'[f]) + Len(buffered[f]) = Emitted(f)
        <5> DEFINE a == Len(received[f])
                   b == Len(files[f])
                   c == Len(buffered[f])
                   d == Emitted(f)
        <5>1. a \in Int /\ b \in Int /\ c \in Int
          BY <4>1, LenProperties DEF Filling, PipeFilling
        <5>2. d \in Int
          BY EmittedFacts
        <5>3. a + b + c = d
          BY <3>1, <4>1, <4>4 DEF PipeFilling
        <5> HIDE DEF a, b, c, d
        <5>4. (a + 1) + (b - 1) + c = d
          BY <5>1, <5>2, <5>3
        <5> QED
          BY <4>2, <4>3, <5>4, Zenon DEF a, b, c, d
      <4>5. PipeFilling(f)'
        BY <1>1, <1>3, <3>1, <4>2, <4>3, <4>4 DEF PipeFilling
      <4> QED
        BY <1>1, <1>3, <2>1, <3>3, <4>1, <4>5 DEF Holds, Filling
    <3>4. CASE ~ Shut(f) /\ ~ Opened(f)
      BY <1>5, <2>1, <3>1, <3>4 DEF Holds, Fresh
    <3> QED
      BY <3>2, <3>3, <3>4
  <2>4. CASE ConsumerDies(f)
    <3>1. /\ consumer[f] = "reading" /\ consumer'[f] = "gone"
          /\ received'[f] = received[f] /\ files'[f] = <<>>
      BY <1>5, <2>4 DEF ConsumerDies, ContentInv, DataTypeOK
    <3>2. CASE Shut(f)
      <4>1. received[f] \o files[f] = Whole(f) /\ written \in Nat
        BY <1>5, <2>1, <3>1, <3>2, ContentTypes DEF Holds, Finished, PipeFinished
      <4>2. EndMark \in Range(received[f]) => received[f] = Whole(f)
        BY <1>5, <2>1, <4>1, EndIsLast
      <4> QED
        BY <1>1, <1>3, <1>5, <2>1, <3>1, <3>2, <4>2 DEF Holds, Finished, PipeFinished
    <3>3. CASE ~ Shut(f) /\ Opened(f)
      <4>1. Filling(f) /\ PipeFilling(f) /\ <<>> \in Seq({runs})
        BY <1>5, <2>1, <3>3 DEF Holds, Filling
      <4>2. PipeFilling(f)'
        BY <1>1, <3>1, <4>1 DEF PipeFilling
      <4> QED
        BY <1>1, <1>3, <2>1, <3>3, <4>1, <4>2 DEF Holds, Filling
    <3>4. CASE ~ Shut(f) /\ ~ Opened(f)
      BY <1>1, <1>3, <1>5, <2>1, <3>1, <3>4 DEF Holds, Fresh
    <3> QED
      BY <3>2, <3>3, <3>4
  <2> QED
    BY <1>7, <2>2, <2>3, <2>4 DEF Consumes
<1> QED
  BY <1>6, <1>7

-----------------------------------------------------------------------------

LEMMA InitContents == Init => ContentInv
<1> SUFFICES ASSUME Init PROVE ContentInv
  OBVIOUS
<1>1. AskInv /\ DataTypeOK
  BY InitAsk, InitData
<1>2. FirstRun /\ NoReader
  BY DEF Init, FirstRun, NoReader
<1>3. Contents
  BY FirstCommand DEF Init, Contents
<1> QED
  BY <1>1, <1>2, <1>3 DEF ContentInv

LEMMA NextContents == ContentInv /\ [Next]_vars => ContentInv'
<1> SUFFICES ASSUME ContentInv, [Next]_vars PROVE ContentInv'
  OBVIOUS
<1>1. AskInv' /\ DataTypeOK' /\ ControlInv' /\ ControlTypeOK
  BY NextAsk, NextData DEF ContentInv, AskInv, ControlInv
<1>2. UNCHANGED <<pipes, follower>>
  BY DEF Next, vars
<1>3. ASSUME UNCHANGED <<runs, received>> /\ outcome = "running" PROVE FirstRun' /\ NoReader'
  BY <1>2, <1>3 DEF ContentInv, FirstRun, NoReader
<1>4. ASSUME UNCHANGED <<runs, streams, received, consumer, lost>>,
             UNCHANGED progress \/ NextEntry, outcome = "running",
             UNCHANGED <<command, step>>
      PROVE  Contents' /\ FirstRun' /\ NoReader'
  BY <1>2, <1>3, <1>4, OpenedSame, KeepContents
<1>5. ASSUME UNCHANGED <<runs, streams, received, consumer, lost, progress>>,
             outcome = "running", NEW op, op \notin {"write", "close_writer"}, At(op), Continue
      PROVE  Contents' /\ FirstRun' /\ NoReader'
  <2>1. /\ UNCHANGED command
        /\ \A f : (Opened(f)' <=> Opened(f)) /\ (Shut(f)' <=> Shut(f))
    BY <1>1, <1>5, OpenedLater
  <2> QED
    BY <1>2, <1>3, <1>5, <2>1, KeepContents
<1>6. ASSUME NEW name \in Names, Start(name) PROVE Contents' /\ FirstRun' /\ NoReader'
  <2>1. FirstRun' /\ NoReader'
    BY <1>2, <1>6 DEF Start, FirstRun, NoReader, ContentInv, AskInv, ControlInv, ControlTypeOK
  <2> QED
    BY <1>1, <1>2, <1>6, <2>1, StartContents
<1>7. CASE Check
  <2>1. PICK op \in {"refuse", "confirm"} : At(op)
    BY <1>7 DEF Check
  <2>2. UNCHANGED <<streams, received, consumer, lost, progress>> /\ outcome = "running"
    BY <1>7 DEF Check, At, consumers
  <2>3. CASE Continue
    <3>1. UNCHANGED runs
      BY <2>3 DEF Continue
    <3> QED
      BY <1>1, <1>5, <2>1, <2>2, <2>3, <3>1 DEF ContentInv
  <2>4. CASE Quit
    BY <1>1, <1>4, <2>2, <2>4 DEF Quit, Exit, ContentInv
  <2> QED
    BY <1>7, <2>3, <2>4 DEF Check
<1>8. CASE OpenReader
  <2>1. UNCHANGED <<runs, streams, received, consumer, lost, progress>>
        /\ outcome = "running" /\ At("read") /\ Continue
    BY <1>8 DEF OpenReader, CountReader, Continue, At, consumers
  <2> QED
    BY <1>1, <1>5, <2>1 DEF ContentInv
<1>9. CASE EndOfInput \/ CloseReader
  <2>1. /\ UNCHANGED <<streams, received, consumer, lost, progress>> /\ outcome = "running"
        /\ Continue /\ UNCHANGED runs
        /\ At("loop") \/ At("close_reader")
    BY <1>9 DEF EndOfInput, CloseReader, At, Continue, consumers
  <2> QED
    BY <1>1, <1>5, <2>1 DEF ContentInv
<1>10. CASE (Fail /\ ~ WriterFails) \/ BrokenPipe \/ Return
  <2>1. /\ UNCHANGED <<runs, command, step, streams, received, consumer, lost, progress>>
        /\ outcome = "running"
    BY <1>10, FailFacts
       DEF BrokenPipe, Return, Exit, Killed, At, AtOutput, streams, progress, consumers
  <2> QED
    BY <1>1, <1>4, <2>1 DEF ContentInv
<1>11. CASE NextEntry
  <2>1. UNCHANGED <<runs, command, step, streams, received, consumer, lost>>
        /\ outcome = "running"
    BY <1>11 DEF NextEntry, At, control, consumers
  <2> QED
    BY <1>1, <1>4, <1>11, <2>1 DEF ContentInv
<1>12. CASE OpenWriter \/ WriterFails
  <2>1. UNCHANGED <<runs, received>> /\ outcome = "running"
    BY <1>12 DEF OpenWriter, WriterFails, CountWriter, At, StartsAt0, Continue, Killed
  <2> QED
    BY <1>1, <1>2, <1>3, <1>12, <2>1, OpenContents DEF ContentInv
<1>13. CASE CreateFile \/ SaveFile
  <2>1. /\ UNCHANGED <<runs, received, command>> /\ outcome = "running"
        /\ At("create") \/ At("save")
    BY <1>13 DEF CreateFile, SaveFile, At, StartsAt0, Close, Continue, consumers
  <2>2. Contents'
    BY <1>1, <2>1, TableAlone DEF Contents, Traces, Steps
  <2> QED
    BY <1>1, <1>3, <2>1, <2>2 DEF ContentInv
<1>14. CASE Emit
  <2>1. UNCHANGED <<runs, received>> /\ outcome = "running"
    BY <1>14 DEF Emit, At, control, consumers
  <2> QED
    BY <1>1, <1>2, <1>3, <1>14, <2>1, EmitContents DEF ContentInv
<1>15. ASSUME NEW f \in Files, Flush(f) PROVE ContentInv'
  <2>1. UNCHANGED <<runs, received>> /\ outcome = "running"
    BY <1>15 DEF Flush, AtOutput, At, control, consumers
  <2> QED
    BY <1>1, <1>2, <1>3, <1>15, <2>1, FlushContents DEF ContentInv
<1>16. CASE CloseWriter
  <2>1. UNCHANGED <<runs, received>> /\ outcome = "running"
    BY <1>16 DEF CloseWriter, Close, Continue, At, consumers
  <2> QED
    BY <1>1, <1>2, <1>3, <1>16, <2>1, CloseContents DEF ContentInv
<1>17. ASSUME NEW f \in pipes, Consumes(f) \/ ConsumerDies(f) PROVE ContentInv'
  <2>1. /\ UNCHANGED <<runs, command, outcome>>
        /\ \A g \in Files \ pipes : files'[g] = files[g] /\ received'[g] = received[g]
    BY <1>17 DEF Consumes, ConsumerOpens, ConsumerReads, ConsumerEnds, ConsumerDies,
          control, streams, ContentInv, DataTypeOK
  <2>2. FirstRun' /\ NoReader'
    BY <1>2, <2>1 DEF ContentInv, FirstRun, NoReader
  <2> QED
    BY <1>1, <1>2, <1>17, <2>2, ConsumerContents DEF ContentInv
<1>18. CASE UNCHANGED vars
  <2>1. FirstRun' /\ NoReader'
    BY <1>18 DEF vars, control, streams, consumers, ContentInv, FirstRun, NoReader
  <2>2. Contents'
    BY <1>18, OpenedSame, KeepContents DEF vars, control, consumers
  <2> QED
    BY <1>1, <2>1, <2>2 DEF ContentInv
<1> QED
  BY <1>1, <1>6, <1>7, <1>8, <1>9, <1>10, <1>11, <1>12, <1>13, <1>14, <1>15, <1>16, <1>17, <1>18
     DEF Next, Command, ContentInv

\* Where the entries of an execution are, from trace_writer_open to
\* trace_writer_close (io.c): held back, in a FIFO, in the file or with its reader.
THEOREM ContentsInvariance == Spec => []ContentInv
BY InitContents, NextContents, PTL DEF Spec

\* At the end of a handler everything is closed.
LEMMA DoneIsShut ==
    ASSUME ContentInv, outcome = "done", NEW f \in Traces(command)
    PROVE  Shut(f)
<1>1. ControlTypeOK /\ step = Len(TheHandler) + 1
  BY DEF ContentInv, AskInv, ControlInv, AbortRight
<1>2. PICK n \in 1 .. Len(TheHandler) : TheHandler[n] = Step("write", f)
  BY TracesFacts
<1>3. Len(TheHandler) \in Nat /\ ClosesAll(TheHandler) /\ f \in Files
  BY <1>1, HandlerFacts, RunsPositive
<1>4. Before(TheHandler, Len(TheHandler) + 1, Step("write", f))
  BY <1>2, <1>3 DEF Before
<1> QED
  BY <1>1, <1>3, <1>4 DEF ClosesAll, Shut, Did

\* When a command ran to its end, trace_writer_close has written the whole trace to
\* each of its outputs, but for what fclose could not write to a file.
THEOREM DoneOutputsHoldTrace == Spec => []OutputsHoldTrace
<1>1. ContentInv => OutputsHoldTrace
  <2> SUFFICES ASSUME ContentInv, outcome = "done", NEW f \in Traces(command) \ lost
               PROVE  IF f \in pipes THEN consumer[f] # "gone" => Stream(f) = Whole(f)
                      ELSE IsPrefix(Whole(f), files[f])
    BY DEF OutputsHoldTrace
  <2>1. f \in Files
    BY RunsPositive
  <2>2. Finished(f)
    BY DoneIsShut DEF ContentInv, Contents, Holds
  <2>3. f \in pipes => files[f] # Absent
    BY <2>1, ContentTypes, NumbersPresent
  <2> QED
    BY <2>2, <2>3 DEF Finished, PipeFinished, FileFinished, Stream
<1> QED
  BY <1>1, ContentsInvariance, PTL

\* lz4_writer_close writes the end of the frame last: a new output that has it
\* has all entries before it, whatever fails and whoever dies.
THEOREM FrameEndMeansWhole == Spec => []EndMarkMeansWhole
<1>1. ContentInv => EndMarkMeansWhole
  <2> SUFFICES ASSUME ContentInv, NEW f \in Traces(command), f \in pipes \/ runs = 1,
                      EndMark \in Range(Stream(f))
               PROVE  Stream(f) = Whole(f)
    BY DEF EndMarkMeansWhole
  <2>1. /\ f \in Files /\ runs \in Nat \ {0} /\ written \in Nat
        /\ files[f] \in Seq(Int) /\ received[f] \in Seq(Nat)
        /\ Holds(f)
    BY RunsPositive, ContentTypes DEF ContentInv, Contents
  <2>2. \A s \in Seq({runs}) : EndMark \notin Range(s)
    BY <2>1 DEF Range, EndMark
  <2>3. Range(<<>>) = {}
    BY DEF Range
  <2>4. CASE f \in pipes
    <3>1. files[f] \in Seq(Nat) /\ files[f] # Absent
      BY <2>1, <2>4, ContentTypes, NumbersPresent
    <3>2. Stream(f) = received[f] \o files[f]
      BY <3>1 DEF Stream
    <3>3. CASE Shut(f)
      <4>1. CASE consumer[f] = "gone"
        <5>1. files[f] = <<>>
          BY <2>1, <2>4, <3>3, <4>1 DEF Holds, Finished, PipeFinished
        <5>2. Stream(f) = received[f]
          BY <2>1, <3>2, <5>1, ConcatEmptySeq
        <5> QED
          BY <2>1, <2>4, <3>3, <4>1, <5>2 DEF Holds, Finished, PipeFinished
      <4>2. CASE consumer[f] # "gone"
        BY <2>1, <2>4, <3>2, <3>3, <4>2 DEF Holds, Finished, PipeFinished
      <4> QED
        BY <4>1, <4>2
    <3>4. CASE ~ Shut(f) /\ Opened(f)
      <4>1. received[f] \in Seq({runs}) /\ files[f] \in Seq({runs})
        BY <2>1, <2>4, <3>4 DEF Holds, Filling, PipeFilling
      <4>2. Stream(f) \in Seq({runs})
        BY <3>2, <4>1, ConcatProperties
      <4> QED
        BY <2>2, <4>2
    <3>5. CASE ~ Shut(f) /\ ~ Opened(f)
      <4>1. Stream(f) = <<>>
        BY <2>1, <2>4, <3>2, <3>5, ConcatEmptySeq DEF Holds, Fresh
      <4> QED
        BY <2>3, <4>1
    <3> QED
      BY <3>3, <3>4, <3>5
  <2>5. CASE f \notin pipes
    <3>1. received[f] = <<>> /\ runs = 1
      BY <2>1, <2>5 DEF ContentInv, NoReader
    <3>2. CASE files[f] = Absent
      <4>1. Stream(f) = <<>>
        BY <3>1, <3>2, NumberSeqs, ConcatEmptySeq DEF Stream
      <4> QED
        BY <2>3, <4>1
    <3>3. CASE files[f] # Absent
      <4>1. Stream(f) = files[f]
        BY <2>1, <3>1, <3>3, ConcatEmptySeq DEF Stream
      <4>2. CASE Shut(f)
        BY <2>1, <2>5, <3>1, <4>1, <4>2 DEF Holds, Finished, FileFinished
      <4>3. CASE ~ Shut(f) /\ Opened(f)
        <5>1. FileFilling(f)
          BY <2>1, <2>5, <4>3 DEF Holds, Filling
        <5>2. \A i \in 1 .. Len(files[f]) : files[f][i] = runs
          BY <3>1, <5>1 DEF FileFilling
        <5>3. DOMAIN files[f] = 1 .. Len(files[f])
          BY <2>1, LenProperties
        <5>4. EndMark \notin Range(files[f])
          BY <2>1, <5>2, <5>3 DEF Range, EndMark
        <5> QED
          BY <4>1, <5>4
      <4>4. CASE ~ Shut(f) /\ ~ Opened(f)
        <5>1. runs = 1 /\ f \notin pipes
          BY <2>5
        <5>2. files[f] \in {Absent, <<>>}
          BY <2>1, <4>4, <5>1 DEF Holds, Fresh
        <5> QED
          BY <2>3, <3>3, <4>1, <5>2
      <4> QED
        BY <4>2, <4>3, <4>4
    <3> QED
      BY <3>2, <3>3
  <2> QED
    BY <2>4, <2>5
<1> QED
  BY <1>1, ContentsInvariance, PTL

-----------------------------------------------------------------------------
(* split and readers that wait for each other *)

\* A reader that waits for the other one opens its FIFO after it is done.
FollowerWaits ==
    follower = "b" /\ "a" \in pipes /\ consumer["b"] # "idle" =>
      consumer["a"] \in {"ended", "gone"}

\* By then the other one was killed, or it would still be reading: nothing that
\* is held back for it can be written.
SplitBlocked ==
    command = "split" /\ pipes = Files /\ follower = "b" /\ outcome \in {"running", "done"} =>
      IF Shut("a") THEN written = 0 /\ LastWrite("a") = <<>>
      ELSE Opened("b") => consumer["a"] = "gone" /\ Len(buffered["a"]) = Emitted("a")

SplitInv == ContentInv /\ FollowerWaits /\ SplitBlocked

LEMMA SplitTraces == "a" \in Traces("split") /\ "b" \in Traces("split")
<1>1. Handler("split") = Split
  BY DEF Handler
<1>2. Len(Split) = 9 /\ Split[4] = Step("write", "a") /\ Split[5] = Step("write", "b")
  BY DEF Split
<1>3. Step("write", "a") \in Steps("split") /\ Step("write", "b") \in Steps("split")
  BY <1>1, <1>2 DEF Steps
<1> QED
  BY <1>3 DEF Traces, Files

LEMMA SplitOrder ==
    ASSUME ControlTypeOK, command = "split", NEW op, At(op)
    PROVE  /\ op = "write" => ~ Opened("b") /\ ~ Shut("a")
           /\ op = "write" /\ Current.file = "b" => Opened("a")
           /\ op = "close_writer" /\ Current.file = "a" => Opened("b")
<1>1. TheHandler = Split
  BY DEF Handler, TheHandler
<1>2. /\ Len(Split) = 9
      /\ Split[1] = Step("confirm", "a") /\ Split[2] = Step("confirm", "b")
      /\ Split[3] = Input("read") /\ Split[4] = Step("write", "a")
      /\ Split[5] = Step("write", "b") /\ Split[6] = Input("loop")
      /\ Split[7] = Input("close_reader") /\ Split[8] = Step("close_writer", "a")
      /\ Split[9] = Step("close_writer", "b")
  BY DEF Split
<1>3. step \in 1 .. 9 /\ Split[step] = Step(op, Current.file)
  BY <1>1, <1>2, AtFacts
<1>4. op = "write" => step \in {4, 5}
  BY <1>2, <1>3 DEF Step, Input
<1>5. op = "write" /\ Current.file = "b" => step = 5
  BY <1>2, <1>3 DEF Step, Input
<1>6. op = "close_writer" /\ Current.file = "a" => step = 8
  BY <1>2, <1>3 DEF Step, Input
<1>7. step \in {4, 5} => \A j \in 1 .. step - 1 : j \in {1, 2, 3, 4}
  OBVIOUS
<1>8. op = "write" => ~ Opened("b") /\ ~ Shut("a")
  BY <1>1, <1>2, <1>4, <1>7 DEF Opened, Shut, Did, Before, Step, Input
<1>9. step = 5 => 4 \in 1 .. step - 1
  OBVIOUS
<1>10. step = 8 => 5 \in 1 .. step - 1
  OBVIOUS
<1> QED
  BY <1>1, <1>2, <1>5, <1>6, <1>8, <1>9, <1>10 DEF Opened, Did, Before

LEMMA NextFollower ==
    ASSUME ContentInv, FollowerWaits, [Next]_vars
    PROVE  FollowerWaits'
<1>1. UNCHANGED <<pipes, follower>> /\ DataTypeOK
  BY DEF Next, vars, ContentInv
<1>2. SUFFICES ASSUME follower = "b", "a" \in pipes, consumer'["b"] # "idle"
               PROVE  consumer'["a"] \in {"ended", "gone"}
  BY <1>1 DEF FollowerWaits
<1>3. consumer \in [Files -> ConsumerStates] /\ "a" \in Files /\ "b" \in Files
  BY <1>1 DEF DataTypeOK, Files
<1>4. CASE UNCHANGED consumer
  BY <1>2, <1>4 DEF FollowerWaits
<1>5. ASSUME NEW name \in Names, Start(name) PROVE FALSE
  BY <1>2, <1>3, <1>5 DEF Start
<1>6. ASSUME NEW g \in Files, Opens(g) PROVE consumer'["a"] \in {"ended", "gone"}
  BY <1>2, <1>3, <1>6 DEF Opens, FollowerWaits
<1>7. CASE OpenWriter \/ WriterFails \/ CreateFile
  <2>1. Current.file \in Files
    BY <1>7, AtFacts
       DEF OpenWriter, WriterFails, CountWriter, CreateFile, ContentInv, AskInv, ControlInv
  <2>2. Opens(Current.file)
    BY <1>7 DEF OpenWriter, WriterFails, OpensKeeping, CreateFile
  <2> QED
    BY <1>6, <2>1, <2>2
<1>8. ASSUME NEW g \in pipes, Consumes(g) \/ ConsumerDies(g)
      PROVE  consumer'["a"] \in {"ended", "gone"}
  <2>1. g \in Files
    BY <1>1, <1>8 DEF DataTypeOK
  <2>2. CASE ConsumerOpens(g)
    <3>1. /\ consumer[g] = "idle" /\ consumer' = [consumer EXCEPT ![g] = "opening"]
          /\ g = "b" => consumer["a"] \in {"ended", "gone"}
      BY <1>2, <2>2 DEF ConsumerOpens
    <3> QED
      BY <1>2, <1>3, <2>1, <3>1 DEF FollowerWaits
  <2>3. CASE ConsumerEnds(g) \/ ConsumerDies(g)
    <3>1. /\ consumer[g] = "reading"
          /\ \/ consumer' = [consumer EXCEPT ![g] = "ended"]
             \/ consumer' = [consumer EXCEPT ![g] = "gone"]
      BY <2>3 DEF ConsumerEnds, ConsumerDies
    <3> QED
      BY <1>2, <1>3, <2>1, <3>1 DEF FollowerWaits
  <2>4. CASE ConsumerReads(g)
    BY <1>4, <2>4 DEF ConsumerReads
  <2> QED
    BY <1>8, <2>2, <2>3, <2>4 DEF Consumes
<1>9. ASSUME NEW f \in Files, Flush(f) PROVE UNCHANGED consumer
  BY <1>9 DEF Flush, consumers
<1>10. CASE Check \/ OpenReader \/ NextEntry \/ Emit \/ EndOfInput \/ CloseReader \/ CloseWriter
            \/ SaveFile \/ BrokenPipe \/ Return \/ UNCHANGED vars
  BY <1>4, <1>10 DEF Check, OpenReader, NextEntry, Emit, EndOfInput, CloseReader, CloseWriter,
        SaveFile, Close, BrokenPipe, Return, vars, consumers
<1>11. CASE Fail
  BY <1>4, <1>7, <1>11, FailFacts
<1> QED
  BY <1>4, <1>5, <1>7, <1>8, <1>9, <1>10, <1>11 DEF Next, Command

LEMMA KeepBlocked ==
    ASSUME SplitBlocked, UNCHANGED <<pipes, follower, command, progress>>,
           outcome' \in {"running", "done"} => outcome \in {"running", "done"},
           Opened("b")' <=> Opened("b"), Shut("a")' <=> Shut("a"),
           buffered'["a"] = buffered["a"],
           consumer["a"] = "gone" => consumer'["a"] = "gone"
    PROVE  SplitBlocked'
<1>1. Emitted("a")' = Emitted("a") /\ LastWrite("a")' = LastWrite("a")
  BY DEF progress, Emitted, LastWrite
<1> QED
  BY <1>1 DEF SplitBlocked, progress

LEMMA OpenBlocked ==
    ASSUME SplitInv, UNCHANGED <<pipes, follower>>, OpenWriter
    PROVE  SplitBlocked'
<1>1. /\ ControlTypeOK /\ DataTypeOK /\ ContentInv
      /\ At("write") /\ Current.file \in Files
      /\ UNCHANGED <<progress, buffered>>
  BY AtFacts DEF OpenWriter, CountWriter, SplitInv, ContentInv, AskInv, ControlInv
<1>2. SUFFICES ASSUME command' = "split", pipes = Files, follower = "b"
               PROVE  ~ Shut("a")' /\
                      (Opened("b")' =>
                         consumer'["a"] = "gone" /\ Len(buffered'["a"]) = Emitted("a")')
  BY DEF SplitBlocked
<1>3. /\ Continue
      /\ Current.file \in pipes => consumer[Current.file] = "opening"
      /\ consumer' = IF Current.file \in pipes
                     THEN [consumer EXCEPT ![Current.file] = "reading"] ELSE consumer
  BY DEF OpenWriter, OpensKeeping, Opens, StartsAt0
<1>4. /\ command = "split" /\ outcome = "running"
      /\ \A f : Opened(f)' <=> Opened(f) \/ f = Current.file
      /\ \A f : Shut(f)' <=> Shut(f)
  BY <1>1, <1>2, <1>3, OpenedLater
<1>5. ~ Opened("b") /\ ~ Shut("a") /\ (Current.file = "b" => Opened("a"))
  BY <1>1, <1>4, SplitOrder
<1>6. CASE Current.file = "a"
  BY <1>4, <1>5, <1>6
<1>7. CASE Current.file = "b"
  <2>1. "a" \in Traces(command) /\ "b" \in Traces(command) /\ "a" \in Files /\ "b" \in Files
    BY <1>4, SplitTraces DEF Files
  <2>2. Filling("a")
    BY <1>1, <1>5, <1>7, <2>1 DEF ContentInv, Contents, Holds
  <2>3. consumer["a"] \in {"reading", "gone"}
    BY <1>2, <1>4, <2>1, <2>2 DEF Filling, PipeFilling
  <2>4. consumer["a"] \in {"ended", "gone"}
    BY <1>2, <1>3, <1>7, <2>1 DEF SplitInv, FollowerWaits
  <2>5. consumer'["a"] = "gone"
    BY <1>1, <1>3, <1>7, <2>1, <2>3, <2>4 DEF DataTypeOK
  <2>6. Shut("b") => Opened("b")
    BY <1>1, <2>1 DEF ContentInv, Contents, Holds
  <2>7. Fresh("b")
    BY <1>1, <1>5, <2>1, <2>6 DEF ContentInv, Contents, Holds
  <2>8. turn = {} /\ written = 0
    BY <1>1, <2>7, AtFacts DEF ContentInv, AskInv, TurnRight, Fresh
  <2>9. Emitted("a") = 0
    BY <1>1, <2>8, EmittedFacts
  <2>10. Len(buffered["a"]) \in Nat
    BY <2>2, LenProperties DEF Filling
  <2>11. Len(buffered["a"]) = Emitted("a")
    BY <2>2, <2>9, <2>10 DEF Filling
  <2>12. Emitted("a")' = Emitted("a")
    BY <1>1 DEF Emitted, progress
  <2> QED
    BY <1>1, <1>4, <1>5, <2>5, <2>11, <2>12
<1> QED
  BY <1>1, <1>6, <1>7 DEF Files

\* At the loop both outputs are open.
LEMMA LoopBlocked ==
    ASSUME SplitInv, UNCHANGED <<pipes, follower>>, NextEntry \/ Emit
    PROVE  SplitBlocked'
<1>1. /\ ControlTypeOK /\ DataTypeOK /\ ContentInv /\ At("loop")
      /\ UNCHANGED <<command, step, outcome, consumer>>
  BY DEF NextEntry, Emit, SplitInv, ContentInv, AskInv, ControlInv, control, consumers
<1>2. SUFFICES ASSUME command = "split", pipes = Files, follower = "b",
                      outcome \in {"running", "done"}
               PROVE  ~ Shut("a")' /\ consumer'["a"] = "gone"
                      /\ Len(buffered'["a"]) = Emitted("a")'
  BY <1>1 DEF SplitBlocked
<1>3. "a" \in Traces(command) /\ "b" \in Traces(command) /\ "a" \in Files
  BY <1>2, SplitTraces DEF Files
<1>4. Opened("a") /\ Opened("b") /\ ~ Shut("a")
  BY <1>1, <1>3, LoopFacts
<1>5. consumer["a"] = "gone" /\ Len(buffered["a"]) = Emitted("a")
  BY <1>2, <1>4 DEF SplitInv, SplitBlocked
<1>6. ~ Shut("a")' /\ consumer'["a"] = "gone"
  BY <1>1, <1>4, <1>5, OpenedSame
<1>7. written \in Nat
  BY <1>1 DEF DataTypeOK
<1>8. CASE NextEntry
  <2>1. Filling("a")
    BY <1>1, <1>3, <1>4 DEF ContentInv, Contents, Holds
  <2>2. turn = {} /\ turn' = Open /\ written' = written + 1 /\ buffered' = buffered
    BY <1>8 DEF NextEntry, streams
  <2>3. "a" \in turn' /\ "a" \notin turn
    BY <1>3, <2>1, <2>2 DEF Open, Filling
  <2>4. Emitted("a")' = written' - 1
    BY <2>3 DEF Emitted
  <2>5. Emitted("a") = written
    BY <1>1, <2>3, EmittedFacts
  <2>6. Emitted("a")' = Emitted("a")
    BY <1>7, <2>2, <2>4, <2>5
  <2> QED
    BY <1>5, <1>6, <2>2, <2>6
<1>9. CASE Emit
  <2>1. /\ turn' = turn \ {NextOutput} /\ written' = written
        /\ buffered' = [buffered EXCEPT ![NextOutput] = Append(@, runs)]
        /\ NextOutput = IF "a" \in turn THEN "a" ELSE "b"
    BY <1>9 DEF Emit, NextOutput
  <2>2. CASE "a" \in turn
    <3>1. "a" \notin turn' /\ buffered'["a"] = Append(buffered["a"], runs)
      BY <1>1, <1>3, <2>1, <2>2 DEF DataTypeOK
    <3>2. Emitted("a")' = written' - 0
      BY <3>1 DEF Emitted
    <3>3. Emitted("a") = written - 1
      BY <1>1, <2>2, EmittedFacts
    <3>4. buffered["a"] \in Seq(Nat) /\ runs \in Nat
      BY <1>1, <1>3, ContentTypes
    <3>5. Len(buffered'["a"]) = Len(buffered["a"]) + 1
      BY <3>1, <3>4, SeqFacts
    <3>6. Len(buffered'["a"]) = Emitted("a")'
      BY <1>5, <1>7, <2>1, <3>2, <3>3, <3>5
    <3> QED
      BY <1>6, <3>6
  <2>3. CASE "a" \notin turn
    <3>1. buffered'["a"] = buffered["a"]
      BY <1>1, <1>3, <2>1, <2>3 DEF DataTypeOK
    <3>2. Emitted("a")' = Emitted("a")
      BY <2>1, <2>3 DEF Emitted
    <3> QED
      BY <1>5, <1>6, <3>1, <3>2
  <2> QED
    BY <2>2, <2>3
<1> QED
  BY <1>8, <1>9

LEMMA FlushBlocked ==
    ASSUME SplitInv, UNCHANGED <<pipes, follower>>, NEW g \in Files, Flush(g)
    PROVE  SplitBlocked'
<1>1. /\ ControlTypeOK /\ DataTypeOK /\ ContentInv
      /\ AtOutput(g) /\ Writable(g)
      /\ buffered' = [buffered EXCEPT ![g] = Tail(@)]
      /\ UNCHANGED <<command, step, outcome, consumer, progress>>
  BY DEF Flush, SplitInv, ContentInv, AskInv, ControlInv, control, consumers
<1>2. CASE g = "b"
  <2>1. buffered'["a"] = buffered["a"]
    BY <1>1, <1>2 DEF DataTypeOK, Files
  <2> QED
    BY <1>1, <2>1, OpenedSame, KeepBlocked DEF SplitInv
<1>3. CASE g = "a"
  <2>1. SUFFICES ASSUME command = "split", pipes = Files, follower = "b",
                        outcome \in {"running", "done"}
                 PROVE  FALSE
    BY <1>1 DEF SplitBlocked
  <2>2. ~ Shut("a")
    BY <1>1, <1>3, AtOutputFacts DEF ContentInv
  <2>3. Opened("b")
    <3>1. CASE At("loop")
      BY <1>1, <2>1, <3>1, SplitTraces, LoopFacts
    <3>2. CASE At("close_writer") /\ Current.file = "a"
      BY <1>1, <2>1, <3>2, SplitOrder
    <3> QED
      BY <1>1, <1>3, <3>1, <3>2 DEF AtOutput
  <2>4. consumer["a"] = "gone"
    BY <2>1, <2>2, <2>3 DEF SplitInv, SplitBlocked
  <2> QED
    BY <1>1, <1>3, <2>1, <2>4 DEF Writable, Broken
<1> QED
  BY <1>2, <1>3 DEF Files

LEMMA CloseBlocked ==
    ASSUME SplitInv, UNCHANGED <<pipes, follower>>, CloseWriter
    PROVE  SplitBlocked'
<1> DEFINE g == Current.file
<1>1. /\ ControlTypeOK /\ DataTypeOK /\ ContentInv
      /\ At("close_writer") /\ g \in Files
      /\ Close(g, LastWrite(g)) /\ Continue
      /\ buffered' = [buffered EXCEPT ![g] = <<>>]
      /\ UNCHANGED <<consumer, progress>>
  BY AtFacts DEF CloseWriter, Close, SplitInv, ContentInv, AskInv, ControlInv, consumers
<1>2. /\ UNCHANGED <<command, outcome>> /\ outcome = "running"
      /\ Opened("b")' <=> Opened("b")
      /\ Shut("a")' <=> Shut("a") \/ g = "a"
      /\ ~ Shut(g)
  BY <1>1, OpenedLater, StepOrder
<1>3. CASE g = "b"
  <2>1. buffered'["a"] = buffered["a"]
    BY <1>1, <1>3 DEF DataTypeOK, Files
  <2> QED
    BY <1>1, <1>2, <1>3, <2>1, KeepBlocked DEF SplitInv
<1>4. CASE g = "a"
  <2>1. SUFFICES ASSUME command = "split", pipes = Files, follower = "b"
                 PROVE  written' = 0 /\ LastWrite("a")' = <<>>
    BY <1>2, <1>4 DEF SplitBlocked
  <2>2. Opened("b")
    BY <1>1, <1>4, <2>1, SplitOrder
  <2>3. consumer["a"] = "gone" /\ Len(buffered["a"]) = Emitted("a")
    BY <1>2, <1>4, <2>1, <2>2 DEF SplitInv, SplitBlocked
  <2>4. buffered["a"] = <<>> /\ LastWrite("a") = <<>>
    BY <1>1, <1>4, <2>1, <2>3 DEF Close, Emptied, HoldsBack, Writable, Broken
  <2>5. turn = {}
    BY <1>1, AtFacts DEF ContentInv, AskInv, TurnRight
  <2>6. Emitted("a") = written
    BY <1>1, <2>5, EmittedFacts
  <2>7. Len(<<>>) = 0
    OBVIOUS
  <2>8. written = 0
    BY <2>3, <2>4, <2>6, <2>7
  <2>9. LastWrite("a")' = LastWrite("a")
    BY DEF LastWrite
  <2> QED
    BY <1>1, <2>4, <2>8, <2>9 DEF progress
<1> QED
  BY <1>1, <1>3, <1>4 DEF Files

LEMMA NextBlocked ==
    ASSUME SplitInv, [Next]_vars
    PROVE  SplitBlocked'
<1>1. UNCHANGED <<pipes, follower>> /\ DataTypeOK /\ ContentInv /\ ControlTypeOK /\ SplitBlocked
  BY DEF Next, vars, SplitInv, ContentInv, AskInv, ControlInv
<1>2. ASSUME NEW name \in Names, Start(name) PROVE SplitBlocked'
  <2>1. \A s : ~ Did(s)'
    BY <1>2 DEF Start, Did, Before
  <2> QED
    BY <2>1 DEF SplitBlocked, Opened, Shut
<1>3. ASSUME NEW op, op \notin {"write", "close_writer"}, At(op), Continue,
             UNCHANGED <<progress, buffered, consumer>>
      PROVE  SplitBlocked'
  BY <1>1, <1>3, OpenedLater, KeepBlocked
<1>4. CASE Check \/ OpenReader \/ EndOfInput \/ CloseReader
  <2>1. /\ UNCHANGED <<progress, buffered, consumer>>
        /\ Continue \/ Quit
        /\ At("refuse") \/ At("confirm") \/ At("read") \/ At("loop") \/ At("close_reader")
    BY <1>4 DEF Check, OpenReader, CountReader, EndOfInput, CloseReader, streams, consumers
  <2>2. CASE Quit
    BY <2>2 DEF Quit, Exit, SplitBlocked
  <2> QED
    BY <1>3, <2>1, <2>2
<1>5. CASE CreateFile \/ SaveFile
  <2>1. command' = command /\ (At("create") \/ At("save"))
    BY <1>5 DEF CreateFile, SaveFile, StartsAt0, Close, Continue
  <2>2. Traces(command) = {}
    BY <1>1, <2>1, TableAlone
  <2> QED
    BY <2>1, <2>2, SplitTraces DEF SplitBlocked
<1>6. CASE Return \/ BrokenPipe
  <2>1. /\ UNCHANGED <<command, step, progress, buffered, consumer>>
        /\ outcome = "running"
    BY <1>6 DEF Return, BrokenPipe, Exit, Killed, At, AtOutput, streams, consumers
  <2> QED
    BY <1>1, <2>1, OpenedSame, KeepBlocked
<1>7. ASSUME NEW g \in pipes, Consumes(g) \/ ConsumerDies(g) PROVE SplitBlocked'
  <2>1. UNCHANGED <<command, step, outcome, progress, buffered>>
    BY <1>7 DEF Consumes, ConsumerOpens, ConsumerReads, ConsumerEnds, ConsumerDies,
          control, streams
  <2>2. consumer["a"] = "gone" => consumer'["a"] = "gone"
    BY <1>1, <1>7 DEF Consumes, ConsumerOpens, ConsumerReads, ConsumerEnds, ConsumerDies,
          DataTypeOK, Files
  <2> QED
    BY <1>1, <2>1, <2>2, OpenedSame, KeepBlocked
<1>8. CASE UNCHANGED vars
  BY <1>1, <1>8, OpenedSame, KeepBlocked DEF vars, control, streams, consumers
<1>9. CASE Fail
  BY <1>9, FailFacts DEF SplitBlocked
<1> QED
  BY <1>1, <1>2, <1>4, <1>5, <1>6, <1>7, <1>8, <1>9, OpenBlocked, LoopBlocked, FlushBlocked,
     CloseBlocked DEF Next, Command

\* trace_split opens both outputs before it writes: a reader of the second FIFO
\* that waits for that of the first keeps it from getting through.
THEOREM SplitWaitsForBoth == Spec => []SplitNeedsBothReaders
<1>1. Init => SplitInv
  <2> SUFFICES ASSUME Init PROVE SplitInv
    OBVIOUS
  <2>1. FollowerWaits /\ SplitBlocked
    BY DEF Init, FollowerWaits, SplitBlocked, Files
  <2> QED
    BY <2>1, InitContents DEF SplitInv
<1>2. SplitInv /\ [Next]_vars => SplitInv'
  BY NextContents, NextFollower, NextBlocked DEF SplitInv
<1>3. SplitInv => SplitNeedsBothReaders
  <2> SUFFICES ASSUME SplitInv, outcome = "done", command = "split", pipes = Files,
                      written > 0 \/ LastWrite("a") # <<>>, follower # ""
               PROVE  FALSE
    BY DEF SplitNeedsBothReaders
  <2>1. follower = "b" /\ written \in Nat
    BY DEF SplitInv, ContentInv, DataTypeOK
  <2>2. Shut("a")
    BY SplitTraces, DoneIsShut DEF SplitInv
  <2>3. written = 0 /\ LastWrite("a") = <<>>
    BY <2>1, <2>2 DEF SplitInv, SplitBlocked
  <2> QED
    BY <2>1, <2>3
<1> QED
  BY <1>1, <1>2, <1>3, PTL DEF Spec
=============================================================================
