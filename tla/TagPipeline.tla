---------------------------- MODULE TagPipeline ----------------------------
(***************************************************************************)
(* The three commands that turn a trace into statistics of tags:           *)
(* get-initial-state reads the trace of a machine and writes the initial   *)
(* state file; simulate reads the trace again and writes requests; the     *)
(* statistics read both.  The simulator is TagMemory, what the caches are  *)
(* shown to implement; that it sends a request for a line, at a time of    *)
(* its own, with what it knows of the line, is checked of TracedExecution. *)
(* A request is accounted for before the trace goes on: the statistics     *)
(* depend on the requests and not on when they come.                       *)
(***************************************************************************)
EXTENDS InitialAccesses, RequestStats, Sequences

CONSTANT MaxEntries   \* bound: entries of the trace

VARIABLES
  trace,      \* the entries of the trace
  position,   \* how many of them the command has read
  stage,      \* "scan" or "simulate"
  initial,    \* line -> tagged granules when the trace starts
  memory,     \* line -> tagged granules now, as the command reads the trace
  view,       \* line -> what the simulator knows
  stored      \* granules stored to since the last request for their line

pipeline_vars == <<scan_vars, stats_vars, trace, position, stage, initial,
                   memory, view, stored>>

Simulator == INSTANCE TagMemory

\* An entry covers granules of one line, or runs over the end of memory; a
\* capability access covers one granule.  The tag of a load can be either.
Entries == {e \in Entry :
              /\ e.first <= e.last
              /\ LineOf(e.first) = LineOf(e.last) \/ e.last = NumCaps
              /\ e.type \in {"CLOAD", "CSTORE"} => e.first = e.last
              /\ e.type \in {"INSTR", "STORE"} => e.tag = 0}

GranulesOf(e) == {g \in Granules : CapOf(LineOf(e.first), g) \in Covered(e)}

\* The machine returns the tag of memory, and fetches from untagged memory.
Consistent(e) ==
    LET tagged == memory[LineOf(e.first)] IN
    CASE e.type = "INSTR" -> GranulesOf(e) \cap tagged = {}
      [] e.type = "CLOAD" -> GranulesOf(e) \subseteq tagged <=> e.tag = 1
      [] OTHER            -> TRUE

AfterStore(e) ==
    IF e.type \notin Stores THEN memory
    ELSE [memory EXCEPT ![LineOf(e.first)] =
            IF e.tag = 1 THEN @ \cup GranulesOf(e) ELSE @ \ GranulesOf(e)]

PipelineInit ==
    /\ ScanInit
    /\ StatsInit
    /\ trace = <<>>
    /\ position = 0
    /\ stage = "scan"
    /\ initial \in [Lines -> SUBSET Granules]
    /\ memory = initial
    /\ view = [ln \in Lines |-> NoTags]
    /\ stored = {}

ScanEntry(e) ==
    /\ stage = "scan"
    /\ position < MaxEntries
    /\ Consistent(e)
    /\ Scan(e) \/ ScanAborts(e)
    /\ trace' = Append(trace, e)
    /\ position' = position + 1
    /\ memory' = AfterStore(e)
    /\ UNCHANGED <<stats_vars, stage, initial, view, stored>>

\* The end of the trace: the file is written, the next commands start.
ScanEnds ==
    /\ stage = "scan"
    /\ ~ aborted
    /\ stage' = "simulate"
    /\ position' = 0
    /\ memory' = initial
    /\ UNCHANGED <<scan_vars, stats_vars, trace, initial, view, stored>>

StatsStep ==
    /\ stage = "simulate"
    /\ \/ ReadRecord /\ UNCHANGED stored
       \/ /\ Account
          /\ stored' = stored \ {CapOf(request.line, index)}
    /\ UNCHANGED <<modified_paddrs, num_CLOADs_after_mismatched_CLOAD, aborted,
                   trace, position, stage, initial, memory, view>>

SimulateEntry ==
    LET e == trace[position + 1] IN
    /\ stage = "simulate"
    /\ phase = "next"
    /\ position < Len(trace)
    /\ position' = position + 1
    /\ CASE e.type \in Stores ->
              /\ Simulator!Store(LineOf(e.first), GranulesOf(e), e.tag)
              /\ stored' = stored \cup Covered(e)
         [] e.type = "LOAD" -> UNCHANGED <<memory, view, stored>>
         [] OTHER ->
              /\ Simulator!Learn(LineOf(e.first), GranulesOf(e))
              /\ UNCHANGED stored
    /\ UNCHANGED <<scan_vars, stats_vars, trace, stage, initial>>

SendRequest(ln) ==
    /\ stage = "simulate"
    /\ ReadRequest([line |-> ln, tags |-> view[ln]])
    /\ UNCHANGED <<modified_paddrs, num_CLOADs_after_mismatched_CLOAD, aborted,
                   trace, position, stage, initial, memory, view, stored>>

PipelineNext ==
    \/ \E e \in Entries : ScanEntry(e)
    \/ ScanEnds
    \/ StatsStep
    \/ SimulateEntry
    \/ \E ln \in Lines : SendRequest(ln)

PipelineSpec == PipelineInit /\ [][PipelineNext]_pipeline_vars

-----------------------------------------------------------------------------
Counted(cap) == cap \in tagged_capabilities
Tagged(cap) == cap - CapOf(LineOf(cap), 0) \in memory[LineOf(cap)]

\* Where the trace has read a tag before it wrote one, the census is that of
\* the machine, up to the stores no request has brought yet: the guess for a
\* granule the simulator does not know is no guess there.
ReadTagsAreReal ==
    stage = "simulate" /\ phase # "initial" =>
      \A cap \in Caps :
        initial_state_table[cap].type = "CLOAD" /\ cap \notin stored =>
          (Counted(cap) <=> Tagged(cap))

\* After the initial state only stores change the census: that a tag becomes
\* known does not count as a change of the tag.
OnlyStoresChangeTags ==
    [][phase # "initial" =>
         \A cap \in Caps : Counted(cap) # Counted(cap)' => cap \in stored]_pipeline_vars

\* handlers.c:684 says what is counted: a capability load after one with a different
\* tag, with no modification in between.  The trace of a machine has none.
MismatchesAreCounted == num_CLOADs_after_mismatched_CLOAD = 0

=============================================================================
