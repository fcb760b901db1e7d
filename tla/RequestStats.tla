---------------------------- MODULE RequestStats ----------------------------
(***************************************************************************)
(* trace_requests_get_info and trace_requests_make_tag_csv (handlers.c):   *)
(* a census of the tags in memory, kept up to date from the initial state  *)
(* file and then from the requests the simulator has written, a granule at *)
(* a time.                                                                 *)
(***************************************************************************)
EXTENDS InitialState, FiniteSets

VARIABLES
  tagged_capabilities,   \* granules that have a tag
  page_tag_counts,       \* page -> tagged granules in it (0: not in the map)
  accessed_pages,        \* pages some request has accessed
  num_capabilities_tagged,
  num_lines_tagged,
  num_pages_tagged,
  phase,                 \* "initial" (the file), "next" or "request"
  request,               \* current_entry
  index                  \* the granule of the file or the request it is at

counts_vars == <<tagged_capabilities, page_tag_counts,
                 num_capabilities_tagged, num_lines_tagged, num_pages_tagged>>
stats_vars == <<counts_vars, accessed_pages, phase, request, index>>

Request == [line : Lines, tags : {t \in TagState : Masked(t)}]
NoRequest == [line |-> 0, tags |-> NoTags]

StatsInit ==
    /\ tagged_capabilities = {}
    /\ page_tag_counts = [page \in Pages |-> 0]
    /\ accessed_pages = {}
    /\ num_capabilities_tagged = 0
    /\ num_lines_tagged = 0
    /\ num_pages_tagged = 0
    /\ phase = "initial"
    /\ request = NoRequest
    /\ index = 0

\* BUG: only the granules before this one are looked at.
EarlierCleared(cap) ==
    \A other \in tagged_capabilities :
        LineOf(other) = LineOf(cap) => other >= cap

\* No other granule of the line of cap has a tag.
OthersCleared(cap) ==
    \A other \in tagged_capabilities :
        LineOf(other) = LineOf(cap) => other = cap

(***************************************************************************)
(* requests_stats_update_tag.  The line and the page of a granule count    *)
(* when their first tag is set, and no longer when their last is cleared.  *)
(***************************************************************************)
SetTag(cap) ==
    LET page == PageOf(cap) IN
    /\ tagged_capabilities' = tagged_capabilities \cup {cap}
    /\ num_capabilities_tagged' = num_capabilities_tagged + 1
    /\ num_lines_tagged' = num_lines_tagged + (IF OthersCleared(cap) THEN 1 ELSE 0)
    /\ num_pages_tagged' =
         num_pages_tagged + (IF page_tag_counts[page] = 0 THEN 1 ELSE 0)
    /\ page_tag_counts' = [page_tag_counts EXCEPT ![page] = @ + 1]

ClearTag(cap) ==
    LET page == PageOf(cap) IN
    /\ tagged_capabilities' = tagged_capabilities \ {cap}
    /\ num_capabilities_tagged' = num_capabilities_tagged - 1
    /\ num_lines_tagged' = num_lines_tagged - (IF OthersCleared(cap) THEN 1 ELSE 0)
    /\ num_pages_tagged' =
         num_pages_tagged - (IF page_tag_counts[page] = 1 THEN 1 ELSE 0)
    /\ page_tag_counts' = [page_tag_counts EXCEPT ![page] = @ - 1]

UpdateTag(cap, tag_set) ==
    CASE tag_set /\ cap \notin tagged_capabilities   -> SetTag(cap)
      [] ~ tag_set /\ cap \in tagged_capabilities    -> ClearTag(cap)
      [] OTHER                                       -> UNCHANGED counts_vars

\* One record of the initial state file.
ReadRecord ==
    /\ phase = "initial"
    /\ UpdateTag(index, GuessInitialTag(initial_state_table[index]))
    /\ IF index + 1 < NumCaps
         THEN index' = index + 1 /\ UNCHANGED phase
         ELSE index' = 0 /\ phase' = "next"
    /\ UNCHANGED <<accessed_pages, request, initial_state_table>>

ReadRequest(r) ==
    /\ phase = "next"
    /\ request' = r
    /\ phase' = "request"
    /\ UNCHANGED <<counts_vars, accessed_pages, index, initial_state_table>>

\* BUG: a granule whose tag is not known counts as cleared.
UnknownCleared(granule) == granule \in request.tags.data

\* The tag a request gives a granule of its line.
RequestTag(granule) ==
    IF granule \in request.tags.known THEN granule \in request.tags.data
    ELSE GuessInitialTag(initial_state_table[CapOf(request.line, granule)])

\* One granule of the request.
Account ==
    LET cap == CapOf(request.line, index) IN
    /\ phase = "request"
    /\ accessed_pages' = accessed_pages \cup {PageOf(cap)}
    /\ UpdateTag(cap, RequestTag(index))
    /\ IF index + 1 < GranulesPerLine
         THEN index' = index + 1 /\ UNCHANGED <<phase, request>>
         ELSE index' = 0 /\ phase' = "next" /\ request' = NoRequest
    /\ UNCHANGED initial_state_table

\* The initial state file can be any; so can the requests.
Init ==
    /\ initial_state_table \in [Caps -> InitialAccess]
    /\ StatsInit

Next == ReadRecord \/ Account \/ \E r \in Request : ReadRequest(r)

Spec == Init /\ [][Next]_<<stats_vars, initial_state_table>>

-----------------------------------------------------------------------------
\* Type correctness of the census: no count is negative (they are unsigned).
StatsTypeOK ==
    /\ initial_state_table \in [Caps -> InitialAccess]
    /\ tagged_capabilities \subseteq Caps
    /\ page_tag_counts \in [Pages -> Nat]
    /\ accessed_pages \subseteq Pages
    /\ num_capabilities_tagged \in Nat
    /\ num_lines_tagged \in Nat
    /\ num_pages_tagged \in Nat
    /\ phase \in {"initial", "next", "request"}
    /\ request \in Request
    /\ index \in Caps
    /\ phase = "next" => index = 0
    /\ phase = "request" => index \in Granules

\* The counts that are kept step by step are those of the set of tags: after
\* any sequence of requests, in whatever order tags are set and cleared.
CountsAgree ==
    /\ num_capabilities_tagged = Cardinality(tagged_capabilities)
    /\ num_lines_tagged = Cardinality({LineOf(cap) : cap \in tagged_capabilities})
    /\ num_pages_tagged = Cardinality({PageOf(cap) : cap \in tagged_capabilities})
    /\ \A page \in Pages :
         page_tag_counts[page] =
           Cardinality({cap \in tagged_capabilities : PageOf(cap) = page})

=============================================================================
