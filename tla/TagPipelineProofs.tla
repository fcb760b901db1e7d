-------------------------- MODULE TagPipelineProofs --------------------------
(***************************************************************************)
(* Scan, simulation and statistics for every memory and every trace. The   *)
(* first part is about the census alone, on any sequence of requests: it   *)
(* counts what it says it counts. The second composes the commands through *)
(* their files: what they hand on is what the next one relies on.          *)
(***************************************************************************)
EXTENDS TagPipeline, FiniteSetTheorems, TLAPS

IInv == StatsTypeOK /\ CountsAgree

LEMMA SizeFacts ==
    /\ GranulesPerLine \in 1 .. 8
    /\ NumPages \in Nat \ {0}
    /\ LinesPerPage \in Nat \ {0}
    /\ NumPages * LinesPerPage \in Nat \ {0}
    /\ NumCaps \in Nat \ {0}
<1>1. GranulesPerLine \in 1 .. 8 /\ NumPages \in Nat \ {0} /\ LinesPerPage \in Nat \ {0}
  BY GranulesAssumption, MemoryAssumption
<1>2. \A m, n \in Nat \ {0} : m * n \in Nat \ {0}
  OBVIOUS
<1>3. NumPages * LinesPerPage \in Nat \ {0}
  BY <1>1, <1>2
<1>4. NumCaps \in Nat \ {0}
  BY <1>1, <1>2, <1>3 DEF NumCaps
<1> QED
  BY <1>1, <1>3, <1>4

LEMMA LineInMemory ==
    ASSUME NEW cap \in Caps
    PROVE  LineOf(cap) \in Lines
<1> DEFINE N == NumPages * LinesPerPage
           G == GranulesPerLine
<1>1. N \in Nat \ {0} /\ G \in 1 .. 8 /\ cap \in 0 .. N * G - 1
  BY SizeFacts DEF Caps, NumCaps
<1> HIDE DEF N, G
<1>2. G = 1 \/ G = 2 \/ G = 3 \/ G = 4 \/ G = 5 \/ G = 6 \/ G = 7 \/ G = 8
  BY <1>1
<1>3. cap \div G \in 0 .. N - 1
  BY <1>1, <1>2
<1> QED
  BY <1>3 DEF LineOf, Lines, N, G

LEMMA PageInMemory ==
    ASSUME NEW cap \in Caps
    PROVE  PageOf(cap) \in Pages
<1> DEFINE ln == LineOf(cap)
<1>1. ln \in 0 .. NumPages * LinesPerPage - 1
  BY LineInMemory DEF Lines
<1>2. \A l \in Nat, p, n \in Nat \ {0} : l < n * p => l \div p \in 0 .. n - 1
  <2>1. SUFFICES ASSUME NEW l \in Nat, NEW p \in Nat \ {0}, NEW n \in Nat \ {0}, l < n * p
                 PROVE  l \div p \in 0 .. n - 1
    OBVIOUS
  <2>2. l \div p \in Int /\ l = p * (l \div p) + (l % p) /\ l % p \in 0 .. p - 1
    OBVIOUS
  <2>3. \A q, r \in Int : r \in 0 .. p - 1 /\ l = p * q + r => q \in 0 .. n - 1
    <3>1. SUFFICES ASSUME NEW q \in Int, NEW r \in 0 .. p - 1, l = p * q + r
                   PROVE  q \in 0 .. n - 1
      OBVIOUS
    <3>2. ASSUME q < 0 PROVE FALSE
      <4>1. p * q <= p * (-1)
        BY <3>2
      <4> QED
        BY <3>1, <4>1
    <3>3. ASSUME q >= n PROVE FALSE
      <4>1. p * q >= n * p
        BY <3>3
      <4> QED
        BY <2>1, <3>1, <4>1
    <3> QED
      BY <3>2, <3>3
  <2>4. PICK q, r \in Int : q = l \div p /\ r = l % p
    BY <2>2
  <2>5. r \in 0 .. p - 1 /\ l = p * q + r
    BY <2>2, <2>4
  <2>6. q \in 0 .. n - 1
    BY <2>3, <2>5
  <2> QED
    BY <2>4, <2>6
<1> QED
  BY <1>1, <1>2, SizeFacts DEF PageOf, Pages

LEMMA CapInMemory ==
    ASSUME NEW ln \in Lines, NEW granule \in Granules
    PROVE  CapOf(ln, granule) \in Caps
<1> DEFINE N == NumPages * LinesPerPage
           G == GranulesPerLine
<1>1. /\ N \in Nat \ {0} /\ G \in 1 .. 8
      /\ ln \in 0 .. N - 1 /\ granule \in 0 .. G - 1
  BY SizeFacts DEF Lines, Granules
<1> HIDE DEF N, G
<1>2. G = 1 \/ G = 2 \/ G = 3 \/ G = 4 \/ G = 5 \/ G = 6 \/ G = 7 \/ G = 8
  BY <1>1
<1>3. ln * G + granule \in 0 .. N * G - 1
  BY <1>1, <1>2
<1> QED
  BY <1>3 DEF CapOf, Caps, NumCaps, N, G

-----------------------------------------------------------------------------
(* What a tag that is set or cleared does to the sets that are counted *)

LinesOf(T) == {LineOf(cap) : cap \in T}
PagesOf(T) == {PageOf(cap) : cap \in T}
InPage(T, page) == {cap \in T : PageOf(cap) = page}

LEMMA FiniteCounts ==
    ASSUME NEW T \in SUBSET Caps
    PROVE  /\ IsFiniteSet(T)
           /\ IsFiniteSet(LinesOf(T))
           /\ IsFiniteSet(PagesOf(T))
           /\ \A page : IsFiniteSet(InPage(T, page))
<1>1. IsFiniteSet(Caps) /\ IsFiniteSet(Lines) /\ IsFiniteSet(Pages)
  BY SizeFacts, FS_Interval DEF Caps, Lines, Pages
<1>2. LinesOf(T) \in SUBSET Lines /\ PagesOf(T) \in SUBSET Pages
  BY LineInMemory, PageInMemory DEF LinesOf, PagesOf
<1>3. IsFiniteSet(T)
  BY <1>1, FS_Subset
<1>4. ASSUME NEW page
      PROVE  IsFiniteSet(InPage(T, page))
  <2>1. InPage(T, page) \in SUBSET T
    BY DEF InPage
  <2> QED
    BY <1>3, <2>1, FS_Subset
<1> QED
  BY <1>1, <1>2, <1>3, <1>4, FS_Subset

\* The counts of CountsAgree, of a set of tagged granules.
Counts(T, caps, lines, pages, in_page) ==
    /\ caps = Cardinality(T)
    /\ lines = Cardinality(LinesOf(T))
    /\ pages = Cardinality(PagesOf(T))
    /\ \A page \in Pages : in_page[page] = Cardinality(InPage(T, page))

LEMMA CountsMeaning ==
    CountsAgree <=> Counts(tagged_capabilities, num_capabilities_tagged,
                           num_lines_tagged, num_pages_tagged, page_tag_counts)
BY DEF CountsAgree, Counts, LinesOf, PagesOf, InPage

LEMMA AddOne ==
    ASSUME NEW S, IsFiniteSet(S), NEW x
    PROVE  Cardinality(S \cup {x}) = Cardinality(S) + (IF x \in S THEN 0 ELSE 1)
<1>1. Cardinality(S) \in Nat
  BY FS_CardinalityType
<1>2. Cardinality(S \cup {x}) = IF x \in S THEN Cardinality(S) ELSE Cardinality(S) + 1
  BY FS_AddElement, Zenon
<1> DEFINE n == Cardinality(S)
           added == Cardinality(S \cup {x})
<1> HIDE DEF n, added
<1>3. added = n + (IF x \in S THEN 0 ELSE 1)
  BY <1>1, <1>2 DEF n, added
<1> QED
  BY <1>3 DEF n, added

LEMMA AddCounts ==
    ASSUME NEW T \in SUBSET Caps, NEW cap \in Caps, cap \notin T
    PROVE  /\ Cardinality(T \cup {cap}) = Cardinality(T) + 1
           /\ Cardinality(LinesOf(T \cup {cap})) =
                Cardinality(LinesOf(T)) + (IF LineOf(cap) \in LinesOf(T) THEN 0 ELSE 1)
           /\ Cardinality(PagesOf(T \cup {cap})) =
                Cardinality(PagesOf(T)) + (IF PageOf(cap) \in PagesOf(T) THEN 0 ELSE 1)
           /\ \A page : Cardinality(InPage(T \cup {cap}, page)) =
                Cardinality(InPage(T, page)) + (IF page = PageOf(cap) THEN 1 ELSE 0)
<1>1. /\ LinesOf(T \cup {cap}) = LinesOf(T) \cup {LineOf(cap)}
      /\ PagesOf(T \cup {cap}) = PagesOf(T) \cup {PageOf(cap)}
  BY DEF LinesOf, PagesOf
<1>2. Cardinality(T \cup {cap}) = Cardinality(T) + 1
  BY FiniteCounts, FS_AddElement
<1>3. /\ IsFiniteSet(LinesOf(T)) /\ Cardinality(LinesOf(T)) \in Nat
      /\ IsFiniteSet(PagesOf(T)) /\ Cardinality(PagesOf(T)) \in Nat
  BY FiniteCounts, FS_CardinalityType
<1>4. Cardinality(LinesOf(T) \cup {LineOf(cap)}) =
        Cardinality(LinesOf(T)) + (IF LineOf(cap) \in LinesOf(T) THEN 0 ELSE 1)
  BY <1>3, AddOne
<1>5. Cardinality(PagesOf(T) \cup {PageOf(cap)}) =
        Cardinality(PagesOf(T)) + (IF PageOf(cap) \in PagesOf(T) THEN 0 ELSE 1)
  BY <1>3, AddOne
<1>6. ASSUME NEW page
      PROVE  Cardinality(InPage(T \cup {cap}, page)) =
               Cardinality(InPage(T, page)) + (IF page = PageOf(cap) THEN 1 ELSE 0)
  <2>1. IsFiniteSet(InPage(T, page)) /\ Cardinality(InPage(T, page)) \in Nat
    BY FiniteCounts, FS_CardinalityType
  <2>2. CASE page = PageOf(cap)
    <3>1. InPage(T \cup {cap}, page) = InPage(T, page) \cup {cap}
      BY <2>2 DEF InPage
    <3>2. cap \notin InPage(T, page)
      BY DEF InPage
    <3>3. Cardinality(InPage(T, page) \cup {cap}) = Cardinality(InPage(T, page)) + 1
      BY <2>1, <3>2, FS_AddElement
    <3> QED
      BY <2>2, <3>1, <3>3
  <2>3. CASE page # PageOf(cap)
    <3>1. InPage(T \cup {cap}, page) = InPage(T, page)
      BY <2>3 DEF InPage
    <3> QED
      BY <2>1, <2>3, <3>1
  <2> QED
    BY <2>2, <2>3
<1> QED
  BY <1>1, <1>2, <1>4, <1>5, <1>6

-----------------------------------------------------------------------------
(* The steps *)

\* When the counts are right they say whether the line and the page of a
\* granule have tags.
LEMMA FirstTag ==
    ASSUME StatsTypeOK, CountsAgree, NEW cap \in Caps,
           cap \notin tagged_capabilities
    PROVE  /\ OthersCleared(cap) <=> LineOf(cap) \notin LinesOf(tagged_capabilities)
           /\ page_tag_counts[PageOf(cap)] = 0 <=>
                PageOf(cap) \notin PagesOf(tagged_capabilities)
<1> DEFINE T == tagged_capabilities
           page == PageOf(cap)
<1>1. T \in SUBSET Caps /\ page \in Pages
  BY PageInMemory DEF StatsTypeOK
<1>2. page_tag_counts[page] = Cardinality(InPage(T, page))
  BY <1>1 DEF CountsAgree, InPage
<1>3. Cardinality(InPage(T, page)) = 0 <=> InPage(T, page) = {}
  BY <1>1, FiniteCounts, FS_EmptySet
<1>4. InPage(T, page) = {} <=> page \notin PagesOf(T)
  BY DEF InPage, PagesOf
<1>5. OthersCleared(cap) <=> LineOf(cap) \notin LinesOf(T)
  BY DEF OthersCleared, LinesOf
<1> QED
  BY <1>2, <1>3, <1>4, <1>5

LEMMA SetTagCounts ==
    ASSUME IInv, NEW cap \in Caps, cap \notin tagged_capabilities, SetTag(cap)
    PROVE  /\ CountsAgree'
           /\ tagged_capabilities' \subseteq Caps
           /\ num_capabilities_tagged' \in Nat
           /\ num_lines_tagged' \in Nat
           /\ num_pages_tagged' \in Nat
           /\ page_tag_counts' \in [Pages -> Nat]
<1> DEFINE T == tagged_capabilities
           page == PageOf(cap)
<1>1. T \in SUBSET Caps /\ page \in Pages
  BY PageInMemory DEF IInv, StatsTypeOK
<1>2. /\ num_capabilities_tagged \in Nat
      /\ num_lines_tagged \in Nat
      /\ num_pages_tagged \in Nat
      /\ page_tag_counts \in [Pages -> Nat]
  BY DEF IInv, StatsTypeOK
<1>3. /\ OthersCleared(cap) <=> LineOf(cap) \notin LinesOf(T)
      /\ page_tag_counts[page] = 0 <=> page \notin PagesOf(T)
  BY FirstTag DEF IInv
<1>4. Counts(T, num_capabilities_tagged, num_lines_tagged, num_pages_tagged,
             page_tag_counts)
  BY CountsMeaning DEF IInv
<1>5. /\ T' = T \cup {cap}
      /\ num_capabilities_tagged' = num_capabilities_tagged + 1
      /\ num_lines_tagged' =
           num_lines_tagged + (IF LineOf(cap) \in LinesOf(T) THEN 0 ELSE 1)
      /\ num_pages_tagged' =
           num_pages_tagged + (IF page \in PagesOf(T) THEN 0 ELSE 1)
      /\ page_tag_counts' = [page_tag_counts EXCEPT ![page] = @ + 1]
  BY <1>2, <1>3 DEF SetTag
<1>6. /\ Cardinality(T') = Cardinality(T) + 1
      /\ Cardinality(LinesOf(T')) =
           Cardinality(LinesOf(T)) + (IF LineOf(cap) \in LinesOf(T) THEN 0 ELSE 1)
      /\ Cardinality(PagesOf(T')) =
           Cardinality(PagesOf(T)) + (IF page \in PagesOf(T) THEN 0 ELSE 1)
      /\ \A p : Cardinality(InPage(T', p)) =
           Cardinality(InPage(T, p)) + (IF p = page THEN 1 ELSE 0)
  <2>1. /\ Cardinality(T \cup {cap}) = Cardinality(T) + 1
        /\ Cardinality(LinesOf(T \cup {cap})) =
             Cardinality(LinesOf(T)) + (IF LineOf(cap) \in LinesOf(T) THEN 0 ELSE 1)
        /\ Cardinality(PagesOf(T \cup {cap})) =
             Cardinality(PagesOf(T)) + (IF page \in PagesOf(T) THEN 0 ELSE 1)
        /\ \A p : Cardinality(InPage(T \cup {cap}, p)) =
             Cardinality(InPage(T, p)) + (IF p = page THEN 1 ELSE 0)
    BY <1>1, AddCounts, Zenon
  <2>2. T' = T \cup {cap}
    BY <1>5
  <2> QED
    BY <2>1, <2>2, Zenon
<1>7. \A p \in Pages : /\ page_tag_counts'[p] =
                            page_tag_counts[p] + (IF p = page THEN 1 ELSE 0)
                       /\ page_tag_counts'[p] \in Nat
  BY <1>1, <1>2, <1>5
<1>8. page_tag_counts' \in [Pages -> Nat]
  BY <1>1, <1>2, <1>5
<1>9. Counts(T, num_capabilities_tagged, num_lines_tagged, num_pages_tagged,
             page_tag_counts)'
  BY <1>4, <1>5, <1>6, <1>7 DEF Counts
<1>10. CountsAgree'
  BY <1>9, CountsMeaning, PTL
<1>11. T' \subseteq Caps
  BY <1>1, <1>5
<1> QED
  BY <1>2, <1>5, <1>8, <1>10, <1>11

LEMMA RemoveCounts ==
    ASSUME NEW T \in SUBSET Caps, NEW cap \in T
    PROVE  LET OtherInLine == \E other \in T : other # cap /\ LineOf(other) = LineOf(cap)
               OtherInPage == \E other \in T : other # cap /\ PageOf(other) = PageOf(cap)
           IN
           /\ Cardinality(T \ {cap}) = Cardinality(T) - 1
           /\ Cardinality(LinesOf(T \ {cap})) =
                Cardinality(LinesOf(T)) - (IF OtherInLine THEN 0 ELSE 1)
           /\ Cardinality(PagesOf(T \ {cap})) =
                Cardinality(PagesOf(T)) - (IF OtherInPage THEN 0 ELSE 1)
           /\ \A page : Cardinality(InPage(T \ {cap}, page)) =
                Cardinality(InPage(T, page)) - (IF page = PageOf(cap) THEN 1 ELSE 0)
<1> DEFINE R == T \ {cap}
<1>1. R \in SUBSET Caps /\ cap \in Caps /\ cap \notin R /\ R \cup {cap} = T
  OBVIOUS
<1>2. /\ Cardinality(T) = Cardinality(R) + 1
      /\ Cardinality(LinesOf(T)) =
           Cardinality(LinesOf(R)) + (IF LineOf(cap) \in LinesOf(R) THEN 0 ELSE 1)
      /\ Cardinality(PagesOf(T)) =
           Cardinality(PagesOf(R)) + (IF PageOf(cap) \in PagesOf(R) THEN 0 ELSE 1)
      /\ \A page : Cardinality(InPage(T, page)) =
           Cardinality(InPage(R, page)) + (IF page = PageOf(cap) THEN 1 ELSE 0)
  <2> HIDE DEF R
  <2> QED
    BY <1>1, AddCounts
<1>3. /\ LineOf(cap) \in LinesOf(R) <=>
           \E other \in T : other # cap /\ LineOf(other) = LineOf(cap)
      /\ PageOf(cap) \in PagesOf(R) <=>
           \E other \in T : other # cap /\ PageOf(other) = PageOf(cap)
  BY DEF LinesOf, PagesOf
<1>4. /\ Cardinality(R) \in Nat
      /\ Cardinality(LinesOf(R)) \in Nat
      /\ Cardinality(PagesOf(R)) \in Nat
      /\ \A page : Cardinality(InPage(R, page)) \in Nat
  <2>1. /\ IsFiniteSet(R) /\ IsFiniteSet(LinesOf(R)) /\ IsFiniteSet(PagesOf(R))
        /\ \A page : IsFiniteSet(InPage(R, page))
    BY <1>1, FiniteCounts
  <2> QED
    BY <2>1, FS_CardinalityType
<1> HIDE DEF R
<1>5. /\ Cardinality(R) = Cardinality(T) - 1
      /\ Cardinality(LinesOf(R)) =
           Cardinality(LinesOf(T)) - (IF LineOf(cap) \in LinesOf(R) THEN 0 ELSE 1)
      /\ Cardinality(PagesOf(R)) =
           Cardinality(PagesOf(T)) - (IF PageOf(cap) \in PagesOf(R) THEN 0 ELSE 1)
      /\ \A page : Cardinality(InPage(R, page)) =
           Cardinality(InPage(T, page)) - (IF page = PageOf(cap) THEN 1 ELSE 0)
  BY <1>2, <1>4
<1> QED
  BY <1>3, <1>5 DEF R

\* When the counts are right they say whether a granule is the last of its
\* line and of its page that has a tag.
LEMMA LastTag ==
    ASSUME StatsTypeOK, CountsAgree, NEW cap \in tagged_capabilities
    PROVE  /\ OthersCleared(cap) <=>
                ~ \E other \in tagged_capabilities :
                    other # cap /\ LineOf(other) = LineOf(cap)
           /\ page_tag_counts[PageOf(cap)] = 1 <=>
                ~ \E other \in tagged_capabilities :
                    other # cap /\ PageOf(other) = PageOf(cap)
<1> DEFINE T == tagged_capabilities
           page == PageOf(cap)
<1>1. T \in SUBSET Caps /\ cap \in Caps /\ page \in Pages
  BY PageInMemory DEF StatsTypeOK
<1>2. page_tag_counts[page] = Cardinality(InPage(T, page))
  BY <1>1 DEF CountsAgree, InPage
<1>3. Cardinality(InPage(T, page)) = 1 <=> \E x : InPage(T, page) = {x}
  BY <1>1, FiniteCounts, FS_Singleton
<1>4. (\E x : InPage(T, page) = {x}) <=>
        ~ \E other \in T : other # cap /\ PageOf(other) = page
  BY DEF InPage
<1>5. OthersCleared(cap) <=> ~ \E other \in T : other # cap /\ LineOf(other) = LineOf(cap)
  BY DEF OthersCleared
<1> QED
  BY <1>1, <1>2, <1>3, <1>4, <1>5

LEMMA ClearTagCounts ==
    ASSUME IInv, NEW cap \in tagged_capabilities, ClearTag(cap)
    PROVE  /\ CountsAgree'
           /\ tagged_capabilities' \subseteq Caps
           /\ num_capabilities_tagged' \in Nat
           /\ num_lines_tagged' \in Nat
           /\ num_pages_tagged' \in Nat
           /\ page_tag_counts' \in [Pages -> Nat]
<1> DEFINE T == tagged_capabilities
           page == PageOf(cap)
           OtherInLine == \E other \in T : other # cap /\ LineOf(other) = LineOf(cap)
           OtherInPage == \E other \in T : other # cap /\ PageOf(other) = PageOf(cap)
<1>1. T \in SUBSET Caps /\ cap \in Caps /\ page \in Pages
  BY PageInMemory DEF IInv, StatsTypeOK
<1>2. /\ num_capabilities_tagged \in Nat
      /\ num_lines_tagged \in Nat
      /\ num_pages_tagged \in Nat
      /\ page_tag_counts \in [Pages -> Nat]
  BY DEF IInv, StatsTypeOK
<1>3. /\ OthersCleared(cap) <=> ~ OtherInLine
      /\ page_tag_counts[page] = 1 <=> ~ OtherInPage
  BY LastTag DEF IInv
<1>4. Counts(T, num_capabilities_tagged, num_lines_tagged, num_pages_tagged,
             page_tag_counts)
  BY CountsMeaning DEF IInv
<1>5. /\ T' = T \ {cap}
      /\ num_capabilities_tagged' = num_capabilities_tagged - 1
      /\ num_lines_tagged' = num_lines_tagged - (IF OtherInLine THEN 0 ELSE 1)
      /\ num_pages_tagged' = num_pages_tagged - (IF OtherInPage THEN 0 ELSE 1)
      /\ page_tag_counts' = [page_tag_counts EXCEPT ![page] = @ - 1]
  BY <1>2, <1>3 DEF ClearTag
<1>6. /\ Cardinality(T') = Cardinality(T) - 1
      /\ Cardinality(LinesOf(T')) =
           Cardinality(LinesOf(T)) - (IF OtherInLine THEN 0 ELSE 1)
      /\ Cardinality(PagesOf(T')) =
           Cardinality(PagesOf(T)) - (IF OtherInPage THEN 0 ELSE 1)
      /\ \A p : Cardinality(InPage(T', p)) =
           Cardinality(InPage(T, p)) - (IF p = page THEN 1 ELSE 0)
  <2>1. /\ Cardinality(T \ {cap}) = Cardinality(T) - 1
        /\ Cardinality(LinesOf(T \ {cap})) =
             Cardinality(LinesOf(T)) - (IF OtherInLine THEN 0 ELSE 1)
        /\ Cardinality(PagesOf(T \ {cap})) =
             Cardinality(PagesOf(T)) - (IF OtherInPage THEN 0 ELSE 1)
        /\ \A p : Cardinality(InPage(T \ {cap}, p)) =
             Cardinality(InPage(T, p)) - (IF p = page THEN 1 ELSE 0)
    BY <1>1, RemoveCounts, Zenon
  <2>2. T' = T \ {cap}
    BY <1>5
  <2> QED
    BY <2>1, <2>2, Zenon
<1>7. \A p \in Pages : page_tag_counts'[p] =
                         page_tag_counts[p] - (IF p = page THEN 1 ELSE 0)
  BY <1>1, <1>2, <1>5
<1>8. Counts(T, num_capabilities_tagged, num_lines_tagged, num_pages_tagged,
             page_tag_counts)'
  BY <1>4, <1>5, <1>6, <1>7 DEF Counts
<1>9. T' \in SUBSET Caps
  BY <1>1, <1>5
<1>10. /\ Cardinality(T') \in Nat
       /\ Cardinality(LinesOf(T')) \in Nat
       /\ Cardinality(PagesOf(T')) \in Nat
       /\ \A p : Cardinality(InPage(T', p)) \in Nat
  <2>1. \A R \in SUBSET Caps :
          /\ Cardinality(R) \in Nat
          /\ Cardinality(LinesOf(R)) \in Nat
          /\ Cardinality(PagesOf(R)) \in Nat
          /\ \A p : Cardinality(InPage(R, p)) \in Nat
    BY FiniteCounts, FS_CardinalityType
  <2> QED
    BY <1>9, <2>1
<1>11. /\ num_capabilities_tagged' \in Nat
       /\ num_lines_tagged' \in Nat
       /\ num_pages_tagged' \in Nat
       /\ \A p \in Pages : page_tag_counts'[p] \in Nat
  BY <1>8, <1>10 DEF Counts
<1>12. page_tag_counts' \in [Pages -> Nat]
  BY <1>2, <1>5, <1>11
<1>13. CountsAgree'
  BY <1>8, CountsMeaning, PTL
<1> QED
  BY <1>9, <1>11, <1>12, <1>13

\* Whatever granule is updated, to whatever tag.
LEMMA UpdateTagCounts ==
    ASSUME IInv, NEW cap \in Caps, NEW tag_set, UpdateTag(cap, tag_set)
    PROVE  /\ CountsAgree'
           /\ tagged_capabilities' \subseteq Caps
           /\ num_capabilities_tagged' \in Nat
           /\ num_lines_tagged' \in Nat
           /\ num_pages_tagged' \in Nat
           /\ page_tag_counts' \in [Pages -> Nat]
<1>1. CASE tag_set /\ cap \notin tagged_capabilities
  <2>1. SetTag(cap)
    BY <1>1 DEF UpdateTag
  <2> QED
    BY <1>1, <2>1, SetTagCounts
<1>2. CASE ~ tag_set /\ cap \in tagged_capabilities
  <2>1. ClearTag(cap)
    BY <1>2 DEF UpdateTag
  <2> QED
    BY <1>2, <2>1, ClearTagCounts
<1>3. CASE ~ (tag_set /\ cap \notin tagged_capabilities)
           /\ ~ (~ tag_set /\ cap \in tagged_capabilities)
  <2>1. UNCHANGED counts_vars
    BY <1>3 DEF UpdateTag
  <2> QED
    BY <2>1 DEF IInv, StatsTypeOK, CountsAgree, counts_vars
<1> QED
  BY <1>1, <1>2, <1>3

LEMMA InitIInv == Init => IInv
<1> SUFFICES ASSUME Init PROVE IInv
  OBVIOUS
<1>1. Cardinality({}) = 0
  BY FS_EmptySet
<1>2. CountsAgree
  <2>1. /\ {LineOf(cap) : cap \in {}} = {}
        /\ {PageOf(cap) : cap \in {}} = {}
        /\ \A page : {cap \in {} : PageOf(cap) = page} = {}
    OBVIOUS
  <2> QED
    BY <1>1, <2>1 DEF Init, StatsInit, CountsAgree
<1>3. 0 \in Caps /\ 0 \in Lines
  BY SizeFacts DEF Caps, Lines
<1>4. NoRequest \in Request
  BY <1>3 DEF NoRequest, Request, NoTags, TagState, Masked
<1>5. StatsTypeOK
  BY <1>3, <1>4 DEF Init, StatsInit, StatsTypeOK
<1> QED
  BY <1>2, <1>5 DEF IInv

LEMMA NextIInv == IInv /\ [Next]_<<stats_vars, initial_state_table>> => IInv'
<1> SUFFICES ASSUME IInv, [Next]_<<stats_vars, initial_state_table>>
             PROVE  IInv'
  OBVIOUS
<1> USE DEF IInv
<1>1. CASE ReadRecord
  <2>1. index \in Caps /\ phase = "initial"
    BY <1>1 DEF StatsTypeOK, ReadRecord
  <2>2. UpdateTag(index, GuessInitialTag(initial_state_table[index]))
    BY <1>1 DEF ReadRecord
  <2>3. CountsAgree'
    BY <2>1, <2>2, UpdateTagCounts
  <2>4. StatsTypeOK'
    <3>1. /\ tagged_capabilities' \subseteq Caps
          /\ num_capabilities_tagged' \in Nat
          /\ num_lines_tagged' \in Nat
          /\ num_pages_tagged' \in Nat
          /\ page_tag_counts' \in [Pages -> Nat]
      BY <2>1, <2>2, UpdateTagCounts
    <3>2. /\ index' \in Caps
          /\ phase' \in {"initial", "next"}
          /\ phase' = "next" => index' = 0
      BY <1>1, <2>1, SizeFacts DEF ReadRecord, Caps
    <3> QED
      BY <1>1, <3>1, <3>2 DEF ReadRecord, StatsTypeOK
  <2> QED
    BY <2>3, <2>4
<1>2. CASE Account
  <2>1. index \in Granules /\ request \in Request /\ phase = "request"
    BY <1>2 DEF StatsTypeOK, Account
  <2>2. PICK cap \in Caps : cap = CapOf(request.line, index)
    BY <2>1, CapInMemory DEF Request
  <2>3. PICK tag_set : tag_set = RequestTag(index)
    OBVIOUS
  <2>4. UpdateTag(cap, tag_set)
    BY <1>2, <2>2, <2>3 DEF Account
  <2>5. CountsAgree'
    BY <2>4, UpdateTagCounts
  <2>6. StatsTypeOK'
    <3>1. /\ tagged_capabilities' \subseteq Caps
          /\ num_capabilities_tagged' \in Nat
          /\ num_lines_tagged' \in Nat
          /\ num_pages_tagged' \in Nat
          /\ page_tag_counts' \in [Pages -> Nat]
      BY <2>4, UpdateTagCounts
    <3>2. 0 \in Caps /\ Granules \subseteq Caps /\ NoRequest \in Request
      <4>1. 0 \in Lines
        BY SizeFacts DEF Lines
      <4>2. \A granule \in Granules : CapOf(0, granule) \in Caps
        BY <4>1, CapInMemory
      <4>3. \A granule \in Granules : CapOf(0, granule) = granule
        BY SizeFacts DEF CapOf, Granules
      <4> QED
        BY <4>1, <4>2, <4>3, SizeFacts
           DEF Caps, NoRequest, Request, NoTags, TagState, Masked
    <3>3. /\ index' \in Granules \/ (index' = 0 /\ phase' = "next")
          /\ phase' = "request" => index' \in Granules
          /\ phase' = "next" => index' = 0
          /\ phase' \in {"request", "next"}
          /\ request' \in Request
      BY <1>2, <2>1, <3>2, SizeFacts DEF Account, Granules
    <3>4. accessed_pages' \subseteq Pages
      BY <1>2, <2>2, PageInMemory DEF Account, StatsTypeOK
    <3> QED
      BY <1>2, <3>1, <3>2, <3>3, <3>4 DEF Account, StatsTypeOK
  <2> QED
    BY <2>5, <2>6
<1>3. ASSUME NEW r \in Request, ReadRequest(r)
      PROVE  IInv'
  <2>1. CountsAgree'
    BY <1>3 DEF ReadRequest, CountsAgree, counts_vars
  <2>2. 0 \in Granules
    BY SizeFacts DEF Granules
  <2>3. StatsTypeOK'
    BY <1>3, <2>2 DEF ReadRequest, StatsTypeOK, counts_vars
  <2> QED
    BY <2>1, <2>3
<1>4. CASE UNCHANGED <<stats_vars, initial_state_table>>
  BY <1>4 DEF StatsTypeOK, CountsAgree, stats_vars, counts_vars
<1> QED
  BY <1>1, <1>2, <1>3, <1>4 DEF Next

-----------------------------------------------------------------------------
(* The theorems *)

\* The census keeps its types and its counts.
THEOREM Invariance == Spec => []IInv
<1>1. Init => IInv
  BY InitIInv
<1>2. IInv /\ [Next]_<<stats_vars, initial_state_table>> => IInv'
  BY NextIInv
<1> QED
  BY <1>1, <1>2, PTL DEF Spec

\* No count of requests_stats_update_tag ever goes below zero (they are
\* unsigned), and it only looks at granules that are in memory.
THEOREM NeverNegative == Spec => []StatsTypeOK
<1>1. IInv => StatsTypeOK
  BY DEF IInv
<1> QED
  BY <1>1, Invariance, PTL

\* The numbers of tagged capabilities, lines and pages that the info command
\* prints and the csv is made of are those of the tags in memory.
THEOREM CensusIsRight == Spec => []CountsAgree
<1>1. IInv => CountsAgree
  BY DEF IInv
<1> QED
  BY <1>1, Invariance, PTL


-----------------------------------------------------------------------------
(* The granules of a line, and the entries of a trace that cover them *)

Granule(cap) == cap - CapOf(LineOf(cap), 0)

LEMMA GranuleOfCap ==
    ASSUME NEW cap \in Caps
    PROVE  /\ LineOf(cap) \in Lines
           /\ Granule(cap) \in Granules
           /\ CapOf(LineOf(cap), Granule(cap)) = cap
<1> DEFINE G == GranulesPerLine
<1>1. G \in 1 .. 8 /\ cap \in Nat
  BY SizeFacts DEF Caps
<1> HIDE DEF G
<1>2. G = 1 \/ G = 2 \/ G = 3 \/ G = 4 \/ G = 5 \/ G = 6 \/ G = 7 \/ G = 8
  BY <1>1
<1>3. cap - ((cap \div G) * G + 0) \in 0 .. G - 1
  BY <1>1, <1>2
<1>4. (cap \div G) * G + (cap - ((cap \div G) * G + 0)) = cap
  BY <1>1, <1>2
<1> QED
  BY <1>3, <1>4, LineInMemory DEF Granule, Granules, CapOf, LineOf, G

LEMMA CapOfGranule ==
    ASSUME NEW ln \in Lines, NEW g \in Granules
    PROVE  /\ CapOf(ln, g) \in Caps
           /\ LineOf(CapOf(ln, g)) = ln
           /\ Granule(CapOf(ln, g)) = g
<1> DEFINE G == GranulesPerLine
<1>1. G \in 1 .. 8 /\ ln \in Nat /\ g \in 0 .. G - 1
  BY SizeFacts DEF Lines, Granules
<1> HIDE DEF G
<1>2. G = 1 \/ G = 2 \/ G = 3 \/ G = 4 \/ G = 5 \/ G = 6 \/ G = 7 \/ G = 8
  BY <1>1
<1>3. (ln * G + g) \div G = ln
  BY <1>1, <1>2
<1>4. (ln * G + g) - (ln * G + 0) = g
  BY <1>1, <1>2
<1>5. LineOf(CapOf(ln, g)) = ln
  BY <1>3 DEF LineOf, CapOf, G
<1>6. Granule(CapOf(ln, g)) = g
  BY <1>4, <1>5 DEF Granule, CapOf, G
<1> QED
  BY <1>5, <1>6, CapInMemory

LEMMA EntryFacts ==
    ASSUME NEW e \in Entries
    PROVE  /\ e.type \in Types /\ e.tag \in {0, 1}
           /\ e.first \in Caps /\ e.last \in 0 .. NumCaps /\ e.first <= e.last
           /\ e.first \in Covered(e)
           /\ LineOf(e.first) \in Lines
           /\ GranulesOf(e) \in SUBSET Granules
           /\ e.type \in {"CLOAD", "CSTORE"} => Covered(e) = {e.first}
<1>1. /\ e.type \in Types /\ e.tag \in {0, 1}
      /\ e.first \in Caps /\ e.last \in 0 .. NumCaps /\ e.first <= e.last
      /\ e.type \in {"CLOAD", "CSTORE"} => e.first = e.last
  BY DEF Entries, Entry
<1>2. e.first \in Int /\ e.last \in Int
  BY <1>1, SizeFacts DEF Caps
<1> QED
  BY <1>1, <1>2, LineInMemory DEF Covered, GranulesOf

\* In memory an entry covers granules of the line of its first byte.
LEMMA CoveredInLine ==
    ASSUME NEW e \in Entries, Covered(e) \subseteq Caps, NEW cap \in Covered(e)
    PROVE  LineOf(cap) = LineOf(e.first)
<1> DEFINE G == GranulesPerLine
<1>1. e.last \in Covered(e)
  BY EntryFacts, SizeFacts DEF Covered, Caps
<1>2. e.last # NumCaps
  BY <1>1, SizeFacts DEF Caps
<1>3. LineOf(e.first) = LineOf(e.last)
  BY <1>2 DEF Entries
<1>4. /\ G \in 1 .. 8 /\ e.first \in Nat /\ e.last \in Nat /\ cap \in Nat
      /\ e.first <= cap /\ cap <= e.last
  BY EntryFacts, <1>1, SizeFacts DEF Covered, Caps
<1> HIDE DEF G
<1>5. G = 1 \/ G = 2 \/ G = 3 \/ G = 4 \/ G = 5 \/ G = 6 \/ G = 7 \/ G = 8
  BY <1>4
<1>6. \A a, b, c \in Nat :
        a <= c /\ c <= b /\ a \div G = b \div G => c \div G = a \div G
  BY <1>5
<1> QED
  BY <1>3, <1>4, <1>6 DEF LineOf, G

LEMMA GranuleCovered ==
    ASSUME NEW e \in Entries, NEW cap \in Caps, LineOf(cap) = LineOf(e.first)
    PROVE  Granule(cap) \in GranulesOf(e) <=> cap \in Covered(e)
BY GranuleOfCap DEF GranulesOf

-----------------------------------------------------------------------------
(* The inductive invariant of the pipeline *)

Initially(cap) == Granule(cap) \in initial[LineOf(cap)]
Guess(cap) == GuessInitialTag(initial_state_table[cap])

StoresTo(e, cap) == e.type \in Stores /\ cap \in Covered(e)

\* One of the first n entries of a trace stores to a granule.
StoredBefore(s, n, cap) == \E q \in 1 .. n : StoresTo(s[q], cap)

PipelineTypeOK ==
    /\ trace \in Seq(Entries)
    /\ position \in 0 .. Len(trace)
    /\ stage \in {"scan", "simulate"}
    /\ initial \in [Lines -> SUBSET Granules]
    /\ memory \in [Lines -> SUBSET Granules]
    /\ view \in [Lines -> TagState]
    /\ \A ln \in Lines : Masked(view[ln])
    /\ aborted \in BOOLEAN

\* While a trace is read for the first time memory has changed where the
\* trace has stored to, and nowhere else.
ScanRight ==
    stage = "scan" =>
      /\ phase = "initial" /\ index = 0
      /\ ~ aborted =>
           \A cap \in Caps :
             /\ cap \in modified_paddrs <=> StoredBefore(trace, Len(trace), cap)
             /\ cap \notin modified_paddrs => (Tagged(cap) <=> Initially(cap))
             /\ initial_state_table[cap].type \in Stores => cap \in modified_paddrs

\* A record that tells the tag tells the one memory had when the trace began.
RecordRight(cap) ==
    /\ initial_state_table[cap].type = "CLOAD" =>
         (initial_state_table[cap].tag = 1 <=> Initially(cap))
    /\ initial_state_table[cap].type = "INSTR" => ~ Initially(cap)

\* An entry shows a tag nothing has stored: then the guess is right.
GuessRight(e, n, cap) ==
    /\ ~ Unread(cap)
    /\ e.type \in {"INSTR", "CLOAD"} /\ ~ StoredBefore(trace, n, cap) =>
         (Guess(cap) <=> Initially(cap))

TableRight ==
    ~ aborted =>
      /\ \A cap \in Caps : RecordRight(cap)
      /\ \A p \in 1 .. Len(trace) :
           /\ Covered(trace[p]) \subseteq Caps
           /\ \A cap \in Covered(trace[p]) : GuessRight(trace[p], p - 1, cap)

Known(cap) == Granule(cap) \in view[LineOf(cap)].known
Seen(cap) == Granule(cap) \in view[LineOf(cap)].data

\* What the simulator knows is so, and what it does not know has not changed.
ViewTrue ==
    stage = "simulate" =>
      /\ ~ aborted
      /\ \A cap \in Caps :
           /\ Known(cap) => (Seen(cap) <=> Tagged(cap))
           /\ ~ Known(cap) => /\ Tagged(cap) <=> Initially(cap)
                              /\ ~ StoredBefore(trace, position, cap)

\* The tag a request would give a granule now.
TagToCome(cap) == IF Known(cap) THEN Seen(cap) ELSE Guess(cap)

CensusTrue ==
    /\ phase = "initial" =>
         /\ view = [ln \in Lines |-> NoTags]
         /\ \A cap \in Caps : cap < index => (Counted(cap) <=> Guess(cap))
    /\ phase # "initial" =>
         /\ stage = "simulate"
         /\ \A cap \in Caps : cap \notin stored => (Counted(cap) <=> TagToCome(cap))
    /\ phase = "request" => request.tags = view[request.line]

PInv ==
    /\ StatsTypeOK
    /\ CountsAgree
    /\ PipelineTypeOK
    /\ ScanRight
    /\ TableRight
    /\ ViewTrue
    /\ CensusTrue

LEMMA PInvFacts == PInv => ReadTagsAreReal
<1> SUFFICES ASSUME PInv, stage = "simulate", phase # "initial", NEW cap \in Caps,
                    initial_state_table[cap].type = "CLOAD", cap \notin stored
             PROVE  Counted(cap) <=> Tagged(cap)
  BY DEF ReadTagsAreReal
<1>1. Counted(cap) <=> TagToCome(cap)
  BY DEF PInv, CensusTrue
<1>2. /\ Known(cap) => (Seen(cap) <=> Tagged(cap))
      /\ ~ Known(cap) => (Tagged(cap) <=> Initially(cap))
      /\ ~ aborted
  BY DEF PInv, ViewTrue
<1>3. Guess(cap) <=> Initially(cap)
  BY <1>2 DEF PInv, TableRight, RecordRight, Guess, GuessInitialTag
<1> QED
  BY <1>1, <1>2, <1>3 DEF TagToCome

-----------------------------------------------------------------------------
(* The first reading of the trace *)

LEMMA PipelineInitPInv == PipelineInit => PInv
<1> SUFFICES ASSUME PipelineInit PROVE PInv
  OBVIOUS
<1>1. initial_state_table \in [Caps -> InitialAccess]
  BY DEF PipelineInit, ScanInit, NotAccessed, InitialAccess
<1>2. StatsTypeOK /\ CountsAgree
  BY <1>1, InitIInv DEF PipelineInit, Init, IInv
<1>3. trace = <<>> /\ trace \in Seq(Entries) /\ Len(trace) = 0
  BY DEF PipelineInit
<1>4. PipelineTypeOK
  <2>1. initial \in [Lines -> SUBSET Granules] /\ memory = initial
    BY DEF PipelineInit
  <2>2. view = [ln \in Lines |-> NoTags] /\ NoTags \in TagState /\ Masked(NoTags)
    BY DEF PipelineInit, NoTags, TagState, Masked
  <2>3. position = 0 /\ stage = "scan" /\ aborted \in BOOLEAN
    BY DEF PipelineInit, ScanInit
  <2>4. view \in [Lines -> TagState] /\ \A ln \in Lines : Masked(view[ln])
    BY <2>2
  <2>5. position \in 0 .. Len(trace)
    BY <1>3, <2>3
  <2> QED
    BY <1>3, <2>1, <2>3, <2>4, <2>5 DEF PipelineTypeOK
<1>5. \A cap \in Caps : initial_state_table[cap].type = "none"
  BY DEF PipelineInit, ScanInit, NotAccessed
<1>6. ScanRight
  BY <1>3, <1>5 DEF ScanRight, PipelineInit, ScanInit, StatsInit, StoredBefore, Tagged,
        Initially, Granule, Stores
<1>7. TableRight
  BY <1>3, <1>5 DEF TableRight, RecordRight
<1>8. ViewTrue
  BY DEF ViewTrue, PipelineInit
<1>9. CensusTrue
  <2>1. phase = "initial" /\ index = 0 /\ view = [ln \in Lines |-> NoTags]
    BY DEF PipelineInit, StatsInit
  <2>2. \A cap \in Caps : ~ cap < 0
    BY SizeFacts DEF Caps
  <2> QED
    BY <2>1, <2>2 DEF CensusTrue
<1> QED
  BY <1>2, <1>4, <1>6, <1>7, <1>8, <1>9 DEF PInv

\* An entry that is added to a trace is the last; the others stay in place.
LEMMA AppendFacts ==
    ASSUME NEW s \in Seq(Entries), NEW e \in Entries
    PROVE  /\ Append(s, e) \in Seq(Entries)
           /\ Len(s) \in Nat
           /\ Len(Append(s, e)) = Len(s) + 1
           /\ \A p \in 1 .. Len(s) : Append(s, e)[p] = s[p]
           /\ Append(s, e)[Len(s) + 1] = e
OBVIOUS

LEMMA StoredBeforeNext ==
    ASSUME NEW s, NEW n \in Nat, NEW cap
    PROVE  StoredBefore(s, n + 1, cap) <=>
             StoredBefore(s, n, cap) \/ StoresTo(s[n + 1], cap)
<1>1. 1 .. n + 1 = (1 .. n) \cup {n + 1}
  OBVIOUS
<1> QED
  BY <1>1, Zenon DEF StoredBefore

LEMMA StoredBeforeAppend ==
    ASSUME NEW s \in Seq(Entries), NEW e \in Entries, NEW cap
    PROVE  /\ \A n \in 0 .. Len(s) :
                StoredBefore(Append(s, e), n, cap) <=> StoredBefore(s, n, cap)
           /\ StoredBefore(Append(s, e), Len(s) + 1, cap) <=>
                StoredBefore(s, Len(s), cap) \/ StoresTo(e, cap)
<1>1. ASSUME NEW n \in 0 .. Len(s)
      PROVE  StoredBefore(Append(s, e), n, cap) <=> StoredBefore(s, n, cap)
  <2>1. \A q \in 1 .. n : Append(s, e)[q] = s[q]
    BY AppendFacts
  <2> QED
    BY <2>1, Zenon DEF StoredBefore
<1>2. Len(s) \in 0 .. Len(s) /\ Len(s) \in Nat /\ Append(s, e)[Len(s) + 1] = e
  BY AppendFacts
<1>3. StoredBefore(Append(s, e), Len(s) + 1, cap) <=>
        StoredBefore(Append(s, e), Len(s), cap) \/ StoresTo(e, cap)
  BY <1>2, StoredBeforeNext
<1> QED
  BY <1>1, <1>2, <1>3

\* A store changes the granules it covers, and no others.
LEMMA AfterStoreTag ==
    ASSUME PipelineTypeOK, NEW e \in Entries, NEW cap \in Caps,
           memory' = AfterStore(e), ~ StoresTo(e, cap)
    PROVE  Granule(cap) \in memory'[LineOf(cap)] <=> Tagged(cap)
<1>1. LineOf(cap) \in Lines /\ Granule(cap) \in Granules
  BY GranuleOfCap
<1>2. memory \in [Lines -> SUBSET Granules] /\ LineOf(e.first) \in Lines
  BY EntryFacts DEF PipelineTypeOK
<1>3. CASE e.type \notin Stores
  BY <1>3 DEF AfterStore, Tagged, Granule
<1>4. CASE e.type \in Stores
  <2>1. memory' = [memory EXCEPT ![LineOf(e.first)] =
                     IF e.tag = 1 THEN @ \cup GranulesOf(e) ELSE @ \ GranulesOf(e)]
    BY <1>4 DEF AfterStore
  <2>2. LineOf(cap) = LineOf(e.first) => Granule(cap) \notin GranulesOf(e)
    BY <1>4, GranuleCovered DEF StoresTo
  <2> QED
    BY <1>1, <1>2, <2>1, <2>2 DEF Tagged, Granule
<1> QED
  BY <1>3, <1>4

LEMMA AfterStoreType ==
    ASSUME PipelineTypeOK, NEW e \in Entries
    PROVE  AfterStore(e) \in [Lines -> SUBSET Granules]
BY EntryFacts DEF AfterStore, PipelineTypeOK

\* What a trace shows of a tag that nothing has stored is the first tag.
LEMMA ShownTag ==
    ASSUME PInv, ~ aborted, stage = "scan", NEW e \in Entries, Consistent(e),
           Covered(e) \subseteq Caps, NEW cap \in Covered(e), cap \notin modified_paddrs
    PROVE  /\ cap \in Caps
           /\ e.type = "CLOAD" => (e.tag = 1 <=> Initially(cap))
           /\ e.type = "INSTR" => ~ Initially(cap)
<1>1. cap \in Caps /\ LineOf(cap) = LineOf(e.first)
  BY CoveredInLine
<1>2. Granule(cap) \in GranulesOf(e)
  BY <1>1, GranuleCovered
<1>3. Tagged(cap) <=> Initially(cap)
  BY <1>1 DEF PInv, ScanRight
<1>4. Tagged(cap) <=> Granule(cap) \in memory[LineOf(e.first)]
  BY <1>1 DEF Tagged, Granule
<1>5. e.type = "INSTR" => GranulesOf(e) \cap memory[LineOf(e.first)] = {}
  BY DEF Consistent
<1>6. e.type = "CLOAD" => (GranulesOf(e) \subseteq memory[LineOf(e.first)] <=> e.tag = 1)
  BY DEF Consistent
<1>7. ASSUME e.type = "CLOAD" PROVE GranulesOf(e) = {Granule(cap)}
  <2>1. Covered(e) = {cap}
    BY <1>7, EntryFacts
  <2>2. \A g \in GranulesOf(e) : g = Granule(cap)
    <3>1. SUFFICES ASSUME NEW g \in Granules, CapOf(LineOf(e.first), g) = cap
                   PROVE  g = Granule(cap)
      BY <2>1 DEF GranulesOf
    <3> QED
      BY <3>1, CapOfGranule, EntryFacts
  <2> QED
    BY <1>2, <2>2
<1> QED
  BY <1>1, <1>2, <1>3, <1>4, <1>5, <1>6, <1>7

\* One entry, when no assertion fails.
LEMMA ScanPInv ==
    ASSUME PInv, NEW e \in Entries, ScanEntry(e), Scan(e)
    PROVE  /\ TableRight'
           /\ ScanRight'
           /\ initial_state_table' \in [Caps -> InitialAccess]
<1>1. /\ stage = "scan" /\ Consistent(e) /\ ~ aborted /\ ~ aborted'
      /\ Covered(e) \subseteq Caps
      /\ trace' = Append(trace, e)
      /\ memory' = AfterStore(e)
      /\ UNCHANGED <<stage, phase, index, stored, initial>>
  BY DEF ScanEntry, Scan, ScanFails, stats_vars
<1>2. /\ trace \in Seq(Entries)
      /\ trace' \in Seq(Entries)
      /\ Len(trace) \in Nat
      /\ Len(trace') = Len(trace) + 1
      /\ \A p \in 1 .. Len(trace) : trace'[p] = trace[p]
      /\ trace'[Len(trace) + 1] = e
  BY <1>1, AppendFacts DEF PInv, PipelineTypeOK
<1>3. \A cap \in Caps :
        initial_state_table'[cap] =
          IF cap \in Covered(e) /\ (Unread(cap) \/ FirstTagRead(cap, e))
            THEN [type |-> e.type, tag |-> e.tag]
            ELSE initial_state_table[cap]
  BY DEF Scan
<1>4. initial_state_table' \in [Caps -> InitialAccess]
  <2>1. initial_state_table \in [Caps -> InitialAccess]
    BY DEF PInv, StatsTypeOK
  <2>2. [type |-> e.type, tag |-> e.tag] \in InitialAccess
    BY EntryFacts DEF InitialAccess
  <2> QED
    BY <2>1, <2>2 DEF Scan
<1>5. \A cap \in Caps :
        cap \in modified_paddrs' <=> cap \in modified_paddrs \/ StoresTo(e, cap)
  BY DEF Scan, StoresTo
<1>6. \A cap \in Caps :
        /\ cap \in modified_paddrs <=> StoredBefore(trace, Len(trace), cap)
        /\ cap \notin modified_paddrs => (Tagged(cap) <=> Initially(cap))
        /\ initial_state_table[cap].type \in Stores => cap \in modified_paddrs
        /\ RecordRight(cap)
  BY <1>1 DEF PInv, ScanRight, TableRight
<1>7. \A cap \in Caps : Initially(cap)' <=> Initially(cap)
  BY <1>1 DEF Initially, Granule
<1>8. ASSUME NEW cap \in Caps PROVE RecordRight(cap)'
  <2>1. CASE cap \in Covered(e) /\ (Unread(cap) \/ FirstTagRead(cap, e))
    <3>1. initial_state_table'[cap].type = e.type /\ initial_state_table'[cap].tag = e.tag
      BY <1>3, <2>1
    <3>2. cap \notin modified_paddrs \/ e.type \notin {"CLOAD", "INSTR"}
      <4>1. CASE FirstTagRead(cap, e)
        BY <4>1 DEF FirstTagRead
      <4>2. CASE Unread(cap)
        <5>1. ASSUME StoredBefore(trace, Len(trace), cap) PROVE FALSE
          <6>1. PICK q \in 1 .. Len(trace) : StoresTo(trace[q], cap)
            BY <5>1 DEF StoredBefore
          <6>2. GuessRight(trace[q], q - 1, cap)
            BY <1>1, <6>1 DEF PInv, TableRight, StoresTo
          <6> QED
            BY <4>2, <6>2 DEF GuessRight
        <5> QED
          BY <1>6, <5>1
      <4> QED
        BY <2>1, <4>1, <4>2
    <3>3. /\ e.type = "CLOAD" => (e.tag = 1 <=> Initially(cap))
          /\ e.type = "INSTR" => ~ Initially(cap)
      BY <1>1, <2>1, <3>2, ShownTag
    <3> QED
      BY <1>7, <3>1, <3>3 DEF RecordRight
  <2>2. CASE ~ (cap \in Covered(e) /\ (Unread(cap) \/ FirstTagRead(cap, e)))
    <3>1. initial_state_table'[cap] = initial_state_table[cap]
      BY <1>3, <2>2
    <3> QED
      BY <1>6, <1>7, <3>1 DEF RecordRight
  <2> QED
    BY <2>1, <2>2
<1>9. \A cap \in Caps : initial_state_table'[cap].type = "CLOAD" =>
                           (Guess(cap)' <=> Initially(cap))
  BY <1>7, <1>8 DEF RecordRight, Guess, GuessInitialTag
<1>10. ASSUME NEW p \in 1 .. Len(trace), NEW cap \in Covered(trace[p])
       PROVE  /\ cap \in Caps
              /\ ~ Unread(cap)'
              /\ trace[p].type \in {"INSTR", "CLOAD"} /\ ~ StoredBefore(trace', p - 1, cap)
                   => (Guess(cap)' <=> Initially(cap))
  <2>1. cap \in Caps /\ GuessRight(trace[p], p - 1, cap)
    BY <1>1 DEF PInv, TableRight
  <2>2. StoredBefore(trace', p - 1, cap) <=> StoredBefore(trace, p - 1, cap)
    <3>1. p - 1 \in 0 .. Len(trace)
      BY <1>2
    <3> QED
      BY <1>1, <1>2, <3>1, StoredBeforeAppend
  <2>3. CASE initial_state_table'[cap] = initial_state_table[cap]
    BY <2>1, <2>2, <2>3 DEF GuessRight, Unread, Guess
  <2>4. CASE initial_state_table'[cap] # initial_state_table[cap]
    <3>1. FirstTagRead(cap, e) /\ initial_state_table'[cap].type = e.type
      BY <1>3, <2>1, <2>4 DEF GuessRight
    <3>2. initial_state_table'[cap].type = "CLOAD"
      BY <3>1 DEF FirstTagRead
    <3> QED
      BY <1>9, <2>1, <3>2 DEF Unread
  <2> QED
    BY <2>3, <2>4
<1>11. ASSUME NEW cap \in Covered(e)
       PROVE  /\ cap \in Caps
              /\ ~ Unread(cap)'
              /\ e.type \in {"INSTR", "CLOAD"} /\ ~ StoredBefore(trace', Len(trace), cap)
                   => (Guess(cap)' <=> Initially(cap))
  <2>1. cap \in Caps /\ e.type \in Types
    BY <1>1, EntryFacts
  <2>2. ~ Unread(cap)'
    BY <1>3, <2>1 DEF Unread, Types
  <2>3. ASSUME e.type \in {"INSTR", "CLOAD"}, ~ StoredBefore(trace', Len(trace), cap)
        PROVE  Guess(cap)' <=> Initially(cap)
    <3>1. cap \notin modified_paddrs
      <4>1. Len(trace) \in 0 .. Len(trace)
        BY <1>2
      <4> QED
        BY <1>1, <1>2, <1>6, <2>1, <2>3, <4>1, StoredBeforeAppend
    <3>2. /\ e.type = "CLOAD" => (e.tag = 1 <=> Initially(cap))
          /\ e.type = "INSTR" => ~ Initially(cap)
      BY <1>1, <3>1, ShownTag
    <3>3. initial_state_table'[cap].type \in {"INSTR", "LOAD", "CLOAD"}
      <4>1. initial_state_table'[cap].type \in Types \cup {"none"}
        BY <1>4, <2>1 DEF InitialAccess
      <4>2. initial_state_table'[cap].type \notin Stores
        BY <1>3, <1>6, <2>1, <2>3, <3>1 DEF Stores
      <4> QED
        BY <2>2, <4>1, <4>2 DEF Types, Stores, Unread
    <3>4. CASE initial_state_table'[cap].type = "CLOAD"
      BY <1>9, <2>1, <3>4
    <3>5. CASE initial_state_table'[cap].type = "INSTR"
      BY <1>7, <1>8, <2>1, <3>5 DEF RecordRight, Guess, GuessInitialTag
    <3>6. CASE initial_state_table'[cap].type = "LOAD"
      <4>1. e.type = "INSTR"
        BY <1>3, <2>1, <2>3, <3>1, <3>6 DEF FirstTagRead, Unread
      <4> QED
        BY <3>2, <3>6, <4>1 DEF Guess, GuessInitialTag
    <3> QED
      BY <3>3, <3>4, <3>5, <3>6
  <2> QED
    BY <2>1, <2>2, <2>3
<1>12. TableRight'
  <2>1. ASSUME NEW p \in 1 .. Len(trace')
        PROVE  /\ Covered(trace'[p]) \subseteq Caps
               /\ \A cap \in Covered(trace'[p]) :
                    /\ ~ Unread(cap)'
                    /\ trace'[p].type \in {"INSTR", "CLOAD"}
                         /\ ~ StoredBefore(trace', p - 1, cap)
                         => (Guess(cap)' <=> Initially(cap))
    <3>1. CASE p \in 1 .. Len(trace)
      <4>1. trace'[p] = trace[p]
        BY <1>2, <3>1
      <4> QED
        BY <1>10, <3>1, <4>1
    <3>2. CASE p = Len(trace) + 1
      <4>1. trace'[p] = e /\ p - 1 = Len(trace)
        BY <1>2, <3>2
      <4> QED
        BY <1>11, <4>1
    <3> QED
      BY <1>2, <3>1, <3>2
  <2>2. \A p \in 1 .. Len(trace') : \A cap \in Covered(trace'[p]) : cap \in Caps
    BY <2>1
  <2> QED
    BY <1>7, <1>8, <2>1, <2>2 DEF TableRight, GuessRight
<1>13. ScanRight'
  <2>1. phase = "initial" /\ index = 0
    BY <1>1 DEF PInv, ScanRight
  <2>2. ASSUME NEW cap \in Caps
        PROVE  /\ cap \in modified_paddrs' <=> StoredBefore(trace', Len(trace'), cap)
               /\ cap \notin modified_paddrs' => (Tagged(cap)' <=> Initially(cap)')
               /\ initial_state_table'[cap].type \in Stores => cap \in modified_paddrs'
    <3>1. StoredBefore(trace', Len(trace'), cap) <=>
            StoredBefore(trace, Len(trace), cap) \/ StoresTo(e, cap)
      BY <1>1, <1>2, StoredBeforeAppend
    <3>2. cap \notin modified_paddrs' => (Tagged(cap)' <=> Initially(cap)')
      <4>1. SUFFICES ASSUME cap \notin modified_paddrs' PROVE Tagged(cap)' <=> Initially(cap)'
        OBVIOUS
      <4>2. ~ StoresTo(e, cap) /\ cap \notin modified_paddrs
        BY <1>5, <4>1
      <4>3. Tagged(cap)' <=> Tagged(cap)
        BY <1>1, <4>2, AfterStoreTag DEF PInv, Tagged, Granule
      <4> QED
        BY <1>6, <1>7, <4>2, <4>3
    <3>3. initial_state_table'[cap].type \in Stores => cap \in modified_paddrs'
      BY <1>3, <1>5, <1>6 DEF StoresTo
    <3> QED
      BY <1>5, <1>6, <3>1, <3>2, <3>3
  <2> QED
    BY <1>1, <2>1, <2>2 DEF ScanRight
<1> QED
  BY <1>4, <1>12, <1>13

LEMMA ScanEntryPInv ==
    ASSUME PInv, NEW e \in Entries, ScanEntry(e)
    PROVE  PInv'
<1>1. /\ stage = "scan" /\ stage' = "scan" /\ position' = position + 1
      /\ trace' = Append(trace, e)
      /\ memory' = AfterStore(e)
      /\ UNCHANGED <<stats_vars, initial, view, stored>>
      /\ Scan(e) \/ ScanAborts(e)
  BY DEF ScanEntry
<1>2. phase = "initial" /\ index = 0
  BY <1>1 DEF PInv, ScanRight
<1>3. initial_state_table' \in [Caps -> InitialAccess] /\ aborted' \in BOOLEAN
  <2>1. CASE Scan(e)
    BY <2>1, ScanPInv DEF PInv, PipelineTypeOK, Scan
  <2>2. CASE ScanAborts(e)
    BY <2>2 DEF ScanAborts, PInv, StatsTypeOK
  <2> QED
    BY <1>1, <2>1, <2>2
<1>4. StatsTypeOK' /\ CountsAgree'
  BY <1>1, <1>3 DEF PInv, StatsTypeOK, CountsAgree, stats_vars, counts_vars
<1>5. PipelineTypeOK'
  <2>1. /\ trace' \in Seq(Entries)
        /\ position' \in 0 .. Len(trace')
    BY <1>1, AppendFacts DEF PInv, PipelineTypeOK
  <2>2. memory' \in [Lines -> SUBSET Granules]
    BY <1>1, AfterStoreType DEF PInv
  <2> QED
    BY <1>1, <1>3, <2>1, <2>2 DEF PInv, PipelineTypeOK
<1>6. ScanRight' /\ TableRight'
  <2>1. CASE Scan(e)
    BY <2>1, ScanPInv
  <2>2. CASE ScanAborts(e)
    <3>1. aborted'
      BY <2>2 DEF ScanAborts
    <3> QED
      BY <1>1, <1>2, <3>1 DEF ScanRight, TableRight, stats_vars
  <2> QED
    BY <1>1, <2>1, <2>2
<1>7. ViewTrue'
  BY <1>1 DEF ViewTrue
<1>8. CensusTrue'
  <2>1. phase' = "initial" /\ index' = 0 /\ view' = [ln \in Lines |-> NoTags]
    BY <1>1, <1>2 DEF PInv, CensusTrue, stats_vars
  <2>2. \A cap \in Caps : ~ cap < 0
    BY SizeFacts DEF Caps
  <2> QED
    BY <2>1, <2>2 DEF CensusTrue
<1> QED
  BY <1>4, <1>5, <1>6, <1>7, <1>8 DEF PInv

\* The file is written: what the trace has shown is all that is kept.
LEMMA ScanEndsPInv ==
    ASSUME PInv, ScanEnds
    PROVE  PInv'
<1>1. /\ stage = "scan" /\ ~ aborted
      /\ stage' = "simulate" /\ position' = 0 /\ memory' = initial
      /\ UNCHANGED <<scan_vars, stats_vars, trace, initial, view, stored>>
  BY DEF ScanEnds
<1>2. phase = "initial" /\ index = 0
  BY <1>1 DEF PInv, ScanRight
<1>3. StatsTypeOK' /\ CountsAgree'
  BY <1>1 DEF PInv, StatsTypeOK, CountsAgree, stats_vars, counts_vars, scan_vars
<1>4. PipelineTypeOK'
  BY <1>1 DEF PInv, PipelineTypeOK, scan_vars
<1>5. ScanRight'
  BY <1>1 DEF ScanRight
<1>6. TableRight'
  BY <1>1 DEF PInv, TableRight, RecordRight, GuessRight, Unread, Guess, Initially, Granule,
        StoredBefore, scan_vars
<1>7. ViewTrue'
  <2>1. view' = [ln \in Lines |-> NoTags]
    BY <1>1, <1>2 DEF PInv, CensusTrue
  <2>2. ASSUME NEW cap \in Caps
        PROVE  ~ Known(cap)' /\ (Tagged(cap)' <=> Initially(cap)')
               /\ ~ StoredBefore(trace, 0, cap)
    BY <1>1, <2>1, GranuleOfCap DEF Known, NoTags, Tagged, Initially, Granule, StoredBefore
  <2> QED
    BY <1>1, <2>2 DEF ViewTrue, scan_vars
<1>8. CensusTrue'
  BY <1>1, <1>2 DEF PInv, CensusTrue, Counted, Guess, stats_vars, counts_vars, scan_vars
<1> QED
  BY <1>3, <1>4, <1>5, <1>6, <1>7, <1>8 DEF PInv

-----------------------------------------------------------------------------
(* The statistics *)

\* What a step of the statistics keeps.
LEMMA StatsKeep ==
    ASSUME PInv,
           UNCHANGED <<initial_state_table, aborted, trace, position, stage, initial,
                       memory, view, modified_paddrs>>,
           stage = "simulate"
    PROVE  PipelineTypeOK' /\ ScanRight' /\ TableRight' /\ ViewTrue'
<1>1. PipelineTypeOK'
  BY DEF PInv, PipelineTypeOK
<1>2. ScanRight'
  BY DEF ScanRight
<1>3. TableRight'
  BY DEF PInv, TableRight, RecordRight, GuessRight, Unread, Guess, Initially, Granule,
     StoredBefore
<1>4. ViewTrue'
  BY DEF PInv, ViewTrue, Known, Seen, Tagged, Initially, Granule, StoredBefore
<1> QED
  BY <1>1, <1>2, <1>3, <1>4

\* The census counts a granule after an update as the update says, and the
\* other granules as it did.
LEMMA UpdateTagCounted ==
    ASSUME NEW cap, NEW tag_set, UpdateTag(cap, tag_set)
    PROVE  /\ cap \in tagged_capabilities' <=> tag_set
           /\ \A other : other # cap =>
                (other \in tagged_capabilities' <=> other \in tagged_capabilities)
<1>1. CASE tag_set /\ cap \notin tagged_capabilities
  BY <1>1 DEF UpdateTag, SetTag
<1>2. CASE ~ tag_set /\ cap \in tagged_capabilities
  BY <1>2 DEF UpdateTag, ClearTag
<1>3. CASE ~ (tag_set /\ cap \notin tagged_capabilities)
           /\ ~ (~ tag_set /\ cap \in tagged_capabilities)
  BY <1>3 DEF UpdateTag, counts_vars
<1> QED
  BY <1>1, <1>2, <1>3

LEMMA ReadRecordPInv ==
    ASSUME PInv, StatsStep, ReadRecord
    PROVE  PInv'
<1>1. /\ stage = "simulate" /\ phase = "initial"
      /\ UNCHANGED <<initial_state_table, aborted, trace, position, stage, initial,
                     memory, view, modified_paddrs>>
      /\ UpdateTag(index, Guess(index))
      /\ IF index + 1 < NumCaps
           THEN index' = index + 1 /\ UNCHANGED phase
           ELSE index' = 0 /\ phase' = "next"
  BY DEF StatsStep, ReadRecord, Guess
<1>2. PipelineTypeOK' /\ ScanRight' /\ TableRight' /\ ViewTrue'
  BY <1>1, StatsKeep
<1>3. StatsTypeOK' /\ CountsAgree'
  BY NextIInv DEF PInv, IInv, Next
<1>4. index \in Caps /\ Guess(index) \in BOOLEAN
  BY DEF PInv, StatsTypeOK, Guess, GuessInitialTag
<1>5. \A cap \in Caps : cap < index + 1 => (Counted(cap)' <=> Guess(cap))
  <2>1. \A cap \in Caps : cap < index => (Counted(cap) <=> Guess(cap))
    BY <1>1 DEF PInv, CensusTrue
  <2>2. \A cap \in Caps : cap < index + 1 => cap < index \/ cap = index
    BY <1>4, SizeFacts DEF Caps
  <2>3. \A cap \in Caps : cap < index => cap # index
    BY <1>4, SizeFacts DEF Caps
  <2> QED
    BY <1>1, <1>4, <2>1, <2>2, <2>3, UpdateTagCounted DEF Counted
<1>6. \A cap \in Caps : Guess(cap)' <=> Guess(cap)
  BY <1>1 DEF Guess
<1>7. view' = [ln \in Lines |-> NoTags]
  BY <1>1 DEF PInv, CensusTrue
<1>8. CensusTrue'
  <2>1. CASE index + 1 < NumCaps
    BY <1>1, <1>5, <1>6, <1>7, <2>1 DEF CensusTrue
  <2>2. CASE ~ index + 1 < NumCaps
    <3>1. phase' = "next" /\ stage' = "simulate"
      BY <1>1, <2>2
    <3>2. \A cap \in Caps : cap < index + 1
      BY <1>4, <2>2, SizeFacts DEF Caps
    <3>3. \A cap \in Caps : ~ Known(cap)'
      BY <1>7, GranuleOfCap DEF Known, NoTags, Granule
    <3>4. \A cap \in Caps : Counted(cap)' <=> TagToCome(cap)'
      BY <1>5, <1>6, <3>2, <3>3 DEF TagToCome
    <3> QED
      BY <3>1, <3>4 DEF CensusTrue
  <2> QED
    BY <2>1, <2>2
<1> QED
  BY <1>2, <1>3, <1>8 DEF PInv

\* A granule that a request brings gets the tag the census would give it.
LEMMA AccountTag ==
    ASSUME PInv, phase = "request"
    PROVE  /\ CapOf(request.line, index) \in Caps
           /\ RequestTag(index) <=> TagToCome(CapOf(request.line, index))
<1>1. request.line \in Lines /\ index \in Granules /\ request.tags = view[request.line]
  BY DEF PInv, StatsTypeOK, CensusTrue, Request
<1>2. /\ CapOf(request.line, index) \in Caps
      /\ LineOf(CapOf(request.line, index)) = request.line
      /\ Granule(CapOf(request.line, index)) = index
  BY <1>1, CapOfGranule
<1> QED
  BY <1>1, <1>2 DEF RequestTag, TagToCome, Known, Seen, Guess

LEMMA AccountPInv ==
    ASSUME PInv, StatsStep, Account
    PROVE  PInv'
<1> DEFINE cap == CapOf(request.line, index)
<1>1. /\ stage = "simulate" /\ phase = "request"
      /\ UNCHANGED <<initial_state_table, aborted, trace, position, stage, initial,
                     memory, view, modified_paddrs>>
      /\ UpdateTag(cap, RequestTag(index))
      /\ \/ phase' = "request" /\ UNCHANGED request
         \/ phase' = "next"
  BY DEF StatsStep, Account
<1>2. stored' = stored \ {cap}
  BY <1>1 DEF StatsStep, ReadRecord
<1>3. PipelineTypeOK' /\ ScanRight' /\ TableRight' /\ ViewTrue'
  BY <1>1, StatsKeep
<1>4. StatsTypeOK' /\ CountsAgree'
  BY NextIInv DEF PInv, IInv, Next
<1>5. cap \in Caps /\ (RequestTag(index) <=> TagToCome(cap))
  BY <1>1, AccountTag
<1>6. \A c \in Caps : TagToCome(c)' <=> TagToCome(c)
  BY <1>1 DEF TagToCome, Known, Seen, Guess, Granule
<1> HIDE DEF cap
<1>7. ASSUME NEW c \in Caps, c \notin stored'
      PROVE  Counted(c)' <=> TagToCome(c)
  <2>1. CASE c = cap
    BY <1>1, <1>5, <2>1, UpdateTagCounted DEF Counted
  <2>2. CASE c # cap
    <3>1. c \notin stored
      BY <1>2, <1>7, <2>2
    <3>2. Counted(c) <=> TagToCome(c)
      BY <1>1, <3>1 DEF PInv, CensusTrue
    <3>3. Counted(c)' <=> Counted(c)
      BY <1>1, <2>2, UpdateTagCounted DEF Counted
    <3> QED
      BY <3>2, <3>3
  <2> QED
    BY <2>1, <2>2
<1>8. phase' = "request" => request'.tags = view'[request'.line]
  BY <1>1 DEF PInv, CensusTrue
<1>9. CensusTrue'
  BY <1>1, <1>6, <1>7, <1>8 DEF CensusTrue
<1> QED
  BY <1>3, <1>4, <1>9 DEF PInv

LEMMA SendRequestPInv ==
    ASSUME PInv, NEW ln \in Lines, SendRequest(ln)
    PROVE  PInv'
<1> DEFINE r == [line |-> ln, tags |-> view[ln]]
<1>1. /\ stage = "simulate" /\ phase = "next"
      /\ ReadRequest(r)
      /\ request' = r /\ phase' = "request"
      /\ UNCHANGED <<tagged_capabilities, initial_state_table, aborted, trace, position,
                     stage, initial, memory, view, modified_paddrs, stored>>
  BY DEF SendRequest, ReadRequest, counts_vars
<1>2. PipelineTypeOK' /\ ScanRight' /\ TableRight' /\ ViewTrue'
  BY <1>1, StatsKeep
<1>3. r \in Request
  BY DEF PInv, PipelineTypeOK, Request
<1>4. StatsTypeOK' /\ CountsAgree'
  BY <1>1, <1>3, NextIInv DEF PInv, IInv, Next
<1>5. \A cap \in Caps : cap \notin stored => (Counted(cap) <=> TagToCome(cap))
  BY <1>1 DEF PInv, CensusTrue
<1>6. CensusTrue'
  BY <1>1, <1>5 DEF CensusTrue, Counted, TagToCome, Known, Seen, Guess, Granule
<1> QED
  BY <1>2, <1>4, <1>6 DEF PInv

-----------------------------------------------------------------------------
(* The second reading of the trace *)

\* What holds of every step that reads an entry.
LEMMA SimulateKeep ==
    ASSUME PInv, SimulateEntry
    PROVE  /\ StatsTypeOK' /\ CountsAgree' /\ ScanRight' /\ TableRight'
           /\ trace[position + 1] \in Entries
           /\ Covered(trace[position + 1]) \subseteq Caps
           /\ position \in Nat
<1>1. /\ stage = "simulate" /\ stage' = "simulate"
      /\ position < Len(trace)
      /\ UNCHANGED <<scan_vars, stats_vars, trace, initial>>
  BY DEF SimulateEntry
<1>2. StatsTypeOK' /\ CountsAgree'
  BY <1>1 DEF PInv, StatsTypeOK, CountsAgree, stats_vars, counts_vars, scan_vars
<1>3. ScanRight'
  BY <1>1 DEF ScanRight
<1>4. TableRight'
  BY <1>1 DEF PInv, TableRight, RecordRight, GuessRight, Unread, Guess, Initially, Granule,
        StoredBefore, scan_vars
<1>5. trace \in Seq(Entries) /\ position \in Nat /\ position + 1 \in 1 .. Len(trace)
  BY <1>1 DEF PInv, PipelineTypeOK
<1>6. trace[position + 1] \in Entries
  BY <1>5
<1>7. Covered(trace[position + 1]) \subseteq Caps
  BY <1>1, <1>5 DEF PInv, ViewTrue, TableRight
<1> QED
  BY <1>2, <1>3, <1>4, <1>5, <1>6, <1>7

\* An entry whose tag nothing has stored shows the tag the census guessed.
LEMMA ShownGuess ==
    ASSUME PInv, SimulateEntry, NEW cap \in Covered(trace[position + 1]),
           trace[position + 1].type \in {"INSTR", "CLOAD"}, ~ Known(cap)
    PROVE  Guess(cap) <=> Tagged(cap)
<1>1. /\ cap \in Caps /\ stage = "simulate" /\ position + 1 \in 1 .. Len(trace)
      /\ (position + 1) - 1 = position
  BY SimulateKeep DEF SimulateEntry, PInv, PipelineTypeOK
<1>2. (Tagged(cap) <=> Initially(cap)) /\ ~ StoredBefore(trace, position, cap) /\ ~ aborted
  BY <1>1 DEF PInv, ViewTrue
<1>3. GuessRight(trace[position + 1], position, cap)
  BY <1>1, <1>2 DEF PInv, TableRight
<1> QED
  BY <1>2, <1>3 DEF GuessRight

\* A step of the simulator that leaves what is known of a granule right
\* leaves the invariant.
LEMMA SimulatePInv ==
    ASSUME PInv, SimulateEntry,
           memory' \in [Lines -> SUBSET Granules],
           view' \in [Lines -> TagState],
           \A ln \in Lines : Masked(view'[ln]),
           \A cap \in Caps :
             /\ Known(cap)' => (Seen(cap)' <=> Tagged(cap)')
             /\ ~ Known(cap)' => /\ ~ Known(cap)
                                 /\ Tagged(cap)' <=> Tagged(cap)
                                 /\ ~ StoresTo(trace[position + 1], cap)
             /\ cap \notin stored' => /\ cap \notin stored
                                      /\ TagToCome(cap)' <=> TagToCome(cap)
    PROVE  PInv'
<1>1. /\ stage = "simulate" /\ stage' = "simulate" /\ phase = "next" /\ phase' = "next"
      /\ position < Len(trace) /\ position' = position + 1
      /\ UNCHANGED <<scan_vars, stats_vars, trace, initial>>
  BY DEF SimulateEntry, stats_vars
<1>2. PipelineTypeOK'
  BY <1>1 DEF PInv, PipelineTypeOK, scan_vars
<1>3. ViewTrue'
  <2>1. ~ aborted'
    BY <1>1 DEF PInv, ViewTrue, scan_vars
  <2>2. ASSUME NEW cap \in Caps, ~ Known(cap)'
        PROVE  /\ Tagged(cap)' <=> Initially(cap)'
               /\ ~ StoredBefore(trace, position + 1, cap)
    <3>1. ~ Known(cap) /\ (Tagged(cap)' <=> Tagged(cap)) /\ ~ StoresTo(trace[position + 1], cap)
      BY <2>2
    <3>2. (Tagged(cap) <=> Initially(cap)) /\ ~ StoredBefore(trace, position, cap)
      BY <1>1, <3>1 DEF PInv, ViewTrue
    <3>3. Initially(cap)' <=> Initially(cap)
      BY <1>1 DEF Initially, Granule
    <3>4. ~ StoredBefore(trace, position + 1, cap)
      BY <3>1, <3>2, SimulateKeep, StoredBeforeNext
    <3> QED
      BY <3>1, <3>2, <3>3, <3>4
  <2> QED
    BY <1>1, <2>1, <2>2 DEF ViewTrue
<1>4. CensusTrue'
  <2>1. \A cap \in Caps : Counted(cap)' <=> Counted(cap)
    BY <1>1 DEF Counted, stats_vars, counts_vars
  <2>2. \A cap \in Caps : cap \notin stored => (Counted(cap) <=> TagToCome(cap))
    BY <1>1 DEF PInv, CensusTrue
  <2>3. \A cap \in Caps : cap \notin stored' => (Counted(cap)' <=> TagToCome(cap)')
    BY <2>1, <2>2
  <2> QED
    BY <1>1, <2>3 DEF CensusTrue
<1> QED
  BY <1>2, <1>3, <1>4, SimulateKeep DEF PInv

LEMMA SimulateStorePInv ==
    ASSUME PInv, SimulateEntry, trace[position + 1].type \in Stores
    PROVE  PInv'
<1> DEFINE e == trace[position + 1]
           ln == LineOf(e.first)
           gs == GranulesOf(e)
<1>1. /\ Simulator!Store(ln, gs, e.tag)
      /\ stored' = stored \cup Covered(e)
  BY DEF SimulateEntry, Stores
<1>2. e \in Entries /\ Covered(e) \subseteq Caps
  BY SimulateKeep
<1>3. ln \in Lines /\ gs \in SUBSET Granules /\ e.type \in Stores
  BY <1>2, EntryFacts
<1>4. /\ memory \in [Lines -> SUBSET Granules]
      /\ view \in [Lines -> TagState]
      /\ \A l \in Lines : Masked(view[l])
      /\ stage = "simulate"
  BY DEF PInv, PipelineTypeOK, SimulateEntry
<1>5. \A cap \in Caps : StoresTo(e, cap) <=>
                          LineOf(cap) = ln /\ Granule(cap) \in gs
  BY <1>2, <1>3, CoveredInLine, GranuleCovered DEF StoresTo
<1>6. \A cap \in Caps : LineOf(cap) \in Lines /\ Granule(cap) \in Granules
  BY GranuleOfCap
<1> HIDE DEF e, ln, gs
<1>7. /\ memory' = [memory EXCEPT ![ln] = IF e.tag = 1 THEN @ \cup gs ELSE @ \ gs]
      /\ view' = [view EXCEPT ![ln] = TagsSet(view[ln], gs, e.tag)]
  BY <1>1 DEF Simulator!Store, Simulator!TagsSet, TagsSet
<1>8. TagsSet(view[ln], gs, e.tag) \in TagState /\ Masked(TagsSet(view[ln], gs, e.tag))
  BY <1>3, <1>4 DEF TagsSet, TagState, Masked
<1>9. /\ memory' \in [Lines -> SUBSET Granules]
      /\ view' \in [Lines -> TagState]
      /\ \A l \in Lines : Masked(view'[l])
  BY <1>3, <1>4, <1>7, <1>8
<1>10. ASSUME NEW cap \in Caps
       PROVE  /\ Known(cap)' => (Seen(cap)' <=> Tagged(cap)')
              /\ ~ Known(cap)' => /\ ~ Known(cap)
                                  /\ Tagged(cap)' <=> Tagged(cap)
                                  /\ ~ StoresTo(e, cap)
              /\ cap \notin stored' => /\ cap \notin stored
                                       /\ TagToCome(cap)' <=> TagToCome(cap)
  <2>1. /\ Known(cap)' <=> Granule(cap) \in view'[LineOf(cap)].known
        /\ Seen(cap)' <=> Granule(cap) \in view'[LineOf(cap)].data
        /\ Tagged(cap)' <=> Granule(cap) \in memory'[LineOf(cap)]
        /\ Tagged(cap) <=> Granule(cap) \in memory[LineOf(cap)]
    BY DEF Known, Seen, Tagged, Granule
  <2>2. CASE StoresTo(e, cap)
    <3>1. LineOf(cap) = ln /\ Granule(cap) \in gs
      BY <1>5, <2>2
    <3>2. Known(cap)' /\ (Seen(cap)' <=> e.tag = 1) /\ (Tagged(cap)' <=> e.tag = 1)
      BY <1>3, <1>4, <1>7, <2>1, <3>1 DEF TagsSet
    <3>3. cap \in stored'
      BY <1>1, <2>2 DEF StoresTo
    <3> QED
      BY <3>2, <3>3
  <2>3. CASE ~ StoresTo(e, cap)
    <3>1. /\ Known(cap)' <=> Known(cap)
          /\ Seen(cap)' <=> Seen(cap)
          /\ Tagged(cap)' <=> Tagged(cap)
      <4>1. CASE LineOf(cap) = ln
        <5>1. Granule(cap) \notin gs
          BY <1>5, <2>3, <4>1
        <5> QED
          BY <1>3, <1>4, <1>7, <2>1, <4>1, <5>1 DEF TagsSet, Known, Seen
      <4>2. CASE LineOf(cap) # ln
        BY <1>4, <1>6, <1>7, <2>1, <4>2 DEF Known, Seen
      <4> QED
        BY <4>1, <4>2
    <3>2. Known(cap) => (Seen(cap) <=> Tagged(cap))
      BY <1>4 DEF PInv, ViewTrue
    <3>3. Guess(cap)' <=> Guess(cap)
      BY DEF SimulateEntry, scan_vars, Guess
    <3> QED
      BY <1>1, <2>3, <3>1, <3>2, <3>3 DEF TagToCome
  <2> QED
    BY <2>2, <2>3
<1> QED
  BY <1>9, <1>10, SimulatePInv DEF e

LEMMA SimulateLearnPInv ==
    ASSUME PInv, SimulateEntry, trace[position + 1].type \in {"INSTR", "CLOAD"}
    PROVE  PInv'
<1> DEFINE e == trace[position + 1]
           ln == LineOf(e.first)
           gs == GranulesOf(e)
<1>1. /\ Simulator!Learn(ln, gs)
      /\ UNCHANGED stored
  BY DEF SimulateEntry, Stores
<1>2. e \in Entries /\ Covered(e) \subseteq Caps
  BY SimulateKeep
<1>3. ln \in Lines /\ gs \in SUBSET Granules /\ e.type \notin Stores
  BY <1>2, EntryFacts DEF Stores
<1>4. /\ memory \in [Lines -> SUBSET Granules]
      /\ view \in [Lines -> TagState]
      /\ \A l \in Lines : Masked(view[l])
      /\ stage = "simulate"
  BY DEF PInv, PipelineTypeOK, SimulateEntry
<1>5. \A cap \in Caps : LineOf(cap) \in Lines /\ Granule(cap) \in Granules
  BY GranuleOfCap
<1>6. \A cap \in Caps : LineOf(cap) = ln /\ Granule(cap) \in gs => cap \in Covered(e)
  BY <1>2, GranuleCovered
<1>7. \A cap \in Covered(e) : ~ Known(cap) => (Guess(cap) <=> Tagged(cap))
  BY ShownGuess
<1> HIDE DEF e, ln, gs
<1>8. /\ memory' = memory
      /\ view' = [view EXCEPT ![ln] =
                    [data  |-> view[ln].data \cup (memory[ln] \cap gs),
                     known |-> view[ln].known \cup gs]]
  BY <1>1 DEF Simulator!Learn
<1>9. /\ memory' \in [Lines -> SUBSET Granules]
      /\ view' \in [Lines -> TagState]
      /\ \A l \in Lines : Masked(view'[l])
  <2> DEFINE t == [data  |-> view[ln].data \cup (memory[ln] \cap gs),
                   known |-> view[ln].known \cup gs]
  <2>1. t \in TagState /\ Masked(t)
    BY <1>3, <1>4 DEF TagState, Masked
  <2>2. view' = [view EXCEPT ![ln] = t]
    BY <1>8
  <2> HIDE DEF t
  <2> QED
    BY <1>3, <1>4, <1>8, <2>1, <2>2
<1>10. ASSUME NEW cap \in Caps
       PROVE  /\ Known(cap)' => (Seen(cap)' <=> Tagged(cap)')
              /\ ~ Known(cap)' => /\ ~ Known(cap)
                                  /\ Tagged(cap)' <=> Tagged(cap)
                                  /\ ~ StoresTo(e, cap)
              /\ cap \notin stored' => /\ cap \notin stored
                                       /\ TagToCome(cap)' <=> TagToCome(cap)
  <2>1. /\ Known(cap)' <=> Granule(cap) \in view'[LineOf(cap)].known
        /\ Seen(cap)' <=> Granule(cap) \in view'[LineOf(cap)].data
        /\ Tagged(cap)' <=> Tagged(cap)
        /\ Tagged(cap) <=> Granule(cap) \in memory[LineOf(cap)]
    BY <1>8 DEF Known, Seen, Tagged, Granule
  <2>2. /\ Known(cap) => (Seen(cap) <=> Tagged(cap))
        /\ ~ Known(cap) => ~ Seen(cap)
    BY <1>4, <1>5 DEF PInv, ViewTrue, Masked, Known, Seen
  <2>3. Guess(cap)' <=> Guess(cap)
    BY DEF SimulateEntry, scan_vars, Guess
  <2>4. ~ StoresTo(e, cap)
    BY <1>3 DEF StoresTo
  <2>5. CASE LineOf(cap) = ln /\ Granule(cap) \in gs
    <3>1. /\ Known(cap)'
          /\ Seen(cap)' <=> Seen(cap) \/ Tagged(cap)
      BY <1>3, <1>4, <1>8, <2>1, <2>5 DEF Known, Seen
    <3>2. ~ Known(cap) => (Guess(cap) <=> Tagged(cap))
      BY <1>6, <1>7, <2>5
    <3> QED
      BY <1>1, <2>1, <2>2, <3>1, <3>2 DEF TagToCome
  <2>6. CASE ~ (LineOf(cap) = ln /\ Granule(cap) \in gs)
    <3>1. /\ Known(cap)' <=> Known(cap)
          /\ Seen(cap)' <=> Seen(cap)
      <4>1. CASE LineOf(cap) = ln
        BY <1>3, <1>4, <1>8, <2>1, <2>6, <4>1 DEF Known, Seen
      <4>2. CASE LineOf(cap) # ln
        BY <1>4, <1>5, <1>8, <2>1, <4>2 DEF Known, Seen
      <4> QED
        BY <4>1, <4>2
    <3> QED
      BY <1>1, <2>1, <2>2, <2>3, <2>4, <3>1 DEF TagToCome
  <2> QED
    BY <2>5, <2>6
<1> QED
  BY <1>9, <1>10, SimulatePInv DEF e

LEMMA SimulateLoadPInv ==
    ASSUME PInv, SimulateEntry, trace[position + 1].type = "LOAD"
    PROVE  PInv'
<1>1. UNCHANGED <<memory, view, stored, initial_state_table>> /\ stage = "simulate"
  BY DEF SimulateEntry, Stores, scan_vars
<1>2. /\ memory \in [Lines -> SUBSET Granules]
      /\ view \in [Lines -> TagState]
      /\ \A l \in Lines : Masked(view[l])
  BY DEF PInv, PipelineTypeOK
<1>3. \A cap \in Caps : ~ StoresTo(trace[position + 1], cap)
  BY DEF StoresTo, Stores
<1>4. \A cap \in Caps :
        /\ Known(cap)' <=> Known(cap)
        /\ Seen(cap)' <=> Seen(cap)
        /\ Tagged(cap)' <=> Tagged(cap)
        /\ TagToCome(cap)' <=> TagToCome(cap)
  BY <1>1 DEF Known, Seen, Tagged, TagToCome, Guess, Granule
<1>5. \A cap \in Caps : Known(cap) => (Seen(cap) <=> Tagged(cap))
  BY <1>1 DEF PInv, ViewTrue
<1> QED
  BY <1>1, <1>2, <1>3, <1>4, <1>5, SimulatePInv

-----------------------------------------------------------------------------

\* After the initial state a step changes the tag of a granule in the census
\* only when a request brings a store.
LEMMA CountedKept ==
    ASSUME PInv, PipelineNext, phase # "initial", NEW cap \in Caps, cap \notin stored
    PROVE  Counted(cap) <=> Counted(cap)'
<1>1. stage = "simulate"
  BY DEF PInv, CensusTrue
<1>2. CASE Account
  <2> DEFINE c == CapOf(request.line, index)
  <2>1. phase = "request" /\ UpdateTag(c, RequestTag(index))
    BY <1>2 DEF Account
  <2>2. RequestTag(index) <=> TagToCome(c)
    BY <2>1, AccountTag
  <2>3. Counted(cap) <=> TagToCome(cap)
    BY <2>1 DEF PInv, CensusTrue
  <2> HIDE DEF c
  <2> QED
    BY <2>1, <2>2, <2>3, UpdateTagCounted DEF Counted
<1>3. CASE UNCHANGED tagged_capabilities
  BY <1>3 DEF Counted
<1>4. Account \/ UNCHANGED tagged_capabilities
  BY <1>1 DEF PipelineNext, ScanEntry, ScanEnds, StatsStep, ReadRecord, SimulateEntry,
        SendRequest, ReadRequest, stats_vars, counts_vars
<1> QED
  BY <1>2, <1>3, <1>4

LEMMA PipelineNextPInv == PInv /\ [PipelineNext]_pipeline_vars => PInv'
<1> SUFFICES ASSUME PInv, [PipelineNext]_pipeline_vars PROVE PInv'
  OBVIOUS
<1>1. ASSUME NEW e \in Entries, ScanEntry(e) PROVE PInv'
  BY <1>1, ScanEntryPInv
<1>2. CASE ScanEnds
  BY <1>2, ScanEndsPInv
<1>3. CASE StatsStep
  <2>1. ReadRecord \/ Account
    BY <1>3 DEF StatsStep
  <2> QED
    BY <1>3, <2>1, ReadRecordPInv, AccountPInv
<1>4. CASE SimulateEntry
  <2>1. trace[position + 1].type \in Types
    BY <1>4, SimulateKeep, EntryFacts
  <2>2. \/ trace[position + 1].type \in Stores
        \/ trace[position + 1].type \in {"INSTR", "CLOAD"}
        \/ trace[position + 1].type = "LOAD"
    BY <2>1 DEF Types, Stores
  <2> QED
    BY <1>4, <2>2, SimulateStorePInv, SimulateLearnPInv, SimulateLoadPInv
<1>5. ASSUME NEW ln \in Lines, SendRequest(ln) PROVE PInv'
  BY <1>5, SendRequestPInv
<1>6. CASE UNCHANGED pipeline_vars
  <2>1. /\ StatsTypeOK' /\ CountsAgree' /\ PipelineTypeOK'
    BY <1>6 DEF PInv, StatsTypeOK, CountsAgree, PipelineTypeOK, pipeline_vars, scan_vars,
          stats_vars, counts_vars
  <2>2. ScanRight' /\ TableRight'
    BY <1>6 DEF PInv, ScanRight, TableRight, RecordRight, GuessRight, Unread, Guess,
          Initially, Tagged, Granule, StoredBefore, pipeline_vars, scan_vars, stats_vars
  <2>3. ViewTrue' /\ CensusTrue'
    BY <1>6 DEF PInv, ViewTrue, CensusTrue, Known, Seen, Tagged, Initially, Granule,
          StoredBefore, Counted, TagToCome, Guess, pipeline_vars, scan_vars, stats_vars,
          counts_vars
  <2> QED
    BY <2>1, <2>2, <2>3 DEF PInv
<1> QED
  BY <1>1, <1>2, <1>3, <1>4, <1>5, <1>6 DEF PipelineNext

\* The invariant holds for every memory, every trace and every sequence of
\* requests.
THEOREM PipelineInvariance == PipelineSpec => []PInv
<1> QED
  BY PipelineInitPInv, PipelineNextPInv, PTL DEF PipelineSpec

\* The census of the statistics is right when what it reads is what
\* get-initial-state and the simulator have written.
THEOREM PipelineCensus == PipelineSpec => []CountsAgree
<1>1. PInv => CountsAgree
  BY DEF PInv
<1> QED
  BY <1>1, PipelineInvariance, PTL

\* No count goes below zero on the way (they are unsigned).
THEOREM PipelineNeverNegative == PipelineSpec => []StatsTypeOK
<1>1. PInv => StatsTypeOK
  BY DEF PInv
<1> QED
  BY <1>1, PipelineInvariance, PTL

\* A tag that the trace reads before it writes one is counted as the machine
\* has it, whether or not the simulator knows it, until a store changes it.
THEOREM ReadTagsReal == PipelineSpec => []ReadTagsAreReal
<1> QED
  BY PipelineInvariance, PInvFacts, PTL

\* That a request brings a tag the file could only guess changes no count:
\* after the initial state the census changes with stores alone.
THEOREM StoresAloneChangeTags == PipelineSpec => OnlyStoresChangeTags
<1> DEFINE Kept == phase # "initial" =>
                     \A cap \in Caps : Counted(cap) # Counted(cap)' => cap \in stored
<1>1. PInv /\ [PipelineNext]_pipeline_vars => [Kept]_pipeline_vars
  <2> SUFFICES ASSUME PInv, PipelineNext, phase # "initial", NEW cap \in Caps,
                      cap \notin stored
               PROVE  Counted(cap) = Counted(cap)'
    OBVIOUS
  <2> QED
    BY CountedKept DEF Counted
<1> QED
  BY <1>1, PipelineInvariance, PTL DEF PipelineSpec, OnlyStoresChangeTags

==============================================================================
