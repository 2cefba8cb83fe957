------------------------- MODULE EvidenceRetrieval -------------------------
(***************************************************************************)
(* RetrievalService.retrieve, running beside index generation and the      *)
(* review of bindings.                                                     *)
(*                                                                         *)
(* A request makes three separate reads: the published pointer             *)
(* (PostgreSQL), the vector search (Qdrant), the re-validation of the      *)
(* candidates (PostgreSQL).  Pointers move, points are written and         *)
(* bindings are revoked between them.                                      *)
(***************************************************************************)
EXTENDS IndexGeneration, FiniteSets

CONSTANTS
    Readers,        \* concurrent calls of retrieve
    Policies,       \* policy versions
    PolicyOf,       \* PolicyOf[b]: the policy version binding b attaches to
    Limit,          \* the most candidates a search returns
    UntrustedIndex  \* TRUE: Qdrant may answer a search with any ids

ASSUME RetrievalAssumption ==
    /\ PolicyOf \in [Bindings -> Policies]
    /\ Limit \in Nat \ {0}
    /\ UntrustedIndex \in BOOLEAN

VARIABLES
    bindState,  \* state of a binding: the status of its last event
    rpc,        \* where each reader is in retrieve
    asked,      \* the policy version it asks about
    pinned,     \* the generation id it read from the pointer
    found,      \* the candidate ids the search returned
    evidence    \* what it returned: chunk rows <<run, chunk hash>>

generationVars == vars
readerVars == <<rpc, asked, pinned, found, evidence>>
allVars == <<generationVars, bindState, readerVars>>

\* Two id spaces: generate_index names a point after the chunk hash, while a
\* chunk row has a uuid of its own.
PointId(h) == <<"point", h>>
RowId(r, h) == <<"row", r, h>>

ChunkRows == {x \in Runs \X Chunks : x[2] \in ChunksOf[x[1]]}
AllIds == {PointId(h) : h \in Chunks} \cup {RowId(x[1], x[2]) : x \in ChunkRows}

RetrievalTypeOK ==
    /\ TypeOK
    /\ bindState \in [Bindings -> {"PROPOSED", "APPROVED", "REVOKED"}]
    /\ rpc \in [Readers -> {"idle", "embed", "search", "revalidate", "answered"}]
    /\ asked \in [Readers -> Policies]
    /\ pinned \in [Readers -> Nat]
    /\ found \in [Readers -> SUBSET AllIds]
    /\ evidence \in [Readers -> SUBSET ChunkRows]

RetrievalInit ==
    /\ Init
    /\ bindState = [b \in Bindings |-> "PROPOSED"]
    /\ rpc = [q \in Readers |-> "idle"]
    /\ asked \in [Readers -> Policies]
    /\ pinned = [q \in Readers |-> 0]
    /\ found = [q \in Readers |-> {}]
    /\ evidence = [q \in Readers |-> {}]
-----------------------------------------------------------------------------
ReaderGoto(q, from, to) ==
    /\ rpc[q] = from
    /\ rpc' = [rpc EXCEPT ![q] = to]

\* The pointer of some binding of the policy version is read; when there are
\* several, any of them.  Without one the answer is empty at once and nothing
\* changes.
Ask(q, p) ==
    /\ ReaderGoto(q, "idle", "embed")
    /\ asked' = [asked EXCEPT ![q] = p]
    /\ \E b \in Bindings :
          /\ PolicyOf[b] = p
          /\ pub[b] # 0
          /\ pinned' = [pinned EXCEPT ![q] = pub[b]]
    /\ UNCHANGED <<generationVars, bindState, found, evidence>>

EmbedQuery(q) ==
    /\ ReaderGoto(q, "embed", "search")
    /\ UNCHANGED <<generationVars, bindState, asked, pinned, found, evidence>>

\* The points under the pinned generation.
Matching(q) == {h \in Chunks : points[h] = pinned[q]}

\* An honest index returns the nearest of the matching points; an untrusted one
\* returns anything.
Search(q) ==
    /\ ReaderGoto(q, "search", "revalidate")
    /\ \E ids \in SUBSET AllIds :
          /\ ids # {}
          /\ Cardinality(ids) <= Limit
          /\ UntrustedIndex \/ ids \subseteq {PointId(h) : h \in Matching(q)}
          /\ found' = [found EXCEPT ![q] = ids]
    /\ UNCHANGED <<generationVars, bindState, asked, pinned, evidence>>

\* The search finds nothing: the answer is empty.
SearchEmpty(q) ==
    /\ ReaderGoto(q, "search", "answered")
    /\ UntrustedIndex \/ Matching(q) = {}
    /\ UNCHANGED <<generationVars, bindState, asked, pinned, found, evidence>>

\* The call is over and its local variables are gone.
EndCall(q) ==
    /\ rpc' = [rpc EXCEPT ![q] = "idle"]
    /\ pinned' = [pinned EXCEPT ![q] = 0]
    /\ found' = [found EXCEPT ![q] = {}]
    /\ evidence' = [evidence EXCEPT ![q] = {}]
    /\ UNCHANGED <<generationVars, bindState, asked>>

\* The provider or Qdrant fails: EvidenceError.
RetrievalFails(q) ==
    /\ rpc[q] \in {"embed", "search"}
    /\ EndCall(q)

\* Mutant of ValidRows: the generation is left to the index.
RowsOfAnyGeneration(q) ==
    {x \in ChunkRows :
        /\ PolicyOf[BindingOf[x[1]]] = asked[q]
        /\ RowId(x[1], x[2]) \in found[q]}

\* The rows the join returns: the chunks of the run of the pinned generation,
\* under the asked policy version, whose row id is among the candidates.
ValidRows(q) ==
    {x \in ChunkRows :
        /\ genId[x[1]] = pinned[q]
        /\ PolicyOf[BindingOf[x[1]]] = asked[q]
        /\ RowId(x[1], x[2]) \in found[q]}

Revalidate(q) ==
    /\ ReaderGoto(q, "revalidate", "answered")
    /\ evidence' = [evidence EXCEPT ![q] = ValidRows(q)]
    /\ UNCHANGED <<generationVars, bindState, asked, pinned, found>>

\* The caller has its answer; the reader can ask again.
Done(q) ==
    /\ rpc[q] = "answered"
    /\ EndCall(q)

\* Review of a binding, one transaction each (module BindingLifecycle has the
\* detail); index generation and retrieval read none of it.
Approve(b) ==
    /\ bindState[b] = "PROPOSED"
    /\ bindState' = [bindState EXCEPT ![b] = "APPROVED"]
    /\ UNCHANGED <<generationVars, readerVars>>

Revoke(b) ==
    /\ bindState[b] = "APPROVED"
    /\ bindState' = [bindState EXCEPT ![b] = "REVOKED"]
    /\ UNCHANGED <<generationVars, readerVars>>

ReaderStep(q) ==
    \/ \E p \in Policies : Ask(q, p)
    \/ EmbedQuery(q)
    \/ Search(q)
    \/ SearchEmpty(q)
    \/ RetrievalFails(q)
    \/ Revalidate(q)
    \/ Done(q)

RetrievalNext ==
    \/ Next /\ UNCHANGED <<bindState, readerVars>>
    \/ \E q \in Readers : ReaderStep(q)
    \/ \E b \in Bindings : Approve(b) \/ Revoke(b)

RetrievalSpec == RetrievalInit /\ [][RetrievalNext]_allVars
-----------------------------------------------------------------------------
\* M6-14 and M6-05-C: whatever Qdrant answers, the evidence of one answer comes
\* from one completed run of a binding of the asked policy version, the run of
\* the generation the reader pinned, even when pointers moved meanwhile.
EvidenceFromPinnedRun ==
    \A q \in Readers : evidence[q] # {} =>
        \E r \in Completed :
            /\ genId[r] = pinned[q]
            /\ PolicyOf[BindingOf[r]] = asked[q]
            /\ \A x \in evidence[q] : x[1] = r

\* Evidence is made of chunk rows and, as said, of one run: what retrieve may return.
RetrievalInv == RetrievalTypeOK /\ EvidenceFromPinnedRun

\* A reader that pinned a generation finds its points and no others until its search
\* is over, even when another generation of the binding is built and published
\* at the same time; none is missing but for exposed ones.
PinnedGenerationStaysComplete ==
    \A q \in Readers : rpc[q] \in {"embed", "search"} =>
        \E r \in Completed :
            /\ genId[r] = pinned[q]
            /\ PolicyOf[BindingOf[r]] = asked[q]
            /\ Matching(q) \subseteq ChunksOf[r]
            /\ ChunksOf[r] \ Exposed \subseteq Matching(q)

\* M6-15: a revoked binding is filtered by an authoritative recheck.
NoRevokedEvidence ==
    [][\A q \in Readers : evidence'[q] # {} /\ rpc[q] = "revalidate" =>
          \A x \in evidence'[q] : bindState[BindingOf[x[1]]] # "REVOKED"]_allVars

\* M6-05-A, "authorized retrieval succeeds": when the search has found points of
\* the pinned generation, the answer is not empty.
FoundPointsGiveEvidence ==
    \A q \in Readers :
        rpc[q] = "answered" /\ found[q] # {} => evidence[q] # {}
-----------------------------------------------------------------------------
\* A pointer names the generation of a completed run of its binding,
PointersNameRuns ==
    \A b \in Bindings : pub[b] # 0 =>
        \E r \in Completed : BindingOf[r] = b /\ genId[r] = pub[b]

\* and what a reader has pinned is still the generation of such a run, under the policy
\* version it asks about, when the pointer has moved.
PinsNameRuns ==
    \A q \in Readers : rpc[q] # "idle" =>
        \E r \in Completed :
            /\ genId[r] # 0 /\ genId[r] = pinned[q]
            /\ PolicyOf[BindingOf[r]] = asked[q]

EvidenceIsPinned ==
    \A q \in Readers : evidence[q] # {} =>
        rpc[q] = "answered" /\ \A x \in evidence[q] : genId[x[1]] = pinned[q]

\* The run of a generation that a reader has pinned stays in place.
PinnedPoints ==
    \A q \in Readers : rpc[q] # "idle" =>
        \A r \in Completed : genId[r] = pinned[q] =>
            InPlace(r, pinned[q])

\* The inductive invariant.
RetrievalIInv ==
    /\ IInv
    /\ RetrievalTypeOK
    /\ PointersNameRuns
    /\ PinsNameRuns
    /\ EvidenceIsPinned
    /\ PinnedPoints
=============================================================================
