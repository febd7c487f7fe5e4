------------------------------ MODULE MediaStore ------------------------------
(***************************************************************************)
(* The entity table of the desktop (MediaStore.cpp), one of its query      *)
(* models and the search model above it.  All calls come on the GUI thread *)
(* and the signals between the three are direct, so a call is one action:  *)
(* the table changes, the query model tells which rows changed, and the    *)
(* search model updates its gram index and its result.                     *)
(*                                                                         *)
(* A title is kept as the set of grams it has, and matches a needle when   *)
(* it has all the grams of the needle.  Of the fields of an item the       *)
(* version the server gave it, the title and one user flag are kept; of    *)
(* a content revision only whether a journaled removal was the last change *)
(* of the rows.                                                            *)
(***************************************************************************)
EXTENDS Integers, SequencesExt

CONSTANTS
  Entities,    \* the items
  Grams,       \* the grams the needles and titles are made of
  Titles,      \* Titles[v]: the grams of the title at version v
  None,        \* no overlay, no baseline, no removal, no cache
  MaxEvents    \* bounds the calls

Versions == DOMAIN Titles

StoreAssumption ==
  /\ IsFiniteSet(Entities)
  /\ Titles \in Seq(SUBSET Grams)
  /\ None \notin BOOLEAN \cup Nat
  /\ MaxEvents \in Nat

VARIABLES
  stamped,    \* the server gives its items a DateLastSaved
  server,     \* the version each item has on the server
  fields,     \* m_entities[e].fields
  overlay,    \* m_entities[e].overlay: the flag a pending change shows
  rows,       \* MediaQueryModel.m_rows, by entity
  answered,   \* the rows the last answer gave
  journal,    \* m_mutations: the open change of each entity, or None
  baseline,   \* m_refreshSourceBaselines
  indexed,    \* MediaSearchModel.m_indexedTexts
  postings,   \* m_postings: the rows listed under each gram, in order
  unsorted,   \* m_hasStalePostings
  needle,     \* m_indexSearchText
  results,    \* m_sourceRows
  cache,      \* the library cache on disk, or None
  events      \* calls so far, bounded by MaxEvents

table == <<stamped, server, fields, overlay, baseline>>
search == <<indexed, postings, unsorted, needle, results>>
storeVars == <<stamped, server, fields, overlay, rows, answered, journal, baseline,
               indexed, postings, unsorted, needle, results, cache, events>>

Unknown == [version |-> 0, title |-> {}, flag |-> FALSE]

\* materialize: a row shows its entity's fields under the overlay.
Title(f, e) == f[e].title
Shown(e) == IF overlay[e] = None THEN fields[e].flag ELSE overlay[e]

-----------------------------------------------------------------------------
(* The search model *)

\* A set of row numbers in order, and what a filter keeps of a list: the
\* entries at the given places, in the order of the list.
Increasing(s) == \A i, j \in DOMAIN s : i < j => s[i] < s[j]
InOrder(S) ==
  CHOOSE s \in [1 .. Cardinality(S) -> S] : Increasing(s) /\ ToSet(s) = S
Picked(list, places) ==
  LET at == InOrder(places) IN [n \in DOMAIN at |-> list[at[n]]]

\* rebuildIndex over rows r and fields f.
Indexed(f, r) == [i \in DOMAIN r |-> Title(f, r[i])]
Postings(texts) ==
  [g \in Grams |-> InOrder({i \in DOMAIN texts : g \in texts[i]})]

\* The rows of a list that match, as rebuild keeps them: without repetition
\* and in order when the postings may be stale.
Kept(text, texts, list, sorting) ==
  LET places == {n \in DOMAIN list : text \subseteq texts[list[n]]}
  IN  IF sorting THEN InOrder({list[n] : n \in places})
      ELSE Picked(list, places)

\* rebuild: every row for an empty needle; else the shortest list of a gram of
\* the needle, and each of its rows checked again.
Rebuild(text, texts, lists, sorting) ==
  LET shortest == CHOOSE g \in text : \A h \in text : Len(lists[g]) <= Len(lists[h])
  IN  IF text = {} THEN [i \in DOMAIN texts |-> i]
      ELSE Kept(text, texts, lists[shortest], sorting)

Index(texts, lists, sorting) ==
  /\ indexed' = texts
  /\ postings' = lists
  /\ unsorted' = sorting
  /\ results' = Rebuild(needle, texts, lists, sorting)
  /\ UNCHANGED needle

\* sourceChanged: the rows were replaced, inserted, moved or removed.
SourceChanged(f, r) ==
  LET texts == Indexed(f, r)
  IN  Index(texts, Postings(texts), FALSE)

\* Slip: a changed row is not marked as out of order.
MarksUnsortedSlip == unsorted

\* sourceDataChanged: a changed row is added to the lists of its new grams and
\* stays in those of its old ones, until too many changes rebuild the index.
MarksUnsorted == TRUE
SourceDataChanged(f) ==
  LET texts == Indexed(f, rows)
      News(g) == InOrder({i \in DOMAIN texts :
                            g \in texts[i] /\ g \notin indexed[i]})
      lists == [g \in Grams |-> postings[g] \o News(g)]
  IN  IF texts = indexed THEN UNCHANGED search
      ELSE \/ Index(texts, lists, MarksUnsorted)
           \/ Index(texts, Postings(texts), FALSE)

-----------------------------------------------------------------------------
(* The entity table *)

\* patchEntity with the answer of version v: metadata older than what is held,
\* or read before the tracked refresh took effect, is refused; the flag is not.
Newer(e, v) ==
  ~ (stamped /\ v < fields[e].version) /\ v # baseline[e]
Patched(e, v, flag) ==
  IF Newer(e, v) THEN [version |-> v, title |-> Titles[v], flag |-> flag]
  ELSE [fields[e] EXCEPT !.flag = flag]

\* The content revision changes: no journaled removal can be taken back.
Outdated ==
  [e \in Entities |->
     IF journal[e] = None THEN None ELSE [journal[e] EXCEPT !.current = FALSE]]

\* Slip: the same rows are not a new revision.
SameRowsSlip(new) == IF new = rows THEN journal ELSE Outdated

\* synchronizeRows: the same rows again still are a new revision.
SameRows(new) == Outdated
Synchronize(new) ==
  /\ rows' = new
  /\ answered' = new
  /\ journal' = SameRows(new)

\* setQuery: an answer, of versions the server had at some time.
SetQuery(new, version, flag) ==
  LET given == ToSet(new)
  IN  /\ \A e \in given : version[e] \in 1..server[e]
      /\ fields' = [e \in Entities |->
                      IF e \in given THEN Patched(e, version[e], flag) ELSE fields[e]]
      /\ baseline' = [e \in Entities |->
                        IF e \in given /\ Newer(e, version[e]) THEN None ELSE baseline[e]]
      /\ Synchronize(new)
      /\ IF new = rows THEN SourceDataChanged(fields') ELSE SourceChanged(fields', new)
      /\ UNCHANGED <<stamped, server, overlay, cache>>

\* applyAuthoritativeStates: the flag alone.
PatchFlag(e, flag) ==
  /\ fields' = [fields EXCEPT ![e].flag = flag]
  /\ UNCHANGED <<stamped, server, overlay, baseline, rows, answered, journal, search, cache>>

\* applyPendingMetadataPatch: a title without a version; refused while the
\* item's refresh is tracked.
EditTitle(e, title) ==
  /\ fields' = [fields EXCEPT ![e].title = IF baseline[e] = None THEN title ELSE @]
  /\ SourceDataChanged(fields')
  /\ UNCHANGED <<stamped, server, overlay, baseline, rows, answered, journal, cache>>

BeginProtection(e) ==
  /\ baseline' = [baseline EXCEPT ![e] = fields[e].version]
  /\ UNCHANGED <<stamped, server, fields, overlay, rows, answered, journal, search, cache>>
EndProtection(e) ==
  /\ baseline[e] # None
  /\ baseline' = [baseline EXCEPT ![e] = None]
  /\ UNCHANGED <<stamped, server, fields, overlay, rows, answered, journal, search, cache>>

-----------------------------------------------------------------------------
(* Optimistic changes *)

\* removeFirst, journaled for e or not: a removal is a new revision too.
Place(e) == SelectInSeq(rows, LAMBDA x : x = e)
Without(e) == rows' = RemoveAt(rows, Place(e)) /\ SourceChanged(fields, rows')

\* beginMutation, removeQueryRow and applyMutationPatch.  MediaCoordinator has
\* one change of an item open at a time (OneOverlay there).
BeginMutation(e, flag, removes) ==
  LET at == IF removes THEN Place(e) ELSE 0
      opened == [previous |-> overlay[e], at |-> at, current |-> at # 0]
  IN  /\ journal[e] = None
      /\ fields[e] # Unknown
      /\ overlay' = [overlay EXCEPT ![e] = flag]
      /\ IF at # 0
         THEN Without(e) /\ journal' = [Outdated EXCEPT ![e] = opened]
         ELSE journal' = [journal EXCEPT ![e] = opened] /\ UNCHANGED <<rows, search>>
      /\ UNCHANGED <<stamped, server, fields, baseline, answered, cache>>

Commit(e) ==
  /\ journal[e] # None
  /\ fields' = [fields EXCEPT ![e].flag = Shown(e)]
  /\ overlay' = [overlay EXCEPT ![e] = None]
  /\ journal' = [journal EXCEPT ![e] = None]
  /\ UNCHANGED <<stamped, server, baseline, rows, answered, search, cache>>

\* rollbackMutation: the row comes back if its removal was the last change.
Rollback(e) ==
  LET old == journal[e]
      at == IF old.at > Len(rows) THEN Len(rows) + 1 ELSE old.at
  IN  /\ old # None
      /\ overlay' = [overlay EXCEPT ![e] = old.previous]
      /\ IF old.current /\ ~ Contains(rows, e)
         THEN /\ rows' = InsertAt(rows, at, e)
              /\ journal' = [Outdated EXCEPT ![e] = None]
              /\ SourceChanged(fields, rows')
         ELSE journal' = [journal EXCEPT ![e] = None] /\ UNCHANGED <<rows, search>>
      /\ UNCHANGED <<stamped, server, fields, baseline, answered, cache>>

\* removeQueryRow of applyContainerMutation: not journaled.
RemoveRow(e) ==
  /\ Contains(rows, e)
  /\ Without(e)
  /\ journal' = Outdated
  /\ answered' = RemoveAt(answered, SelectInSeq(answered, LAMBDA x : x = e))
  /\ UNCHANGED <<stamped, server, fields, overlay, baseline, cache>>

-----------------------------------------------------------------------------
(* The cache, the session and the user *)

\* toCacheJson: the fields of the rows' entities, never an overlay.
Save ==
  /\ cache' = [rows |-> rows, fields |-> [e \in ToSet(rows) |-> fields[e]]]
  /\ UNCHANGED <<table, rows, answered, journal, search>>

\* clear: the account changed.
Clear ==
  /\ fields' = [e \in Entities |-> Unknown]
  /\ overlay' = [e \in Entities |-> None]
  /\ journal' = [e \in Entities |-> None]
  /\ baseline' = [e \in Entities |-> None]
  /\ rows' = <<>>
  /\ answered' = <<>>
  /\ SourceChanged(fields', rows')
  /\ UNCHANGED <<stamped, server, cache>>

\* restoreCacheJson into the store of a session that begins.
Restore ==
  /\ cache # None
  /\ rows = <<>> /\ \A e \in Entities : fields[e] = Unknown /\ baseline[e] = None
  /\ fields' = [e \in Entities |->
                  IF e \in ToSet(cache.rows) THEN cache.fields[e] ELSE Unknown]
  /\ Synchronize(cache.rows)
  /\ SourceChanged(fields', rows')
  /\ UNCHANGED <<stamped, server, overlay, baseline, cache>>

\* setSearchText
SetSearchText(text) ==
  /\ text # needle
  /\ needle' = text
  /\ results' = Rebuild(text, indexed, postings, unsorted)
  /\ UNCHANGED <<table, rows, answered, journal, indexed, postings, unsorted, cache>>

ServerChanges(e) ==
  /\ server[e] + 1 \in Versions
  /\ server' = [server EXCEPT ![e] = @ + 1]
  /\ UNCHANGED <<stamped, fields, overlay, baseline, rows, answered, journal, search, cache>>

Init ==
  /\ stamped \in BOOLEAN
  /\ server = [e \in Entities |-> 1]
  /\ fields = [e \in Entities |-> Unknown]
  /\ overlay = [e \in Entities |-> None]
  /\ journal = [e \in Entities |-> None]
  /\ baseline = [e \in Entities |-> None]
  /\ rows = <<>> /\ answered = <<>>
  /\ indexed = <<>> /\ postings = [g \in Grams |-> <<>>]
  /\ unsorted = FALSE /\ needle = {} /\ results = <<>>
  /\ cache = None
  /\ events = 0

\* Rows the server may answer with: each item at most once.
Answers == UNION {SetToSeqs(S) : S \in SUBSET Entities}

Next ==
  /\ events < MaxEvents
  /\ events' = events + 1
  /\ \/ \E new \in Answers, flag \in BOOLEAN :
          \E version \in [ToSet(new) -> Versions] : SetQuery(new, version, flag)
     \/ \E e \in Entities :
          \/ \E flag \in BOOLEAN :
               \/ PatchFlag(e, flag)
               \/ \E removes \in BOOLEAN : BeginMutation(e, flag, removes)
          \/ \E title \in ToSet(Titles) : EditTitle(e, title)
          \/ BeginProtection(e) \/ EndProtection(e)
          \/ Commit(e) \/ Rollback(e) \/ RemoveRow(e)
          \/ ServerChanges(e)
     \/ Save \/ Clear \/ Restore
     \/ \E text \in SUBSET Grams : SetSearchText(text)

Spec == Init /\ [][Next]_storeVars

-----------------------------------------------------------------------------

\* The rows are those of the last answer, in its order, less those an open or
\* committed change took out: taking a change back never returns a row the
\* server has left out of an answer given since.
IsWithin(s, t) ==
  \E at \in [DOMAIN s -> DOMAIN t] :
    Increasing(at) /\ \A n \in DOMAIN s : s[n] = t[at[n]]
ServerAnswersStand == IsWithin(rows, answered)

\* What a search shows is exactly the rows whose titles match, each once and in
\* the order of the rows, however the index was brought up to date.
ResultsMatchFilter ==
  /\ Increasing(results)
  /\ ToSet(results) = {i \in DOMAIN rows : needle \subseteq Title(fields, rows[i])}
=============================================================================
