---------------------------- MODULE MediaCatalog ----------------------------
(***************************************************************************)
(* The disposable SQLite projection of the remote library                  *)
(* (crates/yanami-storage/src/media_catalog.rs).  Every operation is one   *)
(* transaction that also publishes its effect to the search snapshot.      *)
(*                                                                         *)
(* Run numbers are abstracted to what the code asks of them: "seen by the  *)
(* active run", "changed after the published generation", "the revision    *)
(* moved since it was read".                                               *)
(***************************************************************************)
EXTENDS Naturals, FiniteSets

CONSTANTS Items,     \* item identifiers of the library
          Contents,  \* what the server may store for an item
          None,      \* no row, no document, no disposition
          SeriesOf,  \* the series an episode or season belongs to, or None
          TermsOf    \* the searchable part of a content

VARIABLES rows,       \* catalog_items: the content of every cached item
          seen,       \* rows whose seen_run_id is the active run
          changed,    \* rows whose search_changed_run_id is past the generation
          tombs,      \* catalog_search_tombstones
          pending,    \* catalog_pending_changes: the disposition of an item
          scope,      \* the catalog_scope row
          moved,      \* revisions raised since the supervisor read them
          base,       \* the published posting index, <<>> before the first
          live        \* the search snapshot: overridden base documents, delta

storeVars == <<rows, seen, changed, tombs, pending, scope, moved, base, live>>

Rows == {i \in Items : rows[i] # None}
Terms(r) == [i \in Items |-> IF r[i] = None THEN None ELSE TermsOf[r[i]]]

Snapshot(b, d) == [base |-> b, over |-> {}, delta |-> d]
Missing == [i \in Items |-> None]

StoreInit ==
  /\ rows = Missing /\ pending = Missing
  /\ seen = {} /\ changed = {} /\ tombs = {} /\ moved = {}
  /\ scope = [state |-> "idle", dirty |-> FALSE, verified |-> FALSE,
              expected |-> 0, catchup |-> FALSE, members |-> FALSE,
              watermark |-> 0, failures |-> 0, completed |-> FALSE]
  /\ base = Missing
  /\ live = Snapshot(Missing, Missing)

(***************************************************************************)
(* The search snapshot.                                                    *)
(***************************************************************************)
Upserted(s, docs) ==
  [s EXCEPT !.over = @ \cup DOMAIN docs,
            !.delta = [i \in Items |-> IF i \in DOMAIN docs THEN docs[i] ELSE @[i]]]

Hidden(s, ids) ==
  [s EXCEPT !.over = @ \cup ids,
            !.delta = [i \in Items |-> IF i \in ids THEN None ELSE @[i]]]

\* What a query matches: the base documents that are not overridden, and the delta.
Visible(s) ==
  [i \in Items |-> IF s.delta[i] # None THEN s.delta[i]
                   ELSE IF i \in s.over THEN None ELSE s.base[i]]

\* What the next open of the database reads back; a sidecar that cannot be
\* opened is rebuilt from every row.
Reopened(b) ==
  LET fresh == IF scope.completed THEN changed ELSE Rows
  IN  Hidden(Upserted(Snapshot(b, Missing), [i \in fresh |-> TermsOf[rows[i]]]), tombs)

Open ==
  \E b \in {base, IF scope.completed THEN Terms(rows) ELSE base} :
     base' = b /\ live' = Reopened(b)

(***************************************************************************)
(* A full traversal: begin, pages, verification, publication, failure.     *)
(***************************************************************************)
BeginSync ==
  /\ scope.state # "running"
  /\ scope' = [scope EXCEPT !.state = "running", !.dirty = FALSE, !.verified = FALSE]
  /\ seen' = {}

\* The rows written by a page or a batch, and the documents it changes.
Written(got) == [i \in Items |-> IF i \in DOMAIN got THEN got[i] ELSE rows[i]]
Stored(got) == Rows \cup DOMAIN got
\* Slip: a row that was stored before is taken for unchanged.
ChangesSlip(got) == {i \in DOMAIN got : rows[i] = None}
Changes(got) == {i \in DOMAIN got : rows[i] = None \/ TermsOf[rows[i]] # TermsOf[got[i]]}
Store(got) ==
  /\ rows' = Written(got)
  /\ changed' = changed \cup Changes(got)
  /\ tombs' = tombs \ DOMAIN got
  /\ live' = Upserted(live, [i \in Changes(got) |-> TermsOf[got[i]]])

UpsertPage(got, total) ==
  /\ scope.state = "running"
  /\ Store(got)
  /\ seen' = seen \cup DOMAIN got
  /\ scope' = [scope EXCEPT !.verified = FALSE, !.expected = total]
  /\ UNCHANGED <<pending, moved, base>>

Failed(s) == [s EXCEPT !.state = "failed", !.dirty = TRUE, !.verified = FALSE]
FailSync == scope' = Failed(scope)
RecoverInterrupted == scope.state = "running" /\ FailSync

\* The second, ids-only traversal agrees with the rows of this run.
\* Slip: rows that the traversal missed are not looked for.
MembershipVerifiedSlip(ids) == seen \subseteq ids
MembershipVerified(ids) == ids = seen
Reconciled == scope.expected = Cardinality(seen)

\* Rows the run did not see are deleted and the tombstones dropped; a new
\* index is built only when a row is unseen or was changed.
BuildRequired == ~scope.completed \/ Rows # seen \/ changed # {}
CompleteSync(now) ==
  LET kept == [i \in Items |-> IF i \in seen THEN rows[i] ELSE None]
  IN  /\ rows' = kept
      /\ tombs' = {}
      /\ changed' = {}
      /\ base' = IF BuildRequired THEN Terms(kept) ELSE base
      /\ live' = IF BuildRequired THEN Snapshot(Terms(kept), Missing) ELSE live
      /\ scope' = [scope EXCEPT !.state = "complete", !.completed = TRUE,
                     !.verified = FALSE, !.watermark = now, !.catchup = FALSE,
                     !.members = FALSE, !.failures = 0]
      /\ UNCHANGED <<seen, pending, moved>>

(***************************************************************************)
(* Incremental changes.                                                    *)
(***************************************************************************)
\* A removed series takes its seasons and episodes with it.
Expanded(ids) == ids \cup {i \in Rows : SeriesOf[i] \in ids \cap Rows}

Removed(r, ids) == [i \in Items |-> IF i \in ids THEN None ELSE r[i]]
RemoveIncrementally(i) ==
  LET gone == Expanded({i})
  IN  /\ scope.state # "running"
      /\ rows' = Removed(rows, gone)
      /\ changed' = changed \ gone
      /\ tombs' = tombs \cup gone
      /\ live' = Hidden(live, gone)
      /\ UNCHANGED <<seen, pending, scope, moved, base>>

Disposed(p, ups, rms) ==
  [i \in Items |-> IF i \in rms THEN "remove" ELSE IF i \in ups THEN "upsert" ELSE p[i]]
Raised(ups, rms, catchup, members) ==
  (IF ups \cup rms = {} THEN {} ELSE {"pending"})
     \cup (IF catchup THEN {"catchup"} ELSE {}) \cup (IF members THEN {"members"} ELSE {})

\* enqueue_library_changes, followed by request_incremental_catchup.
Enqueue(ups, rms, catchup, members) ==
  /\ pending' = Disposed(pending, ups, rms)
  /\ moved' = moved \cup Raised(ups, rms, catchup, members)
  /\ scope' = [scope EXCEPT !.catchup = @ \/ catchup, !.members = @ \/ members]
  /\ UNCHANGED <<rows, seen, changed, tombs, base, live>>

Wanted(kind) == {i \in Items : pending[i] = kind}
ReadPending(kinds) == moved' = moved \ kinds

\* One transaction writes what was fetched, removes, and acknowledges the
\* dispositions unless a newer one arrived since they were read.
Apply(got, acked, rms) ==
  LET gone == {i \in Items : \/ i \in rms
                             \/ SeriesOf[i] \in rms \cap Stored(got) /\ i \in Stored(got)}
      kept == Removed(Written(got), gone)
  IN  /\ scope.state # "running"
      /\ rows' = kept
      /\ changed' = (changed \cup Changes(got)) \ gone
      /\ tombs' = (tombs \ DOMAIN got) \cup gone
      /\ live' = Hidden(Upserted(live, [i \in Changes(got) |-> TermsOf[got[i]]]), gone)
      /\ pending' = IF "pending" \in moved THEN pending
                    ELSE [i \in Items |-> IF i \in acked \cup rms THEN None ELSE pending[i]]

Checkpoint(s, at) ==
  [s EXCEPT !.watermark = IF @ > at THEN @ ELSE at, !.catchup = "catchup" \in moved]
MembershipChecked(s) == [s EXCEPT !.members = "members" \in moved, !.failures = 0]
IncrementalSuccess(s) == [s EXCEPT !.failures = 0]
IncrementalFailure(s, limit) ==
  LET n == s.failures + 1
  IN  [s EXCEPT !.failures = IF n > limit THEN limit ELSE n, !.dirty = @ \/ n >= limit]
=============================================================================
