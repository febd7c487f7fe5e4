-------------------------- MODULE CatalogSyncProofs --------------------------
(***************************************************************************)
(* For any library, traversal stages, failures and restarts: the search    *)
(* snapshot shows what the rows say, and a traversal deletes only what was *)
(* gone from the server.                                                   *)
(***************************************************************************)
EXTENDS CatalogSync, TLAPS

Libraries == [Items -> Contents \cup {None}]
Docs == [Items -> {TermsOf[c] : c \in Contents} \cup {None}]
Lives == [base : Docs, over : SUBSET Items, delta : Docs]

RowsOK ==
  /\ rows \in Libraries /\ base \in Docs /\ live \in Lives
  /\ tombs \subseteq Items /\ changed \subseteq Rows
ScopeOK == DOMAIN scope = {"state", "dirty", "verified", "expected", "catchup", "members",
                           "watermark", "failures", "completed"}
CountOK == count \in [changes : Nat, faults : Nat, restarts : Nat]
SupOK == /\ DOMAIN sup = {"pc", "stage", "got", "up", "rm", "ids", "total", "at", "next",
                          "gone", "due"}
         /\ sup.next \in {"top", "decide", "pend", "probe", "members"}
         /\ Full => sup.stage \in 1..Len(Stages)
TypeInv == remote \in Libraries /\ ScopeOK /\ CountOK /\ SupOK

\* Items the server was asked for, with what it said.
Fetched(got) == DOMAIN got \subseteq Items /\ \A i \in DOMAIN got : got[i] \in Contents
GotInv == sup.pc \in {"apply", "merge"} => Fetched(sup.got)

\* What an open of the database has to go by: the published index has the
\* terms of every row that was not changed since, and no row is tombstoned.
BaseFollows ==
  scope.completed =>
    \A i \in Items : rows[i] # None /\ i \notin changed => base[i] = TermsOf[rows[i]]
TombsGone == \A i \in tombs : rows[i] = None
FollowInv == RowsOK /\ SearchFollowsRows /\ BaseFollows /\ TombsGone

\* Where a traversal is: it owns the run, it has noted every item that was not
\* on the server, and the stages it has read again left out only such items.
FullInv ==
  Full =>
    /\ scope.state = "running"
    /\ \A i \in Items : remote[i] = None => i \in sup.gone
    /\ sup.pc = "verify" =>
         \A k \in 1..(sup.stage - 1) : Stages[k] \subseteq sup.ids \cup sup.gone

IInv == TypeInv /\ GotInv /\ FollowInv /\ FullInv

-----------------------------------------------------------------------------
(* The search snapshot.                                                     *)

LEMMA TermFacts ==
  /\ \A c \in Contents : TermsOf[c] \in {TermsOf[d] : d \in Contents} /\ TermsOf[c] # None
  /\ None \notin Contents
  BY SyncAssumption

LEMMA MissingDocs == Missing \in Docs /\ Missing \in Libraries
  BY DEF Missing, Docs, Libraries

LEMMA TermsTyped == \A r \in Libraries : Terms(r) \in Docs
  BY TermFacts DEF Libraries, Docs, Terms

\* What is put over a snapshot is seen, and the rest of it as before.
LEMMA UpsertedSeen ==
  ASSUME NEW s \in Lives, NEW docs, DOMAIN docs \subseteq Items,
         \A i \in DOMAIN docs : docs[i] \in {TermsOf[c] : c \in Contents}
  PROVE  /\ Upserted(s, docs) \in Lives
         /\ \A i \in Items :
              Visible(Upserted(s, docs))[i] = IF i \in DOMAIN docs THEN docs[i] ELSE Visible(s)[i]
<1>1. Upserted(s, docs) \in Lives
  BY DEF Upserted, Lives, Docs
<1>2. /\ Upserted(s, docs).base = s.base /\ Upserted(s, docs).over = s.over \cup DOMAIN docs
      /\ Upserted(s, docs).delta = [i \in Items |-> IF i \in DOMAIN docs THEN docs[i] ELSE s.delta[i]]
  BY DEF Upserted, Lives
<1>3. \A i \in DOMAIN docs : docs[i] # None
  BY TermFacts
<1> QED
  BY <1>1, <1>2, <1>3 DEF Visible

LEMMA HiddenSeen ==
  ASSUME NEW s \in Lives, NEW ids \in SUBSET Items
  PROVE  /\ Hidden(s, ids) \in Lives
         /\ \A i \in Items :
              Visible(Hidden(s, ids))[i] = IF i \in ids THEN None ELSE Visible(s)[i]
<1>1. Hidden(s, ids) \in Lives
  BY DEF Hidden, Lives, Docs
<1>2. /\ Hidden(s, ids).base = s.base /\ Hidden(s, ids).over = s.over \cup ids
      /\ Hidden(s, ids).delta = [i \in Items |-> IF i \in ids THEN None ELSE s.delta[i]]
  BY DEF Hidden, Lives
<1> QED
  BY <1>1, <1>2 DEF Visible

LEMMA SnapshotSeen ==
  ASSUME NEW b \in Docs
  PROVE  /\ Snapshot(b, Missing) \in Lives
         /\ \A i \in Items : Visible(Snapshot(b, Missing))[i] = b[i]
<1>1. Snapshot(b, Missing) = [base |-> b, over |-> {}, delta |-> Missing]
  BY DEF Snapshot
<1>2. Snapshot(b, Missing) \in Lives
  BY <1>1, MissingDocs DEF Lives
<1>3. \A i \in Items : Missing[i] = None
  BY DEF Missing
<1> QED
  BY <1>1, <1>2, <1>3 DEF Visible

-----------------------------------------------------------------------------
(* The operations of the store keep what the search goes by.                *)

\* Nothing of the store moved but its scope, and no restart was undone.
Frame ==
  /\ scope'.completed = scope.completed
  /\ count'.restarts = 0 => count.restarts = 0
  /\ UNCHANGED <<rows, changed, tombs, base, live>>

LEMMA FrameKeeps == FollowInv /\ Frame => FollowInv'
  BY DEF FollowInv, Frame, RowsOK, SearchFollowsRows, BaseFollows, TombsGone, Rows, Terms,
         Visible

\* A document is put over the snapshot for each row that changes.
LEMMA WrittenFacts ==
  ASSUME rows \in Libraries, NEW got, Fetched(got)
  PROVE  /\ Written(got) \in Libraries
         /\ \A i \in Items : Written(got)[i] = IF i \in DOMAIN got THEN got[i] ELSE rows[i]
         /\ Changes(got) \subseteq DOMAIN got
         /\ \A i \in DOMAIN got \ Changes(got) :
              rows[i] # None /\ TermsOf[rows[i]] = TermsOf[got[i]]
         /\ \A i \in DOMAIN got : got[i] # None
<1>1. \A i \in DOMAIN got : i \in Items /\ got[i] \in Contents /\ got[i] # None
  BY TermFacts DEF Fetched
<1>2. Written(got) \in Libraries
  BY <1>1 DEF Written, Libraries
<1> QED
  BY <1>1, <1>2 DEF Written, Changes

LEMMA ChangesSeen ==
  ASSUME rows \in Libraries, live \in Lives, NEW got, Fetched(got)
  PROVE  LET s == Upserted(live, [i \in Changes(got) |-> TermsOf[got[i]]])
         IN  /\ s \in Lives
             /\ \A i \in Items :
                  Visible(s)[i] = IF i \in Changes(got) THEN TermsOf[got[i]]
                                  ELSE Visible(live)[i]
<1> DEFINE docs == [i \in Changes(got) |-> TermsOf[got[i]]]
<1>1. DOMAIN docs = Changes(got) /\ \A i \in Changes(got) : docs[i] = TermsOf[got[i]]
  OBVIOUS
<1>2. DOMAIN docs \subseteq Items /\ \A i \in DOMAIN docs : got[i] \in Contents
  BY <1>1, WrittenFacts DEF Fetched
<1>3. \A i \in DOMAIN docs : docs[i] \in {TermsOf[c] : c \in Contents}
  BY <1>1, <1>2
<1> HIDE DEF docs
<1>4. /\ Upserted(live, docs) \in Lives
      /\ \A i \in Items : Visible(Upserted(live, docs))[i] =
                            IF i \in DOMAIN docs THEN docs[i] ELSE Visible(live)[i]
  BY <1>2, <1>3, UpsertedSeen
<1>5. \A i \in Items : Visible(Upserted(live, docs))[i] =
                          IF i \in Changes(got) THEN TermsOf[got[i]] ELSE Visible(live)[i]
  BY <1>1, <1>4
<1> QED
  BY <1>4, <1>5 DEF docs

\* Writing rows and then hiding removed ones: Apply, and with nothing removed
\* a page of a traversal.
LEMMA WriteKeeps ==
  ASSUME FollowInv, NEW got, Fetched(got), NEW gone \in SUBSET Items,
         rows' = Removed(Written(got), gone),
         changed' = (changed \cup Changes(got)) \ gone,
         tombs' \subseteq (tombs \ DOMAIN got) \cup gone,
         live' \in Lives,
         \A i \in Items :
           Visible(live')[i] =
             IF i \in gone THEN None
             ELSE Visible(Upserted(live, [j \in Changes(got) |-> TermsOf[got[j]]]))[i],
         base' = base,
         scope'.completed = scope.completed,
         count'.restarts = 0 => count.restarts = 0
  PROVE  FollowInv'
<1> USE DEF FollowInv, RowsOK
<1>1. /\ Written(got) \in Libraries
      /\ \A i \in Items : Written(got)[i] = IF i \in DOMAIN got THEN got[i] ELSE rows[i]
      /\ Changes(got) \subseteq DOMAIN got
      /\ \A i \in DOMAIN got \ Changes(got) :
           rows[i] # None /\ TermsOf[rows[i]] = TermsOf[got[i]]
      /\ \A i \in DOMAIN got : got[i] # None
  BY WrittenFacts
<1>2. \A i \in Items :
        Visible(live')[i] = IF i \in gone THEN None
                            ELSE IF i \in Changes(got) THEN TermsOf[got[i]] ELSE Visible(live)[i]
  BY ChangesSeen
<1>3. DOMAIN got \subseteq Items
  BY DEF Fetched
<1>4. \A i \in Items : rows'[i] = IF i \in gone THEN None
                                  ELSE IF i \in DOMAIN got THEN got[i] ELSE rows[i]
  BY <1>1 DEF Removed
<1>5. rows' \in Libraries
  BY <1>1 DEF Removed, Libraries
<1>6. RowsOK'
  BY <1>1, <1>3, <1>4, <1>5 DEF Rows
<1>7. SearchFollowsRows'
  <2> SUFFICES ASSUME NEW i \in Items, rows'[i] # None \/ count'.restarts = 0
               PROVE  Visible(live')[i] = Terms(rows')[i]
    BY DEF SearchFollowsRows
  <2>1. Terms(rows')[i] = IF rows'[i] = None THEN None ELSE TermsOf[rows'[i]]
    BY DEF Terms
  <2>2. rows[i] # None \/ count.restarts = 0 =>
          Visible(live)[i] = IF rows[i] = None THEN None ELSE TermsOf[rows[i]]
    BY DEF SearchFollowsRows, Terms
  <2>3. CASE i \in gone
    BY <2>3, <2>1, <1>2, <1>4
  <2>4. CASE i \notin gone /\ i \in DOMAIN got
    <3>1. rows'[i] = got[i] /\ got[i] # None
      BY <2>4, <1>1, <1>4
    <3>2. CASE i \in Changes(got)
      BY <3>1, <3>2, <2>4, <2>1, <1>2
    <3>3. CASE i \notin Changes(got)
      BY <3>1, <3>3, <2>4, <2>1, <2>2, <1>1, <1>2
    <3> QED
      BY <3>2, <3>3
  <2>5. CASE i \notin gone /\ i \notin DOMAIN got
    <3>1. rows'[i] = rows[i] /\ i \notin Changes(got)
      BY <2>5, <1>1, <1>4
    <3> QED
      BY <3>1, <2>5, <2>1, <2>2, <1>2
  <2> QED
    BY <2>3, <2>4, <2>5
<1>8. BaseFollows'
  <2> SUFFICES ASSUME scope'.completed, NEW i \in Items, rows'[i] # None, i \notin changed'
               PROVE  base[i] = TermsOf[rows'[i]]
    BY DEF BaseFollows
  <2>1. i \notin gone /\ i \notin changed /\ i \notin Changes(got)
    BY <1>4
  <2>2. rows[i] # None => base[i] = TermsOf[rows[i]]
    BY <2>1 DEF BaseFollows
  <2> QED
    BY <2>1, <2>2, <1>1, <1>4
<1>9. TombsGone'
  BY <1>4 DEF TombsGone
<1> QED
  BY <1>6, <1>7, <1>8, <1>9

LEMMA StoreKeeps ==
  ASSUME FollowInv, NEW got, Fetched(got), Store(got), base' = base,
         scope'.completed = scope.completed, count'.restarts = 0 => count.restarts = 0
  PROVE  FollowInv'
<1>1. rows \in Libraries /\ live \in Lives
  BY DEF FollowInv, RowsOK
<1>2. Written(got) \in Libraries
  BY <1>1, WrittenFacts
<1>3. rows' = Removed(Written(got), {})
  BY <1>2 DEF Store, Removed, Libraries
<1>4. changed' = (changed \cup Changes(got)) \ {} /\ tombs' \subseteq (tombs \ DOMAIN got) \cup {}
  BY DEF Store
<1>5. live' = Upserted(live, [i \in Changes(got) |-> TermsOf[got[i]]])
  BY DEF Store
<1>6. live' \in Lives
  BY <1>1, <1>5, ChangesSeen
<1>7. \A i \in Items :
        Visible(live')[i] =
          IF i \in {} THEN None
          ELSE Visible(Upserted(live, [j \in Changes(got) |-> TermsOf[got[j]]]))[i]
  BY <1>5
<1> QED
  BY <1>3, <1>4, <1>6, <1>7, WriteKeeps

LEMMA ApplyKeeps ==
  ASSUME FollowInv, NEW got, Fetched(got), NEW acked, NEW rms, Apply(got, acked, rms),
         base' = base,
         scope'.completed = scope.completed, count'.restarts = 0 => count.restarts = 0
  PROVE  FollowInv'
<1> DEFINE gone == {i \in Items : \/ i \in rms
                                  \/ SeriesOf[i] \in rms \cap Stored(got) /\ i \in Stored(got)}
           s == Upserted(live, [i \in Changes(got) |-> TermsOf[got[i]]])
<1>1. gone \in SUBSET Items
  OBVIOUS
<1>2. s \in Lives
  BY ChangesSeen DEF FollowInv, RowsOK
<1>3. /\ rows' = Removed(Written(got), gone)
      /\ changed' = (changed \cup Changes(got)) \ gone
      /\ tombs' = (tombs \ DOMAIN got) \cup gone
      /\ live' = Hidden(s, gone)
  BY DEF Apply
<1> HIDE DEF gone, s
<1>4. live' \in Lives /\ \A i \in Items :
        Visible(live')[i] = IF i \in gone THEN None ELSE Visible(s)[i]
  BY <1>1, <1>2, <1>3, HiddenSeen
<1>5. \A i \in Items :
        Visible(live')[i] =
          IF i \in gone THEN None
          ELSE Visible(Upserted(live, [j \in Changes(got) |-> TermsOf[got[j]]]))[i]
  BY <1>4 DEF s
<1> QED
  BY <1>1, <1>3, <1>4, <1>5, WriteKeeps

LEMMA RemoveKeeps ==
  ASSUME FollowInv, NEW i \in Items, RemoveIncrementally(i),
         count'.restarts = 0 => count.restarts = 0
  PROVE  FollowInv'
<1> DEFINE gone == Expanded({i})
<1>1. gone \in SUBSET Items
  BY DEF Expanded, Rows
<1>2. /\ rows' = Removed(rows, gone) /\ changed' = changed \ gone
      /\ tombs' = tombs \cup gone /\ live' = Hidden(live, gone)
      /\ base' = base /\ scope' = scope
  BY DEF RemoveIncrementally
<1> HIDE DEF gone
<1>3. RowsOK
  BY DEF FollowInv
<1>4. live' \in Lives /\ \A j \in Items :
        Visible(live')[j] = IF j \in gone THEN None ELSE Visible(live)[j]
  BY <1>1, <1>2, <1>3, HiddenSeen DEF RowsOK
<1>5. \A j \in Items : rows'[j] = IF j \in gone THEN None ELSE rows[j]
  BY <1>2 DEF Removed
<1>6. rows' \in Libraries
  BY <1>2, <1>3 DEF Removed, RowsOK, Libraries
<1>7. RowsOK'
  BY <1>1, <1>2, <1>3, <1>4, <1>5, <1>6 DEF RowsOK, Rows
<1>8. SearchFollowsRows'
  BY <1>4, <1>5 DEF FollowInv, SearchFollowsRows, Terms
<1>9. BaseFollows'
  BY <1>2, <1>5 DEF FollowInv, BaseFollows
<1>10. TombsGone'
  BY <1>1, <1>2, <1>3, <1>5 DEF FollowInv, RowsOK, TombsGone
<1> QED
  BY <1>7, <1>8, <1>9, <1>10 DEF FollowInv

LEMMA CompleteKeeps ==
  ASSUME FollowInv, ScopeOK, NEW now, CompleteSync(now),
         count'.restarts = 0 => count.restarts = 0
  PROVE  FollowInv'
<1> DEFINE kept == [i \in Items |-> IF i \in seen THEN rows[i] ELSE None]
<1>1. RowsOK
  BY DEF FollowInv
<1>2. kept \in Libraries
  BY <1>1 DEF RowsOK, Libraries
<1>3. /\ rows' = kept /\ tombs' = {} /\ changed' = {}
      /\ base' = IF BuildRequired THEN Terms(kept) ELSE base
      /\ live' = IF BuildRequired THEN Snapshot(Terms(kept), Missing) ELSE live
  BY DEF CompleteSync
<1>4. CASE BuildRequired
  <2>1. Terms(kept) \in Docs
    BY <1>2, TermsTyped
  <2>2. base' = Terms(rows') /\ live' = Snapshot(Terms(rows'), Missing)
    BY <1>3, <1>4
  <2> HIDE DEF kept
  <2>3. live' \in Lives /\ \A i \in Items : Visible(live')[i] = Terms(rows')[i]
    BY <2>1, <2>2, <1>3, SnapshotSeen
  <2>4. \A i \in Items : rows'[i] # None => base'[i] = TermsOf[rows'[i]]
    BY <2>2 DEF Terms
  <2> QED
    BY <1>2, <1>3, <2>1, <2>2, <2>3, <2>4
    DEF FollowInv, RowsOK, SearchFollowsRows, BaseFollows, TombsGone
<1>5. CASE ~BuildRequired
  <2>1. scope.completed /\ Rows = seen /\ changed = {}
    BY <1>5 DEF BuildRequired
  <2>2. kept = rows
    BY <2>1, <1>1 DEF Rows, RowsOK, Libraries
  <2> HIDE DEF kept
  <2>3. rows' = rows /\ changed' = changed /\ base' = base /\ live' = live /\ tombs' = {}
    BY <1>3, <1>5, <2>1, <2>2
  <2>4. RowsOK' /\ SearchFollowsRows' /\ TombsGone'
    BY <2>3 DEF FollowInv, RowsOK, Rows, SearchFollowsRows, TombsGone, Visible, Terms
  <2>5. BaseFollows'
    BY <2>1, <2>3 DEF FollowInv, BaseFollows
  <2> QED
    BY <2>4, <2>5 DEF FollowInv
<1> QED
  BY <1>4, <1>5

\* What an open reads back shows every row: those changed since the index was
\* published are put over it, and none of them is tombstoned.
LEMMA OpenKeeps ==
  ASSUME FollowInv, Open, UNCHANGED <<rows, changed, tombs, scope>>, count'.restarts # 0
  PROVE  FollowInv'
<1>1. RowsOK
  BY DEF FollowInv
<1>2. PICK b \in {base, IF scope.completed THEN Terms(rows) ELSE base} :
        base' = b /\ live' = Reopened(b)
  BY DEF Open
<1>3. b \in Docs
  BY <1>1, <1>2, TermsTyped DEF RowsOK
<1>4. scope.completed =>
        \A i \in Items : rows[i] # None /\ i \notin changed => b[i] = TermsOf[rows[i]]
  BY <1>2 DEF FollowInv, BaseFollows, Terms
<1> DEFINE fresh == IF scope.completed THEN changed ELSE Rows
           docs == [i \in fresh |-> TermsOf[rows[i]]]
           s == Upserted(Snapshot(b, Missing), docs)
<1>5. fresh \subseteq Rows /\ fresh \subseteq Items
  BY <1>1 DEF RowsOK, Rows
<1>6. DOMAIN docs = fresh /\ \A i \in fresh : docs[i] = TermsOf[rows[i]]
  OBVIOUS
<1>7. \A i \in fresh : rows[i] \in Contents
  BY <1>1, <1>5 DEF RowsOK, Rows, Libraries
<1>8. live' = Hidden(s, tombs)
  BY <1>2 DEF Reopened
<1>9. scope.completed => fresh = changed
  OBVIOUS
<1>10. ~scope.completed => fresh = Rows
  OBVIOUS
<1> HIDE DEF fresh, docs
<1>11. \A i \in DOMAIN docs : docs[i] \in {TermsOf[c] : c \in Contents}
  BY <1>6, <1>7
<1>12. Snapshot(b, Missing) \in Lives
  BY <1>3, SnapshotSeen
<1>13. s \in Lives /\ \A i \in Items :
         Visible(s)[i] = IF i \in DOMAIN docs THEN docs[i] ELSE Visible(Snapshot(b, Missing))[i]
  BY <1>5, <1>6, <1>11, <1>12, UpsertedSeen
<1> HIDE DEF s
<1>14. tombs \in SUBSET Items
  BY <1>1 DEF RowsOK
<1>15. live' \in Lives /\ \A i \in Items :
         Visible(live')[i] = IF i \in tombs THEN None ELSE Visible(s)[i]
  BY <1>8, <1>13, <1>14, HiddenSeen
<1>16. \A i \in Items : Visible(Snapshot(b, Missing))[i] = b[i]
  BY <1>3, SnapshotSeen
<1>17. SearchFollowsRows'
  <2> SUFFICES ASSUME NEW i \in Items, rows[i] # None
               PROVE  Visible(live')[i] = TermsOf[rows[i]]
    BY DEF SearchFollowsRows, Terms
  <2>1. i \notin tombs
    BY DEF FollowInv, TombsGone
  <2>2. i \in fresh \/ b[i] = TermsOf[rows[i]]
    BY <1>4, <1>9, <1>10 DEF Rows
  <2> QED
    BY <2>1, <2>2, <1>6, <1>13, <1>15, <1>16
<1>18. RowsOK'
  BY <1>1, <1>2, <1>3, <1>15 DEF RowsOK, Rows
<1>19. BaseFollows'
  BY <1>2, <1>4 DEF BaseFollows
<1>20. TombsGone'
  BY DEF FollowInv, TombsGone
<1> QED
  BY <1>17, <1>18, <1>19, <1>20 DEF FollowInv

-----------------------------------------------------------------------------
(* The parts of the invariant that are about the supervisor.                *)

SupFields == {"pc", "stage", "got", "up", "rm", "ids", "total", "at", "next", "gone", "due"}
Nexts == {"top", "decide", "pend", "probe", "members"}

LEMMA IdleFacts ==
  ASSUME NEW pc
  PROVE  /\ DOMAIN Idle(pc) = SupFields
         /\ Idle(pc).pc = pc /\ Idle(pc).stage = 1 /\ Idle(pc).next = "top"
  BY DEF Idle, SupFields

LEMMA FirstStage == 1 \in 1..Len(Stages) /\ Len(Stages) \in Nat
  BY SyncAssumption

LEMMA CountMoves ==
  ASSUME CountOK,
         \/ count' = count
         \/ count' = [count EXCEPT !.faults = @ + 1]
         \/ count' = [count EXCEPT !.changes = @ + 1]
  PROVE  CountOK' /\ count'.restarts = count.restarts
  BY DEF CountOK

LEMMA FaultMoves == CountOK /\ Fault => CountOK' /\ count'.restarts = count.restarts
  BY CountMoves DEF Fault
LEMMA ChangeMoves == CountOK /\ Change => CountOK' /\ count'.restarts = count.restarts
  BY CountMoves DEF Change

\* The supervisor is not in a traversal and holds no fetched content.
Resting ==
  /\ DOMAIN sup = SupFields /\ sup.next \in Nexts
  /\ sup.pc \notin {"page", "verify", "apply", "merge"}

LEMMA RestingKeeps == Resting' => SupOK' /\ GotInv' /\ FullInv'
  BY DEF Resting, SupOK, SupFields, Nexts, GotInv, FullInv, Full

\* An idle supervisor is resting, whatever it is told to do next.
LEMMA IdleRests ==
  ASSUME NEW pc, pc \notin {"page", "verify", "apply", "merge"},
         \/ sup' = Idle(pc)
         \/ \E n \in Nexts : sup' = [Idle(pc) EXCEPT !.next = n]
         \/ \E d : sup' = [Idle(pc) EXCEPT !.due = d]
  PROVE  Resting'
<1>1. DOMAIN Idle(pc) = SupFields /\ Idle(pc).pc = pc /\ Idle(pc).next = "top"
  BY IdleFacts
<1>2. CASE sup' = Idle(pc)
  BY <1>1, <1>2 DEF Resting, Nexts
<1>3. CASE \E n \in Nexts : sup' = [Idle(pc) EXCEPT !.next = n]
  BY <1>1, <1>3 DEF Resting, Nexts, SupFields
<1>4. CASE \E d : sup' = [Idle(pc) EXCEPT !.due = d]
  BY <1>1, <1>4 DEF Resting, Nexts, SupFields
<1> QED
  BY <1>2, <1>3, <1>4

\* A step that leaves the library, the run and the supervisor alone.
LEMMA StillFull ==
  ASSUME IInv, UNCHANGED <<remote, sup>>, scope'.state = scope.state
  PROVE  SupOK' /\ GotInv' /\ FullInv'
  BY DEF IInv, TypeInv, SupOK, GotInv, FullInv, Full, Fetched

\* A step ends where the supervisor rests, and the search is as it was.
LEMMA RestKeeps ==
  ASSUME remote' \in Libraries, ScopeOK', CountOK', Resting', FollowInv'
  PROVE  IInv'
  BY RestingKeeps DEF IInv, TypeInv

LEMMA ScopeFrames ==
  ASSUME ScopeOK
  PROVE  /\ scope' = scope => ScopeOK' /\ scope'.completed = scope.completed
         /\ scope' = Failed(scope) => ScopeOK' /\ scope'.completed = scope.completed
         /\ \A a, b : scope' = [scope EXCEPT !.catchup = @ \/ a, !.members = @ \/ b]
              => /\ ScopeOK' /\ scope'.completed = scope.completed
                 /\ scope'.state = scope.state
         /\ scope' = MembershipChecked(scope) => ScopeOK' /\ scope'.completed = scope.completed
         /\ scope' = IncrementalSuccess(scope) => ScopeOK' /\ scope'.completed = scope.completed
         /\ \A a : scope' = Checkpoint(scope, a)
              => ScopeOK' /\ scope'.completed = scope.completed
         /\ \A a : scope' = IncrementalSuccess(Checkpoint(scope, a))
              => ScopeOK' /\ scope'.completed = scope.completed
         /\ \A n : scope' = IncrementalFailure(scope, n)
              => ScopeOK' /\ scope'.completed = scope.completed
<1> USE DEF ScopeOK
<1>1. scope' = scope => ScopeOK' /\ scope'.completed = scope.completed
  OBVIOUS
<1>2. scope' = Failed(scope) => ScopeOK' /\ scope'.completed = scope.completed
  BY DEF Failed
<1>3. \A a, b : scope' = [scope EXCEPT !.catchup = @ \/ a, !.members = @ \/ b]
        => /\ ScopeOK' /\ scope'.completed = scope.completed
           /\ scope'.state = scope.state
  OBVIOUS
<1>4. scope' = MembershipChecked(scope) => ScopeOK' /\ scope'.completed = scope.completed
  BY DEF MembershipChecked
<1>5. scope' = IncrementalSuccess(scope) => ScopeOK' /\ scope'.completed = scope.completed
  BY DEF IncrementalSuccess
<1>6. \A a : scope' = Checkpoint(scope, a) => ScopeOK' /\ scope'.completed = scope.completed
  BY DEF Checkpoint
<1>7. \A a : scope' = IncrementalSuccess(Checkpoint(scope, a))
        => ScopeOK' /\ scope'.completed = scope.completed
  BY DEF Checkpoint, IncrementalSuccess
<1>8. \A n : scope' = IncrementalFailure(scope, n)
        => ScopeOK' /\ scope'.completed = scope.completed
  BY DEF IncrementalFailure
<1> QED
  BY <1>1, <1>2, <1>3, <1>4, <1>5, <1>6, <1>7, <1>8

-----------------------------------------------------------------------------
(* The library, the socket and deletions made in the application.           *)

LEMMA FamilyFacts ==
  ASSUME remote \in Libraries, NEW i \in Items
  PROVE  /\ Removed(remote, Family(i)) \in Libraries
         /\ \A j \in Items : Removed(remote, Family(i))[j] = None
                               => remote[j] = None \/ j \in Family(i)
  BY DEF Removed, Libraries

\* A traversal notes what is gone from the server while it runs.
LEMMA LibraryMoves ==
  ASSUME IInv, NEW g, sup' = [sup EXCEPT !.gone = g], remote' \in Libraries,
         Full => \A j \in Items : remote'[j] = None => j \in g,
         Full => sup.gone \subseteq g,
         UNCHANGED storeVars, Change
  PROVE  IInv'
<1>1. /\ DOMAIN sup = SupFields /\ DOMAIN sup' = SupFields /\ sup'.gone = g
      /\ sup'.pc = sup.pc /\ sup'.stage = sup.stage /\ sup'.got = sup.got
      /\ sup'.next = sup.next /\ sup'.ids = sup.ids
  BY DEF IInv, TypeInv, SupOK, SupFields
<1>2. CountOK' /\ count'.restarts = count.restarts
  BY ChangeMoves DEF IInv, TypeInv
<1>3. FollowInv'
  BY <1>2, FrameKeeps DEF IInv, Frame, storeVars
<1>4. TypeInv'
  BY <1>1, <1>2 DEF IInv, TypeInv, SupOK, SupFields, Full, ScopeOK, storeVars
<1>5. GotInv'
  BY <1>1 DEF IInv, GotInv, Fetched
<1>6. FullInv'
  BY <1>1 DEF IInv, FullInv, Full, storeVars
<1> QED
  BY <1>3, <1>4, <1>5, <1>6 DEF IInv

LEMMA ChangedKeeps ==
  ASSUME IInv, NEW r \in Libraries, NEW ids, NEW kinds, Changed(r, ids, kinds)
  PROVE  IInv'
<1> DEFINE g == IF Full THEN sup.gone \cup {i \in Items : r[i] = None} ELSE sup.gone
<1>1. /\ remote' = r /\ Change /\ UNCHANGED storeVars
      /\ sup' = [sup EXCEPT !.gone = g]
  BY DEF Changed
<1>2. Full => sup.gone \subseteq g /\ \A j \in Items : remote'[j] = None => j \in g
  BY <1>1
<1> QED
  BY <1>1, <1>2, LibraryMoves

LEMMA SaveRemoteKeeps ==
  ASSUME IInv, NEW i \in Items, NEW c \in Contents, SaveRemote(i, c)
  PROVE  IInv'
<1>1. [remote EXCEPT ![i] = c] \in Libraries
  BY DEF IInv, TypeInv, Libraries
<1> QED
  BY <1>1, ChangedKeeps DEF SaveRemote

LEMMA DeleteRemoteKeeps ==
  ASSUME IInv, NEW i \in Items, DeleteRemote(i)
  PROVE  IInv'
<1>1. Removed(remote, Family(i)) \in Libraries
  BY FamilyFacts DEF IInv, TypeInv
<1> QED
  BY <1>1, ChangedKeeps DEF DeleteRemote

LEMMA DeleteHereKeeps ==
  ASSUME IInv, NEW i \in Items, DeleteHere(i)
  PROVE  IInv'
<1> DEFINE g == IF Full THEN sup.gone \cup Family(i) ELSE sup.gone
<1>1. /\ remote' = Removed(remote, Family(i)) /\ Change /\ UNCHANGED storeVars
      /\ sup' = [sup EXCEPT !.gone = g]
  BY DEF DeleteHere
<1>2. /\ remote' \in Libraries
      /\ \A j \in Items : remote'[j] = None => remote[j] = None \/ j \in Family(i)
  BY <1>1, FamilyFacts DEF IInv, TypeInv
<1>3. Full => sup.gone \subseteq g /\ \A j \in Items : remote'[j] = None => j \in g
  BY <1>2 DEF IInv, FullInv
<1> QED
  BY <1>1, <1>2, <1>3, LibraryMoves

LEMMA SocketKeeps ==
  ASSUME IInv, Connect \/ NoticeBreak \/ Route \/ Break
  PROVE  IInv'
<1>1. UNCHANGED <<storeVars, remote, sup>>
  BY DEF Connect, NoticeBreak, Route, Break
<1>2. CountOK' /\ count'.restarts = count.restarts
  BY FaultMoves, CountMoves DEF IInv, TypeInv, Connect, NoticeBreak, Route, Break
<1>3. FollowInv'
  BY <1>1, <1>2, FrameKeeps DEF IInv, Frame, storeVars
<1>4. SupOK' /\ GotInv' /\ FullInv'
  BY <1>1, StillFull DEF storeVars
<1> QED
  BY <1>1, <1>2, <1>3, <1>4 DEF IInv, TypeInv, ScopeOK, storeVars

LEMMA EvictKeeps ==
  ASSUME IInv, NEW i \in Items, EvictItem(i) \/ EnqueueEvicted(i)
  PROVE  IInv'
<1>1. UNCHANGED <<remote, sup, count>>
  BY DEF EvictItem, EnqueueEvicted, netVars
<1>2. FollowInv' /\ ScopeOK' /\ scope'.state = scope.state
  <2>1. CASE RemoveIncrementally(i)
    BY <2>1, <1>1, RemoveKeeps DEF IInv, TypeInv, RemoveIncrementally, ScopeOK
  <2>2. CASE UNCHANGED storeVars
    BY <2>2, <1>1, FrameKeeps DEF IInv, TypeInv, Frame, storeVars, ScopeOK
  <2>3. CASE Enqueue({}, {i}, FALSE, FALSE)
    <3>1. /\ scope' = [scope EXCEPT !.catchup = @ \/ FALSE, !.members = @ \/ FALSE]
          /\ UNCHANGED <<rows, changed, tombs, base, live>>
      BY <2>3 DEF Enqueue
    <3>2. ScopeOK' /\ scope'.completed = scope.completed /\ scope'.state = scope.state
      BY <3>1, ScopeFrames DEF IInv, TypeInv
    <3> QED
      BY <3>1, <3>2, <1>1, FrameKeeps DEF IInv, Frame
  <2> QED
    BY <2>1, <2>2, <2>3 DEF EvictItem, EnqueueEvicted
<1>3. SupOK' /\ GotInv' /\ FullInv'
  BY <1>1, <1>2, StillFull
<1> QED
  BY <1>1, <1>2, <1>3 DEF IInv, TypeInv, CountOK

-----------------------------------------------------------------------------
(* The supervisor between traversals.                                       *)

LEMMA Facts ==
  IInv => /\ remote \in Libraries /\ ScopeOK /\ CountOK /\ FollowInv
          /\ DOMAIN sup = SupFields /\ sup.next \in Nexts
  BY DEF IInv, TypeInv, SupOK, SupFields, Nexts

\* A step that touches nothing of the store but the scope.
LEMMA ScopeOnly ==
  ASSUME IInv, UNCHANGED <<rows, changed, tombs, base, live, remote>>,
         ScopeOK', scope'.completed = scope.completed,
         CountOK', count'.restarts = count.restarts, Resting'
  PROVE  IInv'
<1>1. FollowInv'
  BY Facts, FrameKeeps DEF Frame
<1> QED
  BY <1>1, Facts, RestKeeps

LEMMA NotificationsKeep ==
  ASSUME IInv, Drain \/ Persist \/ PersistFails
  PROVE  IInv'
<1>1. CASE Drain
  <2>1. /\ DOMAIN sup' = SupFields /\ sup'.pc = "persist" /\ sup'.next \in {"decide", "pend"}
    BY <1>1, Facts DEF Drain, SupFields
  <2>2. Resting'
    BY <2>1 DEF Resting, Nexts
  <2>3. UNCHANGED <<storeVars, remote, count>>
    BY <1>1 DEF Drain, Local, netVars
  <2> QED
    BY <2>2, <2>3, ScopeOnly, Facts DEF storeVars, ScopeOK, CountOK
<1>2. CASE Persist
  <2>1. sup' = [Idle(sup.next) EXCEPT !.due = sup.due]
    BY <1>2 DEF Persist, At
  <2>2. sup.next \notin {"page", "verify", "apply", "merge"}
    BY Facts DEF Nexts
  <2>3. Resting'
    BY <2>1, <2>2, IdleRests
  <2>4. /\ scope' = [scope EXCEPT !.catchup = @ \/ sup.got.catchup,
                                  !.members = @ \/ sup.got.members]
        /\ UNCHANGED <<rows, changed, tombs, base, live, remote, count>>
    BY <1>2 DEF Persist, Enqueue, Local, netVars
  <2>5. ScopeOK' /\ scope'.completed = scope.completed
    BY <2>4, Facts, ScopeFrames
  <2> QED
    BY <2>3, <2>4, <2>5, ScopeOnly, Facts DEF CountOK
<1>3. CASE PersistFails
  <2>1. PICK pc \in {"wait", "top"} : sup' = [Idle(pc) EXCEPT !.due = sup.due]
    BY <1>3 DEF PersistFails, At
  <2>2. Resting'
    BY <2>1, IdleRests
  <2>3. UNCHANGED <<storeVars, remote>> /\ Fault
    BY <1>3 DEF PersistFails, Local, netVars
  <2>4. CountOK' /\ count'.restarts = count.restarts
    BY <2>3, Facts, FaultMoves
  <2> QED
    BY <2>2, <2>3, <2>4, ScopeOnly, Facts DEF storeVars, ScopeOK
<1> QED
  BY <1>1, <1>2, <1>3

\* A traversal begins with what is missing from the server at that moment.
LEMMA StartFullKeeps ==
  ASSUME IInv, StartFull, UNCHANGED <<remote, count>>
  PROVE  IInv'
<1>1. /\ sup' = [Idle("page") EXCEPT !.gone = Items \ Present]
      /\ scope' = [scope EXCEPT !.state = "running", !.dirty = FALSE, !.verified = FALSE]
      /\ UNCHANGED <<rows, changed, tombs, base, live>>
  BY DEF StartFull, BeginSync
<1>2. /\ DOMAIN Idle("page") = SupFields /\ Idle("page").pc = "page"
      /\ Idle("page").stage = 1 /\ Idle("page").next = "top"
  BY IdleFacts
<1>3. /\ DOMAIN sup' = SupFields /\ sup'.pc = "page" /\ sup'.stage = 1 /\ sup'.next = "top"
      /\ sup'.gone = Items \ Present
  BY <1>1, <1>2 DEF SupFields
<1>4. ScopeOK' /\ scope'.completed = scope.completed /\ scope'.state = "running"
  BY <1>1, Facts DEF ScopeOK
<1>5. FollowInv'
  BY <1>1, <1>4, Facts, FrameKeeps DEF Frame
<1>6. TypeInv'
  BY <1>3, <1>4, Facts, FirstStage DEF TypeInv, SupOK, SupFields, CountOK, Full
<1>7. GotInv'
  BY <1>3 DEF GotInv
<1>8. FullInv'
  BY <1>3, <1>4 DEF FullInv, Full, Present
<1> QED
  BY <1>5, <1>6, <1>7, <1>8 DEF IInv

LEMMA DecideKeeps ==
  ASSUME IInv, Decide
  PROVE  IInv'
<1>1. UNCHANGED <<remote, count>>
  BY DEF Decide, Local, netVars
<1>2. CASE Recover
  <2>1. scope' = Failed(scope) /\ UNCHANGED <<rows, changed, tombs, base, live>>
    BY <1>2 DEF Recover, RecoverInterrupted, FailSync
  <2>2. ScopeOK' /\ scope'.completed = scope.completed
    BY <2>1, Facts, ScopeFrames
  <2>3. Resting'
    BY <1>2, IdleRests DEF Recover
  <2> QED
    BY <1>1, <2>1, <2>2, <2>3, Facts, ScopeOnly DEF CountOK
<1>3. CASE StartFull
  BY <1>1, <1>3, StartFullKeeps
<1>4. CASE \E probe \in BOOLEAN : StartDelta(probe)
  <2>1. PICK n \in Nexts : sup' = [Idle("delta") EXCEPT !.at = count.changes, !.next = n]
    BY <1>4 DEF StartDelta, Nexts
  <2>2. DOMAIN Idle("delta") = SupFields /\ Idle("delta").pc = "delta"
    BY IdleFacts
  <2>3. Resting'
    BY <2>1, <2>2 DEF Resting, SupFields
  <2>4. UNCHANGED <<rows, changed, tombs, scope, base, live>>
    BY <1>4 DEF StartDelta
  <2> QED
    BY <1>1, <2>3, <2>4, Facts, ScopeOnly DEF CountOK, ScopeOK
<1>5. CASE (sup' = Idle("debounce") /\ UNCHANGED <<storeVars, cooling>>) \/ Pause
  <2>1. Resting'
    BY <1>5, IdleRests DEF Pause
  <2>2. UNCHANGED storeVars
    BY <1>5 DEF Pause
  <2> QED
    BY <1>1, <2>1, <2>2, Facts, ScopeOnly DEF CountOK, ScopeOK, storeVars
<1> QED
  BY <1>2, <1>3, <1>4, <1>5 DEF Decide

LEMMA WaitingKeeps ==
  ASSUME IInv, Woken \/ Elapse \/ Interval
  PROVE  IInv'
<1>1. Resting'
  BY IdleRests DEF Woken, Elapse, Interval
<1>2. UNCHANGED <<storeVars, remote>>
  BY DEF Woken, Elapse, Interval, Local, netVars
<1>3. CountOK' /\ count'.restarts = count.restarts
  BY Facts, FaultMoves, CountMoves DEF Woken, Elapse, Interval
<1> QED
  BY <1>1, <1>2, <1>3, Facts, ScopeOnly DEF ScopeOK, storeVars

-----------------------------------------------------------------------------
(* Pending ids, the delta and the membership pass.                          *)

LEMMA PresentHeld ==
  ASSUME remote \in Libraries, NEW S, S \subseteq Present
  PROVE  Fetched([i \in S |-> remote[i]])
  BY DEF Fetched, Present, Libraries

\* The supervisor holds what the server just said, outside a traversal.
LEMMA HoldingKeeps ==
  ASSUME IInv, UNCHANGED <<storeVars, remote, count>>,
         DOMAIN sup' = SupFields, sup'.next \in Nexts, sup'.pc \in {"apply", "merge"},
         Fetched(sup'.got)
  PROVE  IInv'
<1>1. FollowInv'
  BY Facts, FrameKeeps DEF Frame, storeVars
<1>2. TypeInv'
  BY Facts DEF TypeInv, SupOK, SupFields, Nexts, Full, ScopeOK, CountOK, storeVars
<1>3. GotInv' /\ FullInv'
  BY DEF GotInv, Fetched, FullInv, Full
<1> QED
  BY <1>1, <1>2, <1>3 DEF IInv

LEMMA FetchKeeps ==
  ASSUME IInv, Fetch \/ FetchDelta
  PROVE  IInv'
<1>1. UNCHANGED <<storeVars, remote, count>>
  BY DEF Fetch, FetchDelta, Local, netVars
<1>2. CASE Fetch
  <2>1. /\ DOMAIN sup' = SupFields /\ sup'.next = sup.next /\ sup'.pc = "apply"
        /\ sup'.got = [i \in sup.up \cap Present |-> remote[i]]
    BY <1>2, Facts DEF Fetch, SupFields
  <2>2. Fetched(sup'.got)
    BY <2>1, Facts, PresentHeld
  <2> QED
    BY <1>1, <2>1, <2>2, Facts, HoldingKeeps
<1>3. CASE FetchDelta
  <2>1. PICK S : /\ S \subseteq Present
                 /\ sup' = [sup EXCEPT !.pc = "merge", !.got = [i \in S |-> remote[i]]]
    BY <1>3 DEF FetchDelta
  <2>2. /\ DOMAIN sup' = SupFields /\ sup'.next = sup.next /\ sup'.pc = "merge"
        /\ sup'.got = [i \in S |-> remote[i]]
    BY <2>1, Facts DEF SupFields
  <2>3. Fetched(sup'.got)
    BY <2>1, <2>2, Facts, PresentHeld
  <2> QED
    BY <1>1, <2>2, <2>3, Facts, HoldingKeeps
<1> QED
  BY <1>2, <1>3

LEMMA ReadBatchKeeps ==
  ASSUME IInv, ReadBatch
  PROVE  IInv'
<1>1. UNCHANGED <<rows, changed, tombs, base, live, remote, count>>
  BY DEF ReadBatch, Local, netVars
<1>2. CASE sup' = [sup EXCEPT !.pc = "fetch", !.up = Wanted("upsert"), !.rm = Wanted("remove")]
           /\ UNCHANGED scope
  <2>1. DOMAIN sup' = SupFields /\ sup'.pc = "fetch" /\ sup'.next = sup.next
    BY <1>2, Facts DEF SupFields
  <2>2. Resting'
    BY <2>1, Facts DEF Resting
  <2> QED
    BY <1>1, <1>2, <2>2, Facts, ScopeOnly DEF ScopeOK, CountOK
<1>3. CASE sup' = Idle("top")
           /\ scope' \in {MembershipChecked(scope), IncrementalSuccess(scope)}
  <2>1. Resting'
    BY <1>3, IdleRests
  <2>2. ScopeOK' /\ scope'.completed = scope.completed
    BY <1>3, Facts, ScopeFrames
  <2> QED
    BY <1>1, <2>1, <2>2, Facts, ScopeOnly DEF CountOK
<1> QED
  BY <1>2, <1>3 DEF ReadBatch

LEMMA ApplyBatchKeeps ==
  ASSUME IInv, ApplyBatch
  PROVE  IInv'
<1>1. Fetched(sup.got)
  BY DEF ApplyBatch, IInv, GotInv
<1>2. UNCHANGED <<scope, base, remote, count>>
  BY DEF ApplyBatch, Local, netVars
<1>3. FollowInv'
  BY <1>1, <1>2, Facts, ApplyKeeps DEF ApplyBatch
<1>4. Resting'
  BY Facts, IdleRests DEF ApplyBatch
<1> QED
  BY <1>2, <1>3, <1>4, Facts, RestKeeps DEF ScopeOK, CountOK

LEMMA ApplyDeltaKeeps ==
  ASSUME IInv, ApplyDelta
  PROVE  IInv'
<1>1. Fetched(sup.got)
  BY DEF ApplyDelta, IInv, GotInv
<1>2. UNCHANGED <<base, remote, count>>
  BY DEF ApplyDelta, Local, netVars
<1>3. ScopeOK' /\ scope'.completed = scope.completed
  BY Facts, ScopeFrames DEF ApplyDelta
<1>4. FollowInv'
  BY <1>1, <1>2, <1>3, Facts, ApplyKeeps DEF ApplyDelta
<1>5. Resting'
  BY Facts, IdleRests DEF ApplyDelta, Nexts
<1> QED
  BY <1>2, <1>3, <1>4, <1>5, Facts, RestKeeps DEF CountOK

LEMMA ProbeKeeps ==
  ASSUME IInv, Probe
  PROVE  IInv'
<1>1. UNCHANGED <<remote, count>> /\ sup.pc = "probe"
  BY DEF Probe, Local, netVars
<1>2. CASE sup' = NextStage /\ UNCHANGED <<rows, changed, tombs, scope, base, live>>
  <2>1. DOMAIN sup' = SupFields /\ sup'.pc = "probe" /\ sup'.next = sup.next
    BY <1>1, <1>2, Facts DEF NextStage, SupFields
  <2>2. Resting'
    BY <2>1, Facts DEF Resting
  <2> QED
    BY <1>1, <1>2, <2>2, Facts, ScopeOnly DEF ScopeOK, CountOK
<1>3. CASE /\ Enqueue(Probed \ Rows, Rows \ Probed, FALSE, FALSE)
           /\ sup' = [Idle("pend") EXCEPT !.next = "members"]
  <2>0. \E n \in Nexts : sup' = [Idle("pend") EXCEPT !.next = n]
    BY <1>3 DEF Nexts
  <2>1. Resting'
    BY <2>0, IdleRests
  <2>2. /\ scope' = [scope EXCEPT !.catchup = @ \/ FALSE, !.members = @ \/ FALSE]
        /\ UNCHANGED <<rows, changed, tombs, base, live>>
    BY <1>3 DEF Enqueue
  <2>3. ScopeOK' /\ scope'.completed = scope.completed
    BY <2>2, Facts, ScopeFrames
  <2> QED
    BY <1>1, <2>1, <2>2, <2>3, Facts, ScopeOnly DEF CountOK
<1> QED
  BY <1>2, <1>3 DEF Probe

LEMMA IncrementalFailsKeeps ==
  ASSUME IInv, IncrementalFails
  PROVE  IInv'
<1>1. /\ UNCHANGED <<rows, changed, tombs, base, live, remote>> /\ Fault
      /\ scope' = IncrementalFailure(scope, Threshold)
  BY DEF IncrementalFails, Local, netVars
<1>2. Resting'
  BY IdleRests DEF IncrementalFails
<1>3. ScopeOK' /\ scope'.completed = scope.completed
  BY <1>1, Facts, ScopeFrames
<1>4. CountOK' /\ count'.restarts = count.restarts
  BY <1>1, Facts, FaultMoves
<1> QED
  BY <1>1, <1>2, <1>3, <1>4, Facts, ScopeOnly

-----------------------------------------------------------------------------
(* The full traversal.                                                      *)

LEMMA StageFacts ==
  ASSUME NEW k \in 1..Len(Stages)
  PROVE  Stages[k] \subseteq Items
  BY SyncAssumption

LEMMA StageOf ==
  ASSUME NEW i \in Items
  PROVE  \E k \in 1..Len(Stages) : i \in Stages[k]
  BY SyncAssumption

LEMMA EndFailedKeeps ==
  ASSUME IInv, EndFailed, UNCHANGED remote, CountOK', count'.restarts = count.restarts
  PROVE  IInv'
<1>1. scope' = Failed(scope) /\ UNCHANGED <<rows, changed, tombs, base, live>>
  BY DEF EndFailed, FailSync
<1>2. ScopeOK' /\ scope'.completed = scope.completed
  BY <1>1, Facts, ScopeFrames
<1>3. Resting'
  BY IdleRests DEF EndFailed
<1> QED
  BY <1>1, <1>2, <1>3, ScopeOnly

LEMMA PageKeeps ==
  ASSUME IInv, Page
  PROVE  IInv'
<1>1. PICK S \in SUBSET (Stages[sup.stage] \cap Present) :
        /\ count' = count \/ count' = [count EXCEPT !.faults = @ + 1]
        /\ LET total == sup.total + Cardinality(S)
           IN  /\ UpsertPage([i \in S |-> remote[i]], IF Last THEN total ELSE scope.expected)
               /\ sup' = IF Last THEN [Idle("verify") EXCEPT !.gone = sup.gone]
                         ELSE [sup EXCEPT !.stage = @ + 1, !.total = total]
  BY DEF Page
<1>2. CountOK' /\ count'.restarts = count.restarts
  BY <1>1, Facts, CountMoves
<1>3. Fetched([i \in S |-> remote[i]])
  BY Facts, PresentHeld
<1>4. remote' = remote /\ sup.pc = "page" /\ Full
  BY DEF Page, Local, netVars, Full
<1>5. PICK total :
        /\ Store([i \in S |-> remote[i]]) /\ UNCHANGED base
        /\ scope' = [scope EXCEPT !.verified = FALSE, !.expected = total]
  BY <1>1 DEF UpsertPage
<1>6. ScopeOK' /\ scope'.completed = scope.completed /\ scope'.state = scope.state
  BY <1>5, Facts DEF ScopeOK
<1>7. FollowInv'
  BY <1>2, <1>3, <1>5, <1>6, Facts, StoreKeeps
<1>8. /\ DOMAIN sup' = SupFields /\ sup'.next \in Nexts
      /\ sup'.stage \in 1..Len(Stages) /\ sup'.gone = sup.gone
      /\ sup'.pc \in {"page", "verify"} /\ (sup'.pc = "verify" => sup'.stage = 1)
  <2>1. CASE Last
    <3>1. sup' = [Idle("verify") EXCEPT !.gone = sup.gone]
      BY <1>1, <2>1
    <3>2. /\ DOMAIN Idle("verify") = SupFields /\ Idle("verify").pc = "verify"
          /\ Idle("verify").stage = 1 /\ Idle("verify").next = "top"
      BY IdleFacts
    <3> QED
      BY <3>1, <3>2, FirstStage DEF SupFields, Nexts
  <2>2. CASE ~Last
    <3>1. PICK n : sup' = [sup EXCEPT !.stage = @ + 1, !.total = n]
      BY <1>1, <2>2
    <3>2. sup.stage \in 1..Len(Stages)
      BY <1>4 DEF IInv, TypeInv, SupOK
    <3>3. sup.stage + 1 \in 1..Len(Stages)
      BY <3>2, <2>2, FirstStage DEF Last
    <3> QED
      BY <3>1, <3>3, <1>4, Facts DEF SupFields
  <2> QED
    BY <2>1, <2>2
<1>9. TypeInv'
  BY <1>2, <1>4, <1>6, <1>8, Facts DEF TypeInv, SupOK, SupFields, Nexts
<1>10. GotInv'
  BY <1>8 DEF GotInv
<1>11. FullInv'
  BY <1>4, <1>6, <1>8 DEF IInv, FullInv, Full
<1> QED
  BY <1>7, <1>9, <1>10, <1>11 DEF IInv

\* A stage that is read again leaves out only items that are gone.
LEMMA VerifyKeeps ==
  ASSUME IInv, Verify
  PROVE  IInv'
<1>1. UNCHANGED <<remote, count>> /\ sup.pc = "verify" /\ Full
  BY DEF Verify, Local, netVars, Full
<1>2. CASE ~Last /\ sup' = NextStage /\ UNCHANGED <<storeVars, cooling>>
  <2>1. sup.stage \in 1..Len(Stages) /\ sup.stage # Len(Stages)
    BY <1>1, <1>2 DEF IInv, TypeInv, SupOK, Last
  <2>2. /\ DOMAIN sup' = SupFields /\ sup'.next = sup.next /\ sup'.gone = sup.gone
        /\ sup'.stage = sup.stage + 1 /\ sup'.ids = Probed /\ sup'.pc = "verify"
    BY <1>1, <1>2, Facts DEF NextStage, SupFields
  <2>3. Stages[sup.stage] \subseteq Probed \cup sup.gone
    BY <1>1, <2>1, StageFacts DEF IInv, FullInv, Probed, Present
  <2>4. \A k \in 1..(sup.stage - 1) : Stages[k] \subseteq sup.ids \cup sup.gone
    BY <1>1 DEF IInv, FullInv
  <2>5. \A k \in 1..(sup'.stage - 1) : Stages[k] \subseteq sup'.ids \cup sup'.gone
    <3> SUFFICES ASSUME NEW k \in 1..sup.stage
                 PROVE  Stages[k] \subseteq Probed \cup sup.gone
      BY <2>1, <2>2
    <3>1. CASE k = sup.stage
      BY <3>1, <2>3
    <3>2. CASE k # sup.stage
      BY <3>2, <2>1, <2>4 DEF Probed
    <3> QED
      BY <3>1, <3>2
  <2>6. FullInv'
    BY <1>1, <1>2, <2>2, <2>5 DEF IInv, FullInv, Full, storeVars
  <2>7. TypeInv'
    BY <1>1, <1>2, <2>1, <2>2, Facts, FirstStage
    DEF TypeInv, SupOK, SupFields, Nexts, ScopeOK, CountOK, storeVars
  <2>8. FollowInv'
    BY <1>1, <1>2, Facts, FrameKeeps DEF Frame, storeVars
  <2>9. GotInv'
    BY <2>2 DEF GotInv
  <2> QED
    BY <2>6, <2>7, <2>8, <2>9 DEF IInv
<1>3. CASE CompleteSync(count.changes) /\ sup' = Idle("top")
  <2>1. FollowInv'
    BY <1>1, <1>3, Facts, CompleteKeeps
  <2>2. ScopeOK'
    BY <1>3, Facts DEF CompleteSync, ScopeOK
  <2>3. Resting'
    BY <1>3, IdleRests
  <2> QED
    BY <1>1, <2>1, <2>2, <2>3, Facts, RestKeeps DEF CountOK
<1>4. CASE EndFailed
  BY <1>1, <1>4, Facts, EndFailedKeeps DEF CountOK
<1> QED
  BY <1>2, <1>3, <1>4 DEF Verify

LEMMA FullFailsKeeps ==
  ASSUME IInv, FullFails
  PROVE  IInv'
<1>1. EndFailed /\ UNCHANGED remote /\ Fault
  BY DEF FullFails, Local, netVars
<1>2. CountOK' /\ count'.restarts = count.restarts
  BY <1>1, Facts, FaultMoves
<1> QED
  BY <1>1, <1>2, EndFailedKeeps

-----------------------------------------------------------------------------
(* The end of a session and of the process.                                 *)

LEMMA RestartKeeps ==
  ASSUME IInv, Stop \/ Crash
  PROVE  IInv'
<1>1. /\ count' = [count EXCEPT !.faults = @ + 1, !.restarts = 1]
      /\ sup' = Idle("top") /\ UNCHANGED remote
  BY DEF Stop, Crash, Restarted
<1>2. CountOK' /\ count'.restarts = 1
  <2>1. count \in [changes : Nat, faults : Nat, restarts : Nat] /\ count.faults + 1 \in Nat
    BY Facts DEF CountOK
  <2>2. count' = [changes |-> count.changes, faults |-> count.faults + 1, restarts |-> 1]
    BY <1>1, <2>1
  <2> QED
    BY <2>1, <2>2 DEF CountOK
<1>3. Resting'
  BY <1>1, IdleRests
<1>4. CASE Stop
  <2>1. UNCHANGED <<rows, changed, tombs, base, live>> /\ scope' \in {scope, Failed(scope)}
    BY <1>4 DEF Stop, FailSync
  <2>2. ScopeOK' /\ scope'.completed = scope.completed
    BY <2>1, Facts, ScopeFrames
  <2>3. FollowInv'
    BY <1>2, <2>1, <2>2, Facts, FrameKeeps DEF Frame
  <2> QED
    BY <1>1, <1>2, <1>3, <2>2, <2>3, Facts, RestKeeps
<1>5. CASE Crash
  <2>1. Open /\ UNCHANGED <<rows, changed, tombs, scope>>
    BY <1>5 DEF Crash
  <2>2. FollowInv'
    BY <1>2, <2>1, Facts, OpenKeeps
  <2> QED
    BY <1>1, <1>2, <1>3, <2>1, <2>2, Facts, RestKeeps DEF ScopeOK
<1> QED
  BY <1>4, <1>5

-----------------------------------------------------------------------------
(* The invariant, and what it says of the search and of the sweep.          *)

LEMMA InitInv == Init => IInv
<1> SUFFICES ASSUME Init PROVE IInv
  OBVIOUS
<1>1. /\ rows = Missing /\ tombs = {} /\ changed = {} /\ base = Missing
      /\ live = Snapshot(Missing, Missing) /\ scope.completed = FALSE
      /\ sup = Idle("top") /\ remote \in FirstLibraries
      /\ count = [changes |-> 0, faults |-> 0, restarts |-> 0]
      /\ ScopeOK
  BY DEF Init, StoreInit, ScopeOK
<1>2. live \in Lives /\ \A i \in Items : Visible(live)[i] = None
  BY <1>1, MissingDocs, SnapshotSeen DEF Missing
<1>3. RowsOK
  BY <1>1, <1>2, MissingDocs DEF RowsOK
<1>4. SearchFollowsRows
  BY <1>1, <1>2 DEF SearchFollowsRows, Terms, Missing
<1>5. BaseFollows /\ TombsGone
  BY <1>1 DEF BaseFollows, TombsGone
<1>6. /\ DOMAIN Idle("top") = SupFields /\ Idle("top").pc = "top" /\ Idle("top").next = "top"
  BY IdleFacts
<1>7. SupOK /\ GotInv /\ FullInv
  BY <1>1, <1>6 DEF SupOK, SupFields, GotInv, FullInv, Full
<1>8. remote \in Libraries /\ CountOK
  BY <1>1, SyncAssumption DEF Libraries, CountOK
<1> QED
  BY <1>1, <1>3, <1>4, <1>5, <1>7, <1>8 DEF IInv, TypeInv, FollowInv

LEMMA StutterKeeps == IInv /\ UNCHANGED vars => IInv'
<1> SUFFICES ASSUME IInv, UNCHANGED vars PROVE IInv'
  OBVIOUS
<1>1. /\ UNCHANGED <<rows, changed, tombs, base, live, scope, remote, sup, count>>
  BY DEF vars, storeVars, netVars
<1>2. FollowInv'
  BY <1>1, Facts, FrameKeeps DEF Frame
<1>3. SupOK' /\ GotInv' /\ FullInv'
  BY <1>1, StillFull
<1> QED
  BY <1>1, <1>2, <1>3, Facts DEF IInv, TypeInv, ScopeOK, CountOK

LEMMA NextKeeps == IInv /\ [Next]_vars => IInv'
<1> SUFFICES ASSUME IInv, [Next]_vars PROVE IInv'
  OBVIOUS
<1>1. CASE Work
  BY <1>1, NotificationsKeep, DecideKeeps, WaitingKeeps, ReadBatchKeeps, FetchKeeps,
     ApplyBatchKeeps, ApplyDeltaKeeps, ProbeKeeps, PageKeeps, VerifyKeeps DEF Work
<1>2. CASE Monitor \/ Break
  BY <1>2, SocketKeeps DEF Monitor
<1>3. CASE Evict
  BY <1>3, EvictKeeps DEF Evict
<1>4. CASE PersistFails \/ IncrementalFails \/ FullFails \/ Interval
  BY <1>4, NotificationsKeep, IncrementalFailsKeeps, FullFailsKeeps, WaitingKeeps
<1>5. CASE \/ \E i \in Items, c \in Contents : SaveRemote(i, c)
           \/ \E i \in Items : DeleteRemote(i) \/ DeleteHere(i)
  BY <1>5, SaveRemoteKeeps, DeleteRemoteKeeps, DeleteHereKeeps
<1>6. CASE Stop \/ Crash
  BY <1>6, RestartKeeps
<1>7. CASE UNCHANGED vars
  BY <1>7, StutterKeeps
<1> QED
  BY <1>1, <1>2, <1>3, <1>4, <1>5, <1>6, <1>7 DEF Next

LEMMA IInvAlways == Spec => []IInv
  BY InitInv, NextKeeps, PTL DEF Spec

\* A search shows each cached row by its current terms, and until a restart
\* nothing else, through pages, batches, removals, publications and reopens.
THEOREM SearchAlwaysFollowsRows == Spec => []SearchFollowsRows
<1>1. IInv => SearchFollowsRows
  BY DEF IInv, FollowInv
<1> QED
  BY <1>1, IInvAlways, PTL

\* What is left of a traversal when it completes: everything else was gone.
LEMMA SweepStep ==
  IInv /\ [Next]_vars => [sup.pc = "verify" =>
                            \A i \in Rows : rows'[i] = None => i \in sup.gone]_vars
<1> SUFFICES ASSUME IInv, Next, sup.pc = "verify", NEW i \in Rows, rows'[i] = None
             PROVE  i \in sup.gone
  OBVIOUS
<1>1. i \in Items /\ rows[i] # None /\ rows' # rows
  BY DEF Rows
<1>2. scope.state = "running" /\ Full
  BY DEF IInv, FullInv, Full
<1>3. Verify
  <2>1. ~Evict
    BY <1>1, <1>2 DEF Evict, EvictItem, EnqueueEvicted, RemoveIncrementally, Enqueue, storeVars
  <2>2. ~Monitor /\ ~Break
    BY <1>1 DEF Monitor, Connect, NoticeBreak, Route, Break, storeVars
  <2>3. ~PersistFails /\ ~IncrementalFails /\ ~FullFails /\ ~Interval
    BY <1>1 DEF PersistFails, IncrementalFails, FullFails, EndFailed, Interval, storeVars
  <2>4. ~(\E j \in Items, c \in Contents : SaveRemote(j, c))
    BY <1>1 DEF SaveRemote, Changed, storeVars
  <2>5. ~(\E j \in Items : DeleteRemote(j) \/ DeleteHere(j))
    BY <1>1 DEF DeleteRemote, DeleteHere, Changed, storeVars
  <2>6. ~Stop /\ ~Crash
    BY <1>1 DEF Stop, Crash
  <2>7. Work
    BY <2>1, <2>2, <2>3, <2>4, <2>5, <2>6 DEF Next
  <2> QED
    BY <2>7 DEF Work, Drain, Persist, Decide, Woken, Elapse, ReadBatch, Fetch, ApplyBatch,
                FetchDelta, ApplyDelta, Probe, Page
<1>4. Last /\ MembershipVerified(Probed) /\ CompleteSync(count.changes)
  BY <1>1, <1>3 DEF Verify, EndFailed, storeVars
<1>5. i \notin Probed
  BY <1>1, <1>4 DEF CompleteSync, MembershipVerified
<1>6. PICK k \in 1..Len(Stages) : i \in Stages[k]
  BY <1>1, StageOf
<1>7. sup.stage = Len(Stages)
  BY <1>4 DEF Last
<1>8. CASE k = sup.stage
  BY <1>1, <1>2, <1>5, <1>6, <1>8 DEF Probed, Present, IInv, FullInv
<1>9. CASE k # sup.stage
  <2>1. k \in 1..(sup.stage - 1)
    BY <1>7, <1>9, FirstStage
  <2>2. Stages[k] \subseteq sup.ids \cup sup.gone
    BY <2>1, <1>2 DEF IInv, FullInv
  <2> QED
    BY <2>2, <1>5, <1>6 DEF Probed
<1> QED
  BY <1>8, <1>9

\* A completed traversal deletes only items that were gone from the server at
\* some moment since it began, whatever was saved, deleted or lost meanwhile.
THEOREM SweepIsSound == Spec => SweepDeletesOnlyGone
  BY SweepStep, IInvAlways, PTL DEF Spec, SweepDeletesOnlyGone
=============================================================================
