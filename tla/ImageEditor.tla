------------------------------ MODULE ImageEditor ---------------------------
(***************************************************************************)
(* ImageEditorViewModel.cpp over AsyncResourceState.cpp: the images of one *)
(* item, one card per image, edited optimistically.  A card that changes   *)
(* is shown changed at once; a failure puts its former image back, and a   *)
(* success is confirmed by another load of the item.                       *)
(*                                                                         *)
(* MediaCoordinator is taken at its promise: the mutations of an item run  *)
(* in order; loads share a lane, where only the newest is served; a        *)
(* mutation fences the loads of its item that are older, and those that    *)
(* are newer wait for it.  What it tells the editor from inside a call of  *)
(* the editor's is posted, and heard in a later turn.  Cards are           *)
(* independent on the server.                                              *)
(***************************************************************************)
EXTENDS Naturals, Sequences, FiniteSets

CONSTANTS
  Items,
  Cards,      \* the images of an item, by type and index
  MaxEvents,  \* bound: what the user does
  None,       \* no image, no item, no request
  First       \* the image a card has before any mutation

Images    == {None, First} \cup (1 .. MaxEvents)
Mutations == [id : 1 .. MaxEvents, card : Cards, image : Images]
Requests  == [id : Nat, item : Items]
Records   == [id : 1 .. MaxEvents, previous : Images]

EditorAssumption ==
  /\ MaxEvents \in Nat
  /\ None # First
  /\ {None, First} \cap (1 .. MaxEvents) = {}
  /\ None \notin Items \cup Requests \cup Records

VARIABLES
  editor,     \* the fields of the view model and of its m_initial
  cards,      \* per card: image, mark, the mutation of the mark, the record
  lane,       \* the lane of LoadImages: active, queued, and whether the
              \* active one is still wanted
  work,       \* mutations the coordinator has accepted, per item
  posted,     \* failures told from inside a call of the editor's
  server,     \* the images of the server
  unsure,     \* cards whose last mutation failed, but was applied, or whose
              \* mutation was refused
  loads,      \* loads requested so far
  events

vars ==
  <<editor, cards, lane, work, posted, server, unsure, loads, events>>

NoCard    == [image |-> None, mark |-> "none", by |-> None, record |-> None]

Init ==
  /\ editor = [open |-> FALSE, item |-> None, load |-> None,
               phase |-> "idle", data |-> FALSE, committed |-> {}]
  /\ cards = [c \in Cards |-> NoCard]
  /\ lane = [active |-> None, wanted |-> FALSE, queued |-> None]
  /\ work = [i \in Items |-> <<>>]
  /\ posted = <<>>
  /\ \E images \in [Cards -> {None, First}] :
       server = [i \in Items |-> images]
  /\ unsure = {}
  /\ loads = 0
  /\ events = 0

LoadFailure(r)          == [kind |-> "load", item |-> r.item, id |-> r.id]
MutationRefusal(m, item) == [kind |-> "mutation", item |-> item, m |-> m]

-----------------------------------------------------------------------------
\* The coordinator.

Blocked(item, w) == w[item] # <<>>

\* A load runs, or is the one that waits; it makes the older ones stale.
Submitted(l, r, blocked) ==
  IF l.active = None /\ ~ blocked
    THEN [l EXCEPT !.active = r, !.wanted = TRUE]
    ELSE [l EXCEPT !.queued = r, !.wanted = FALSE]

Superseded(l) ==
  IF l.queued = None THEN <<>> ELSE <<LoadFailure(l.queued)>>

\* A mutation of the item outdates what its loads have read.
Outdated(l, item) == l.active # None /\ l.wanted /\ l.active.item = item
Waits(l, item)    == l.queued # None /\ l.queued.item = item

Fenced(l, item) ==
  [l EXCEPT !.wanted = l.wanted /\ ~ Outdated(l, item),
            !.queued = IF Waits(l, item) THEN None ELSE l.queued]

FencedFailures(l, item) ==
  (IF Outdated(l, item) THEN <<LoadFailure(l.active)>> ELSE <<>>)
    \o (IF Waits(l, item) THEN Superseded(l) ELSE <<>>)

-----------------------------------------------------------------------------
\* The editor: what it does within a turn, e for its fields.

\* The load of the images, with w the mutations the coordinator then has and
\* told what is posted.
RequestInitial(e, preserve, w, told) ==
  /\ loads' = loads + 1
  /\ editor' = [e EXCEPT !.load  = loads + 1,
                         !.phase = IF preserve /\ e.data THEN "refreshing"
                                                         ELSE "loading",
                         !.data  = preserve /\ e.data]
  /\ lane' = Submitted(lane, [id |-> loads + 1, item |-> e.item],
                       Blocked(e.item, w))
  /\ posted' = told \o Superseded(lane)

NoRequest(told) == posted' = told /\ UNCHANGED <<editor, lane, loads>>

Concerns(item) == editor.open /\ editor.item = item

\* The mutation is of this view, and its card has no later one.
IsCurrent(item, m) ==
  /\ Concerns(item)
  /\ cards[m.card].record # None
  /\ cards[m.card].record.id = m.id

Marked(card, mark, id) == [card EXCEPT !.mark = mark, !.by = id]

\* Slip: a failed mutation takes its image away and puts none back.
RolledBackSlip(card) ==
  [card EXCEPT !.image = None, !.record = None, !.mark = "error"]
RolledBack(card) ==
  [card EXCEPT !.image = card.record.previous, !.record = None,
               !.mark = "error"]

\* Slip: the mutation that is to be confirmed is the newest one.
CommittedSlip(m) == {[card |-> m.card, id |-> m.id]}
Committed(m) == editor.committed \cup {[card |-> m.card, id |-> m.id]}

MutationSucceeded(item, m, w) ==
  IF IsCurrent(item, m)
    THEN /\ cards' = [cards EXCEPT ![m.card] =
                        [Marked(@, "refreshing", m.id) EXCEPT !.record = None]]
         /\ RequestInitial([editor EXCEPT !.committed = Committed(m)], TRUE, w,
                           posted)
    ELSE NoRequest(posted) /\ UNCHANGED cards

\* A committed mutation that waits for its load asks for it again.
MutationFailed(item, m, w, told) ==
  IF IsCurrent(item, m)
    THEN /\ cards' = [cards EXCEPT ![m.card] = RolledBack(@)]
         /\ IF editor.committed # {} THEN RequestInitial(editor, TRUE, w, told)
                                     ELSE NoRequest(told)
    ELSE NoRequest(told) /\ UNCHANGED cards

\* The images of the server are shown, those of a card in flight included.
Loaded(images) ==
  /\ editor' = [editor EXCEPT !.load = None, !.phase = "ready",
                              !.data = TRUE, !.committed = {}]
  /\ cards' =
       [c \in Cards |->
          LET card == [cards[c] EXCEPT !.image = images[c]]
          IN  IF \E m \in editor.committed : m.card = c /\ m.id = card.by
                THEN Marked(card, "none", None) ELSE card]

\* What was to be confirmed is not; what was shown before stays.
LoadFailed ==
  /\ editor' = [editor EXCEPT !.load = None, !.committed = {},
                              !.phase = IF editor.data THEN "ready"
                                                       ELSE "error"]
  /\ cards' = [c \in Cards |->
                 IF \E m \in editor.committed : m.card = c
                   THEN [cards[c] EXCEPT !.mark = "error"] ELSE cards[c]]

IsAwaited(id, item) == Concerns(item) /\ editor.load = id

-----------------------------------------------------------------------------
\* The user.

Event ==
  /\ events < MaxEvents
  /\ events' = events + 1

Open(item) ==
  /\ Event
  /\ RequestInitial([editor EXCEPT !.open = TRUE, !.item = item,
                                   !.committed = {}], FALSE, work, posted)
  /\ cards' = [c \in Cards |-> NoCard]
  /\ UNCHANGED <<work, server, unsure>>

Dismiss ==
  /\ Event
  /\ editor.open
  /\ editor' = [editor EXCEPT !.open = FALSE, !.load = None,
                              !.committed = {},
                              !.phase = IF editor.data THEN "ready"
                                                       ELSE "idle"]
  /\ cards' = [c \in Cards |->
                 [cards[c] EXCEPT !.mark = "none", !.by = None,
                                  !.record = None]]
  /\ UNCHANGED <<lane, work, posted, server, unsure, loads>>

Retry ==
  /\ Event
  /\ editor.open
  /\ RequestInitial(editor, editor.data, work, posted)
  /\ UNCHANGED <<cards, work, server, unsure>>

\* Apply, upload or delete: the card changes at once, and the coordinator
\* takes the mutation or refuses it.
Mutate(c, image, accepted) ==
  /\ Event
  /\ editor.open
  /\ cards[c].record = None
  /\ image = None => cards[c].image # None
  /\ cards' = [cards EXCEPT ![c] =
                 [image |-> image, mark |-> "submitting", by |-> events + 1,
                  record |-> [id |-> events + 1, previous |-> @.image]]]
  /\ LET item == editor.item
         m    == [id |-> events + 1, card |-> c, image |-> image]
     IN  IF accepted
           THEN /\ work' = [work EXCEPT ![item] = Append(@, m)]
                /\ lane' = Fenced(lane, item)
                /\ posted' = posted \o FencedFailures(lane, item)
           ELSE /\ posted' = Append(posted, MutationRefusal(m, item))
                /\ UNCHANGED <<work, lane>>
  /\ UNCHANGED <<editor, server, unsure, loads>>

-----------------------------------------------------------------------------
\* Answers.

HearLoadFailure(f) ==
  /\ IF IsAwaited(f.id, f.item) THEN LoadFailed ELSE UNCHANGED <<editor, cards>>
  /\ posted' = Tail(posted)
  /\ UNCHANGED <<lane, unsure, loads>>

HearRefusal(f) ==
  /\ unsure' = unsure \cup {<<f.item, f.m.card>>}
  /\ MutationFailed(f.item, f.m, work, Tail(posted))

HearFailure ==
  /\ posted # <<>>
  /\ \/ Head(posted).kind = "load" /\ HearLoadFailure(Head(posted))
     \/ Head(posted).kind = "mutation" /\ HearRefusal(Head(posted))
  /\ UNCHANGED <<work, server, events>>

\* The server may apply a mutation whose answer is lost.
AnswerMutation(item, applied, ok) ==
  /\ work[item] # <<>>
  /\ ok => applied
  /\ LET m == Head(work[item])
         w == [work EXCEPT ![item] = Tail(@)]
     IN  /\ work' = w
         /\ server' = IF applied THEN [server EXCEPT ![item][m.card] = m.image]
                                 ELSE server
         /\ unsure' = IF ~ applied THEN unsure
                      ELSE IF ok THEN unsure \ {<<item, m.card>>}
                      ELSE unsure \cup {<<item, m.card>>}
         /\ IF ok THEN MutationSucceeded(item, m, w)
                  ELSE MutationFailed(item, m, w, posted)
  /\ UNCHANGED events

AnswerLoad(ok) ==
  /\ lane.active # None
  /\ LET r == lane.active
     IN  IF ~ lane.wanted \/ ~ IsAwaited(r.id, r.item)
           THEN UNCHANGED <<editor, cards, unsure>>
         ELSE IF ok
           THEN /\ Loaded(server[r.item])
                /\ unsure' = {u \in unsure : u[1] # r.item}
         ELSE LoadFailed /\ UNCHANGED unsure
  /\ lane' = [lane EXCEPT !.active = None, !.wanted = FALSE]
  /\ UNCHANGED <<work, posted, server, loads, events>>

\* The load that waits begins when nothing stands in its way any more.
PumpInteractive ==
  /\ lane.active = None
  /\ lane.queued # None
  /\ ~ Blocked(lane.queued.item, work)
  /\ lane' = [active |-> lane.queued, wanted |-> TRUE, queued |-> None]
  /\ UNCHANGED
       <<editor, cards, work, posted, server, unsure, loads, events>>

Next ==
  \/ \E item \in Items : Open(item)
  \/ Dismiss
  \/ Retry
  \/ \E c \in Cards, image \in {None, events + 1}, accepted \in BOOLEAN :
       Mutate(c, image, accepted)
  \/ HearFailure
  \/ \E item \in Items, applied, ok \in BOOLEAN :
       AnswerMutation(item, applied, ok)
  \/ \E ok \in BOOLEAN : AnswerLoad(ok)
  \/ PumpInteractive

\* Every call of the server's returns and the event loop runs.
Fairness ==
  /\ WF_vars(HearFailure)
  /\ \A item \in Items :
       WF_vars(\E applied, ok \in BOOLEAN : AnswerMutation(item, applied, ok))
  /\ WF_vars(\E ok \in BOOLEAN : AnswerLoad(ok))
  /\ WF_vars(PumpInteractive)

Spec == Init /\ [][Next]_vars /\ Fairness

-----------------------------------------------------------------------------
EditorType ==
  /\ editor \in
       [open : BOOLEAN, item : Items \cup {None}, load : Nat \cup {None},
        phase : {"idle", "loading", "refreshing", "ready", "error"},
        data : BOOLEAN,
        committed : SUBSET [card : Cards, id : 1 .. MaxEvents]]
  /\ cards \in
       [Cards -> [image : Images,
                  mark : {"none", "submitting", "refreshing", "error"},
                  by : (1 .. MaxEvents) \cup {None},
                  record : Records \cup {None}]]
  /\ lane \in [active : Requests \cup {None}, wanted : BOOLEAN,
               queued : Requests \cup {None}]
  /\ work \in [Items -> Seq(Mutations)]
  /\ posted \in Seq([kind : {"load"}, item : Items, id : Nat] \cup
                    [kind : {"mutation"}, item : Items, m : Mutations])
  /\ server \in [Items -> [Cards -> Images]]
  /\ unsure \subseteq Items \X Cards
  /\ loads \in Nat
  /\ events \in 0 .. MaxEvents

\* A view that is ready shows, on every card that no mutation is changing,
\* the image the server has, unless the last mutation of the card failed and
\* was applied nevertheless, or was refused: a rollback brings back the image
\* of that card and of no other, and no late load, of another view, of another
\* item or older than a mutation, replaces what is newer.
ShownIsServers ==
  editor.open /\ editor.phase = "ready" =>
    \A c \in Cards :
      cards[c].record = None /\ <<editor.item, c>> \notin unsure =>
        cards[c].image = server[editor.item][c]

\* A card does not stay marked as submitting or refreshing.
CardsSettle ==
  \A c \in Cards :
    (cards[c].mark \in {"submitting", "refreshing"})
      ~> (cards[c].mark \in {"none", "error"})
=============================================================================
