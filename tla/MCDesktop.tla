------------------------------- MODULE MCDesktop ----------------------------
(***************************************************************************)
(* The services of the desktop, in one run: components that share no       *)
(* state, of which a behaviour picks one at the start.  What is explored   *)
(* is the sum of their states, not the product.                            *)
(***************************************************************************)
EXTENDS Naturals, Sequences, FiniteSets, TLC

CONSTANTS
  Queries, Blank, None, Lost, MaxEvents, Media, MaxRequests, MaxSessions,
  MaxPending, Entities, Grams, Titles, Items,
  Cards, First, MaxEdits,
  Devices, Controls, Repeating, Back, MaxInputs

MCTitles == <<{"g"}, {"h"}, {"g", "h"}>>

VARIABLES
  service,  \* the component of this behaviour
  \* SearchCoordinator
  catalog, session, asked, published, failed, active, queued, poll, delayed,
  hydrating, delay, events,
  \* DanmakuCoordinator
  requests, answers, searching, waiting, worker, changing, changes,
  configuring, pumps, phase, next,
  \* MediaStore
  stamped, server, fields, overlay, rows, answered, journal, baseline,
  indexed, postings, unsorted, needle, results, cache, storeEvents,
  \* RefreshTracking
  refreshSession, op, jobs, notices, refreshPoll, taken, pollCurrent,
  buffered, scans, stale, hidden, shown, metadata, aged, protected, release,
  due, recent, timer, refreshEvents,
  \* ImageEditor
  editor, cards, lane, work, posted, images, unsure, loads, editorEvents,
  \* ControllerInput
  plugged, held, old, focused, slots, waits, pressed, test, captured,
  inputEvents

Search  == INSTANCE SearchCoordinator
Danmaku == INSTANCE DanmakuCoordinator
Store   == INSTANCE MediaStore
             WITH events <- storeEvents
Refresh == INSTANCE RefreshTracking
             WITH session <- refreshSession, poll <- refreshPoll,
             events <- refreshEvents
Editor  == INSTANCE ImageEditor
             WITH server <- images, events <- editorEvents,
             MaxEvents <- MaxEdits
Input   == INSTANCE ControllerInput
             WITH events <- inputEvents, MaxEvents <- MaxInputs

\* What each component assumes of its constants.
ASSUME ServicesAssumption ==
  /\ Search!SearchAssumption
  /\ Danmaku!DanmakuAssumption
  /\ Store!StoreAssumption
  /\ Editor!EditorAssumption
  /\ Input!InputAssumption

searchVars ==
  <<catalog, session, asked, published, failed, active, queued, poll,
    delayed, hydrating, delay, events>>
danmakuVars ==
  <<requests, answers, searching, waiting, worker, changing, changes,
    configuring, pumps, phase, next>>
storeVars ==
  <<stamped, server, fields, overlay, rows, answered, journal, baseline,
    indexed, postings, unsorted, needle, results, cache, storeEvents>>
refreshVars ==
  <<refreshSession, op, jobs, notices, refreshPoll, taken, pollCurrent,
    buffered, scans, stale, hidden, shown, metadata, aged, protected,
    release, due, recent, timer, refreshEvents>>
editorVars ==
  <<editor, cards, lane, work, posted, images, unsure, loads, editorEvents>>
inputVars ==
  <<plugged, held, old, focused, slots, waits, pressed, test, captured,
    inputEvents>>

vars ==
  <<service, searchVars, danmakuVars, storeVars, refreshVars, editorVars,
    inputVars>>

\* A component that was not picked keeps one initial state.
Init ==
  /\ service \in {"search", "danmaku", "store", "refresh", "editor",
                  "input"}
  /\ Search!Init
  /\ Danmaku!Init
  /\ Store!Init
  /\ Refresh!Init
  /\ Editor!Init
  /\ Input!Init
  /\ service # "store" => ~ stamped
  /\ service # "editor" => \A i \in Items, c \in Cards : images[i][c] = First

\* A step of one component leaves the others as they are.
Alone(s, others) == service = s /\ UNCHANGED <<service, others>>

SearchAlone ==
  Alone("search", <<danmakuVars, storeVars, refreshVars,
                    editorVars, inputVars>>)
DanmakuAlone ==
  Alone("danmaku", <<searchVars, storeVars, refreshVars,
                     editorVars, inputVars>>)
StoreAlone ==
  Alone("store", <<searchVars, danmakuVars, refreshVars,
                   editorVars, inputVars>>)
RefreshAlone ==
  Alone("refresh", <<searchVars, danmakuVars, storeVars,
                     editorVars, inputVars>>)
EditorAlone ==
  Alone("editor", <<searchVars, danmakuVars, storeVars,
                    refreshVars, inputVars>>)
InputAlone ==
  Alone("input", <<searchVars, danmakuVars, storeVars,
                   refreshVars, editorVars>>)

Next ==
  \/ SearchAlone /\ Search!Next
  \/ DanmakuAlone /\ Danmaku!Next
  \/ StoreAlone /\ Store!Next
  \/ RefreshAlone /\ Refresh!Next
  \/ EditorAlone /\ Editor!Next
  \/ InputAlone /\ Input!Next

\* The fairness of each component; the ones that stand still have nothing
\* their fairness asks for.
Fairness ==
  /\ Search!Fairness
  /\ Danmaku!Fairness
  /\ WF_refreshVars(Refresh!Progress)
  /\ Editor!Fairness

Spec == Init /\ [][Next]_vars /\ Fairness

\* The properties, stated where the components are.
PublishedIsAsked     == Search!PublishedIsAsked
SearchConverges      == Search!SearchConverges
SearchesAvoidChanges == Danmaku!SearchesAvoidChanges
DanmakuAnswered      == Danmaku!DanmakuAnswered
ServerAnswersStand   == Store!ServerAnswersStand
ResultsMatchFilter   == Store!ResultsMatchFilter
ProtectionEnds       == Refresh!ProtectionEnds
TrackingIsExact      == Refresh!TrackingIsExact
ShownIsServers       == Editor!ShownIsServers
CardsSettle          == Editor!CardsSettle

\* What a gamepad does here was pressed here: a control held since before its
\* device was found or the application came to the front does not act, and what
\* the input test has captured is still pressed, so no later press is swallowed.
PressesAreMeant == Input!HeldOverNeverActs /\ Input!CapturedIsPressed

\* What is asked of a service is answered in the end: the newest query is
\* published, a danmaku search is answered, the protection of what a metadata
\* refresh hides ends, and an edited image card settles.
ServicesSettle ==
  /\ SearchConverges
  /\ DanmakuAnswered
  /\ ProtectionEnds
  /\ CardsSettle
=============================================================================
