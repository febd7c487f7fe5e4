----------------------------- MODULE DesktopProofs -----------------------------
(***************************************************************************)
(* The safety of the services of the desktop, for all values of the        *)
(* constants: any number of queries, media, rows, grams, cards, devices,   *)
(* controls, calls and failures.  Each service has an inductive invariant  *)
(* of its own; the other services leave its variables alone.               *)
(***************************************************************************)
EXTENDS MCDesktop, FiniteSetTheorems, SequenceTheorems, WellFoundedInduction,
        TLAPS

\* A step of the whole is a step of each service, or leaves it as it is.
LEMMA ServiceSteps ==
  ASSUME [Next]_vars
  PROVE  /\ [Search!Next]_(Search!searchVars)
         /\ [Danmaku!Next]_(Danmaku!danmakuVars)
         /\ [Store!Next]_(Store!storeVars)
         /\ [Refresh!Next]_(Refresh!refreshVars)
         /\ [Editor!Next]_(Editor!vars)
         /\ [Input!Next]_(Input!vars)
<1> USE DEF Alone, searchVars, danmakuVars, storeVars, refreshVars,
      editorVars, inputVars, Search!searchVars, Danmaku!danmakuVars,
      Store!storeVars, Refresh!refreshVars, Refresh!asked, Refresh!polled,
      Editor!vars, Input!vars
<1>1. CASE UNCHANGED vars
  BY <1>1 DEF vars
<1>2. CASE SearchAlone /\ Search!Next
  BY <1>2 DEF SearchAlone
<1>3. CASE DanmakuAlone /\ Danmaku!Next
  BY <1>3 DEF DanmakuAlone
<1>4. CASE StoreAlone /\ Store!Next
  BY <1>4 DEF StoreAlone
<1>5. CASE RefreshAlone /\ Refresh!Next
  BY <1>5 DEF RefreshAlone
<1>6. CASE EditorAlone /\ Editor!Next
  BY <1>6 DEF EditorAlone
<1>7. CASE InputAlone /\ Input!Next
  BY <1>7 DEF InputAlone
<1> QED
  BY <1>1, <1>2, <1>3, <1>4, <1>5, <1>6, <1>7 DEF Next

-----------------------------------------------------------------------------
\* ControllerInput.

\* The controls of a device.
Reading == [Devices -> SUBSET Controls]

InputShape ==
  /\ held \in Reading /\ old \in Reading
  /\ pressed \in Reading /\ captured \in Reading
  /\ waits \in [Devices -> BOOLEAN]

\* The gate: a device that acts has been let go of since it was found and the
\* application came to the front; one that is not looked at reports nothing.
GateHolds ==
  \A d \in Devices :
    /\ old[d] \subseteq held[d]
    /\ d \in slots /\ ~ waits[d] => old[d] = {}
    /\ d \notin slots => pressed[d] = {}
    /\ ~ focused => waits[d] /\ pressed[d] = {}

InputInv ==
  InputShape /\ GateHolds /\ Input!HeldOverNeverActs /\ Input!CapturedIsPressed

LEMMA InputInit == Input!Init => InputInv
  BY DEF Input!Init, InputInv, InputShape, Reading, GateHolds,
     Input!HeldOverNeverActs, Input!CapturedIsPressed

\* When the application comes to the front or leaves it, all is released.
LEMMA ActivationKeeps ==
  ASSUME InputInv, NEW isActive \in BOOLEAN,
         Input!HandleApplicationStateChanged(isActive)
  PROVE  InputInv'
<1> USE DEF Input!HandleApplicationStateChanged, Input!ResetInputStates
<1>1. \A d \in Devices : /\ pressed'[d] = {} /\ waits'[d]
                         /\ old'[d] = held[d] /\ held'[d] = held[d]
  OBVIOUS
<1>2. \A d \in Devices : captured'[d] = {}
  <2>1. ASSUME NEW d \in Devices
        PROVE  captured'[d] = captured[d] \ pressed[d]
    BY DEF Input!CapturedAfter
  <2> QED
    BY <2>1 DEF InputInv, Input!CapturedIsPressed
<1>3. InputShape'
  <2>1. captured' \in Reading
    BY <1>2 DEF Reading
  <2> QED
    BY <2>1 DEF InputInv, InputShape, Reading
<1>4. GateHolds'
  BY <1>1 DEF GateHolds
<1>5. Input!HeldOverNeverActs' /\ Input!CapturedIsPressed'
  BY <1>1, <1>2 DEF Input!HeldOverNeverActs, Input!CapturedIsPressed
<1> QED
  BY <1>3, <1>4, <1>5 DEF InputInv

\* What a poll reports of a device: nothing before the gate has opened, and
\* then what is held.
LEMMA PollReports ==
  ASSUME InputInv, NEW found \in SUBSET Devices, NEW d \in Devices
  PROVE  /\ Input!PressedNow(d, found) \subseteq held[d]
         /\ Input!PressedNow(d, found) # {} =>
              d \in found /\ d \in slots /\ ~ waits[d]
         /\ d \notin found => Input!PressedNow(d, found) = {}
         /\ d \in found /\ ~ Input!StillWaits(d) =>
              old[d] = {} /\ (d \notin slots => held[d] = {})
<1>1. old[d] \subseteq held[d] /\ (d \in slots /\ ~ waits[d] => old[d] = {})
  BY DEF InputInv, GateHolds
<1>2. held[d] \subseteq Controls
  BY DEF InputInv, InputShape, Reading
<1> QED
  BY <1>1, <1>2 DEF Input!PressedNow, Input!StillWaits

LEMMA PollKeeps ==
  ASSUME InputInv, Input!Poll, slots \subseteq Devices, plugged \subseteq Devices
  PROVE  InputInv' /\ slots' \subseteq Devices
<1>1. PICK found \in Input!Scanned :
        \E es, early :
          /\ es \subseteq Devices \X Controls
          /\ \A d \in Devices :
               Input!OfDevice(d, es) \subseteq Input!PressedNow(d, found)
          /\ Input!Look(found, Input!Now(found), es, early)
  <2>0. PICK found \in Input!Scanned :
          \E again \in SUBSET Input!Repeats(Input!Now(found)),
             early \in SUBSET (Devices \X Controls) :
            Input!Look(found, Input!Now(found),
                       Input!Presses(Input!Now(found)) \cup again, early)
    BY DEF Input!Poll
  <2>1. PICK again \in SUBSET Input!Repeats(Input!Now(found)),
             early \in SUBSET (Devices \X Controls) :
          Input!Look(found, Input!Now(found),
                     Input!Presses(Input!Now(found)) \cup again, early)
    BY <2>0
  <2>2. Repeating \subseteq Controls
    BY ServicesAssumption DEF Input!InputAssumption
  <2> DEFINE es == Input!Presses(Input!Now(found)) \cup again
  <2>3. es \subseteq Devices \X Controls
    BY <2>1, <2>2 DEF Input!Presses, Input!Repeats
  <2>4. \A d \in Devices :
          Input!OfDevice(d, es) \subseteq Input!PressedNow(d, found)
    BY <2>1, <2>3 DEF Input!Presses, Input!Repeats, Input!OfDevice, Input!Now
  <2> QED
    BY <2>1, <2>3, <2>4
<1>2. PICK es, early :
        /\ es \subseteq Devices \X Controls
        /\ \A d \in Devices :
             Input!OfDevice(d, es) \subseteq Input!PressedNow(d, found)
        /\ Input!Look(found, Input!Now(found), es, early)
  BY <1>1
<1>3. found \in SUBSET Devices
  BY DEF Input!Scanned
<1>4. held' = held /\ focused' = focused /\ focused
  BY DEF Input!Poll
<1>5. /\ slots' = found
       /\ waits' = [d \in Devices |-> d \in found => Input!StillWaits(d)]
       /\ old' = [d \in Devices |-> IF d \in found \ slots THEN held[d]
                                    ELSE old[d]]
       /\ pressed' = [d \in Devices |-> Input!PressedNow(d, found)]
  BY <1>2 DEF Input!Look, Input!Now
<1>6. \A d \in Devices : pressed'[d] = Input!PressedNow(d, found)
  BY <1>5
<1>7. \A d \in Devices : captured'[d] \subseteq pressed'[d]
  <2> SUFFICES ASSUME NEW d \in Devices PROVE captured'[d] \subseteq pressed'[d]
    OBVIOUS
  <2>1. captured[d] \subseteq pressed[d]
    BY DEF InputInv, Input!CapturedIsPressed
  <2> QED
    BY <1>2, <1>6, <2>1 DEF Input!Look, Input!Now, Input!CapturedAfter
<1>8. InputShape'
  <2>1. pressed' \in Reading
    BY <1>5, <1>3, PollReports DEF InputInv, InputShape, Reading
  <2>2. old' \in Reading /\ held' \in Reading /\ waits' \in [Devices -> BOOLEAN]
    BY <1>5, <1>4 DEF InputInv, InputShape, Reading, Input!StillWaits
  <2>3. captured' \in Reading
    BY <1>2, <1>7, <2>1 DEF Reading, Input!Look
  <2> QED
    BY <2>1, <2>2, <2>3 DEF InputShape
<1>9. GateHolds'
  <2> SUFFICES ASSUME NEW d \in Devices
               PROVE  /\ old'[d] \subseteq held'[d]
                      /\ d \in slots' /\ ~ waits'[d] => old'[d] = {}
                      /\ d \notin slots' => pressed'[d] = {}
                      /\ ~ focused' => waits'[d] /\ pressed'[d] = {}
    BY DEF GateHolds
  <2>1. old[d] \subseteq held[d]
    BY DEF InputInv, GateHolds
  <2>2. old'[d] = IF d \in found \ slots THEN held[d] ELSE old[d]
    BY <1>5
  <2>3. waits'[d] = (d \in found => Input!StillWaits(d))
    BY <1>5
  <2> QED
    BY <1>5, <1>3, <1>4, <1>6, <2>1, <2>2, <2>3, PollReports
<1>10. Input!HeldOverNeverActs'
  <2> SUFFICES ASSUME NEW d \in Devices, pressed'[d] # {}
               PROVE  old'[d] = {}
    BY DEF Input!HeldOverNeverActs
  <2>1. d \in found /\ d \in slots /\ ~ waits[d]
    BY <1>3, <1>6, PollReports
  <2> QED
    BY <1>5, <2>1 DEF InputInv, GateHolds
<1> QED
  BY <1>5, <1>3, <1>7, <1>8, <1>9, <1>10 DEF InputInv, Input!CapturedIsPressed

\* The devices that are there and those that were found are devices.
InputDevices == plugged \subseteq Devices /\ slots \subseteq Devices

LEMMA InputKeeps ==
  ASSUME InputInv, InputDevices, [Input!Next]_(Input!vars)
  PROVE  InputInv' /\ InputDevices'
<1> USE DEF InputInv, InputShape, Reading, GateHolds, InputDevices,
            Input!HeldOverNeverActs, Input!CapturedIsPressed
<1>1. CASE UNCHANGED Input!vars
  BY <1>1 DEF Input!vars
<1>2. ASSUME NEW d \in Devices, Input!PlugIn(d)
      PROVE  InputInv' /\ InputDevices'
  BY <1>2 DEF Input!PlugIn
<1>3. ASSUME NEW d \in Devices, Input!Unplug(d)
      PROVE  InputInv' /\ InputDevices'
  BY <1>3 DEF Input!Unplug
<1>4. ASSUME NEW d \in Devices, NEW c \in Controls, Input!Hold(d, c)
      PROVE  InputInv' /\ InputDevices'
  <2>1. CASE focused /\ d \in slots
    BY <1>4, <2>1 DEF Input!Hold
  <2>2. CASE ~ (focused /\ d \in slots)
    BY <1>4, <2>2 DEF Input!Hold
  <2> QED
    BY <2>1, <2>2
<1>5. ASSUME NEW d \in Devices, NEW c \in Controls, Input!LetGo(d, c)
      PROVE  InputInv' /\ InputDevices'
  BY <1>5 DEF Input!LetGo
<1>6. ASSUME NEW isActive \in BOOLEAN,
             Input!HandleApplicationStateChanged(isActive)
      PROVE  InputInv' /\ InputDevices'
  <2>1. UNCHANGED <<plugged, slots>>
    BY <1>6 DEF Input!HandleApplicationStateChanged
  <2> QED
    BY <1>6, <2>1, ActivationKeeps
<1>7. CASE Input!Poll
  <2>1. plugged' = plugged
    BY <1>7 DEF Input!Poll
  <2> QED
    BY <1>7, <2>1, PollKeeps
<1>8. CASE Input!AcquireControllerInputTest
  BY <1>8 DEF Input!AcquireControllerInputTest
<1>9. CASE Input!ReleaseControllerInputTest
  BY <1>9 DEF Input!ReleaseControllerInputTest
<1> QED
  BY <1>1, <1>2, <1>3, <1>4, <1>5, <1>6, <1>7, <1>8, <1>9 DEF Input!Next

LEMMA InputSafe == Spec => [](InputInv /\ InputDevices)
<1>1. Init => InputInv /\ InputDevices
  BY InputInit DEF Init, InputDevices, Input!Init
<1>2. InputInv /\ InputDevices /\ [Next]_vars => (InputInv /\ InputDevices)'
  BY InputKeeps, ServiceSteps
<1> QED
  BY <1>1, <1>2, PTL DEF Spec

\* ControllerNavigation.cpp's neutral gate and InputModalityController.cpp's
\* input test, for any number of devices and controls: what was held when the
\* application came to the front, or when the device was found, is not reported
\* as pressed before it was let go of, and what the test captured is pressed.
THEOREM PressesAlwaysMeant == Spec => []PressesAreMeant
<1>1. InputInv /\ InputDevices => PressesAreMeant
  BY DEF InputInv, PressesAreMeant
<1> QED
  BY InputSafe, <1>1, PTL

-----------------------------------------------------------------------------
\* SearchCoordinator.

Catalogs == [of : Nat, rev : Nat]
SearchData == Catalogs \cup {None, Lost}

SearchShape ==
  /\ catalog \in Catalogs
  /\ active # None =>
       active \in [q : Queries, current : BOOLEAN, data : SearchData]
  /\ queued # None =>
       queued \in [q : Queries, current : BOOLEAN, data : {None}]
  /\ published # None => published \in [q : Queries, rev : Nat, of : Nat]
  /\ asked \in Queries

\* What is wanted is the answer to the query asked last.
WantsAsked ==
  /\ Search!Current(active) => active.q = asked
  /\ queued # None => queued.q = asked /\ queued.current
  /\ session # "open" => queued = None

\* Rows are of the account that is committed and not ahead of its catalog.
RowsFit == published # None => published.of = catalog.of /\ published.rev <= catalog.rev

\* An answer that is still wanted is of that account too, and at least as new
\* as the rows: the rows were read before it.
AnswerFits ==
  Search!Current(active) /\ active.data \notin {None, Lost} =>
    /\ active.data.of = catalog.of
    /\ active.data.rev <= catalog.rev
    /\ published # None => published.rev <= active.data.rev

SearchInv == SearchShape /\ WantsAsked /\ RowsFit /\ AnswerFits

LEMMA SearchInit == Search!Init => SearchInv
  BY ServicesAssumption DEF Search!Init, Search!SearchAssumption, SearchInv,
     SearchShape, Catalogs, WantsAsked, RowsFit, AnswerFits, Search!Current

\* A request that is outdated stays what it was, and is wanted no more.
LEMMA OutdatedFacts ==
  ASSUME SearchShape
  PROVE  /\ ~ Search!Current(Search!Outdated(active))
         /\ Search!Outdated(active) # None =>
              Search!Outdated(active) \in
                [q : Queries, current : BOOLEAN, data : SearchData]
<1>1. CASE active = None
  BY <1>1 DEF Search!Outdated, Search!Current
<1>2. CASE active # None
  <2>1. active \in [q : Queries, current : BOOLEAN, data : SearchData]
    BY <1>2 DEF SearchShape
  <2> QED
    BY <1>2, <2>1 DEF Search!Outdated, Search!Current
<1> QED
  BY <1>1, <1>2

LEMMA RequestFacts ==
  ASSUME NEW query \in Queries
  PROVE  /\ Search!Request(query) \in [q : Queries, current : BOOLEAN, data : {None}]
         /\ Search!Request(query) \in
              [q : Queries, current : BOOLEAN, data : SearchData]
         /\ Search!Request(query).q = query /\ Search!Request(query).current
         /\ Search!Request(query).data = None
  BY DEF Search!Request, SearchData

\* A new request takes the lane, or waits behind one that is wanted no more.
NewRequest(query) ==
  IF active # None
    THEN active' = Search!Outdated(active) /\ queued' = Search!Request(query)
    ELSE active' = Search!Request(query) /\ queued' = None

LEMMA NewRequestKeeps ==
  ASSUME SearchInv, session' = "open", catalog' = catalog, NewRequest(asked'),
         asked' \in Queries, published' \in {published, None}
  PROVE  SearchInv'
<1>1. SearchShape'
  BY OutdatedFacts, RequestFacts DEF SearchInv, SearchShape, NewRequest
<1>2. WantsAsked'
  BY OutdatedFacts, RequestFacts
  DEF SearchInv, WantsAsked, NewRequest, Search!Current
<1>3. RowsFit' /\ AnswerFits'
  <2>1. RowsFit'
    BY DEF SearchInv, RowsFit
  <2>2. Search!Current(active)' => active'.data = None
    BY OutdatedFacts, RequestFacts DEF SearchInv, NewRequest, Search!Current
  <2> QED
    BY <2>1, <2>2 DEF AnswerFits
<1> QED
  BY <1>1, <1>2, <1>3 DEF SearchInv

LEMMA EnqueueKeeps ==
  ASSUME SearchInv, NEW query \in Queries, NEW clear \in BOOLEAN,
         Search!Enqueue(query, clear), session' = "open", catalog' = catalog
  PROVE  SearchInv'
<1>1. asked' = query /\ published' \in {published, None} /\ NewRequest(asked')
  BY DEF Search!Enqueue, NewRequest
<1> QED
  BY <1>1, NewRequestKeeps

\* Nothing is wanted any more.
LEMMA StopKeeps ==
  ASSUME SearchInv, active' = Search!Outdated(active), queued' = None,
         catalog' \in Catalogs, asked' \in Queries,
         \/ published' = None
         \/ published' = published /\ catalog' = catalog
  PROVE  SearchInv'
<1>1. SearchShape'
  BY OutdatedFacts DEF SearchInv, SearchShape
<1>2. WantsAsked' /\ AnswerFits'
  <2>1. ~ Search!Current(active)'
    BY OutdatedFacts DEF SearchInv, Search!Current
  <2> QED
    BY <2>1 DEF WantsAsked, AnswerFits
<1>3. RowsFit'
  BY DEF SearchInv, RowsFit
<1> QED
  BY <1>1, <1>2, <1>3 DEF SearchInv

\* The answer of the search that ran: it is shown if it is still wanted.
LEMMA FinishKeeps ==
  ASSUME SearchInv, Search!Finish
  PROVE  SearchInv'
<1>1. /\ active # None /\ active.data # None
      /\ active' = (IF session = "open" THEN queued ELSE None)
      /\ queued' = None
      /\ UNCHANGED <<catalog, session, asked>>
  BY DEF Search!Finish, Search!Open
<1>2. /\ active \in [q : Queries, current : BOOLEAN, data : SearchData]
      /\ catalog \in Catalogs
  BY <1>1 DEF SearchInv, SearchShape
<1>3. CASE Search!Accepts(active)
  <2>1. active.q = asked /\ Search!Current(active)
    BY <1>3 DEF SearchInv, WantsAsked, Search!Accepts
  <2>2. \/ published' = None \/ published' = published
        \/ /\ active.data # Lost
           /\ published' = [q |-> active.q, rev |-> active.data.rev, of |-> active.data.of]
    BY <1>3 DEF Search!Finish, Search!Apply
  <2>3. active.data # Lost =>
          /\ active.data \in Catalogs
          /\ active.data.of = catalog.of /\ active.data.rev <= catalog.rev
    BY <1>1, <1>2, <2>1 DEF SearchInv, AnswerFits, SearchData
  <2>4. RowsFit' /\ (published' # None => published' \in [q : Queries, rev : Nat, of : Nat])
    <3>1. CASE published' = None \/ published' = published
      BY <1>1, <3>1 DEF SearchInv, RowsFit, SearchShape
    <3>2. CASE /\ active.data # Lost
               /\ published' = [q |-> active.q, rev |-> active.data.rev, of |-> active.data.of]
      BY <1>1, <1>2, <2>3, <3>2 DEF RowsFit, Catalogs
    <3> QED
      BY <2>2, <3>1, <3>2
  <2>5. active' = queued /\ (active' # None => active' \in
            [q : Queries, current : BOOLEAN, data : {None}] /\ active'.q = asked)
    BY <1>1, <1>3 DEF Search!Accepts, Search!Open, SearchInv, SearchShape, WantsAsked
  <2>6. SearchShape'
    BY <1>1, <2>4, <2>5 DEF SearchInv, SearchShape, SearchData
  <2>7. WantsAsked' /\ AnswerFits'
    BY <1>1, <2>5 DEF WantsAsked, AnswerFits, Search!Current
  <2> QED
    BY <2>4, <2>6, <2>7 DEF SearchInv
<1>4. CASE ~ Search!Accepts(active)
  <2>1. published' = published
    BY <1>4 DEF Search!Finish
  <2>2. active' # None => /\ active' = queued
                          /\ active' \in [q : Queries, current : BOOLEAN, data : {None}]
                          /\ active'.q = asked
    BY <1>1 DEF SearchInv, SearchShape, WantsAsked
  <2>3. SearchShape'
    BY <1>1, <2>1, <2>2 DEF SearchInv, SearchShape, SearchData
  <2>4. WantsAsked' /\ AnswerFits'
    BY <1>1, <2>2 DEF WantsAsked, AnswerFits, Search!Current
  <2>5. RowsFit'
    BY <1>1, <2>1 DEF SearchInv, RowsFit
  <2> QED
    BY <2>3, <2>4, <2>5 DEF SearchInv
<1> QED
  BY <1>3, <1>4

\* The backend answers with the catalog as it is, or fails.
LEMMA ServeKeeps ==
  ASSUME SearchInv, Search!Serve
  PROVE  SearchInv'
<1>1. UNCHANGED <<catalog, session, asked, published, queued>>
  BY DEF Search!Serve, Search!Served
<1>2. CASE active' = active
  BY <1>1, <1>2
  DEF SearchInv, SearchShape, WantsAsked, RowsFit, AnswerFits, Search!Current
<1>3. CASE active' # active
  <2>1. active # None /\ active' \in Search!Answers(active)
    BY <1>3 DEF Search!Serve, Search!Served
  <2>2. active \in [q : Queries, current : BOOLEAN, data : SearchData]
    BY <2>1 DEF SearchInv, SearchShape
  <2>3. /\ active' \in [q : Queries, current : BOOLEAN, data : SearchData]
        /\ active'.q = active.q /\ active'.current = active.current
        /\ active'.data \in {catalog, Lost}
    BY <2>1, <2>2 DEF Search!Answers, SearchData, SearchInv, SearchShape
  <2>4. SearchShape'
    BY <1>1, <2>3 DEF SearchInv, SearchShape
  <2>5. WantsAsked'
    BY <1>1, <2>1, <2>3 DEF SearchInv, WantsAsked, Search!Current
  <2>6. RowsFit' /\ AnswerFits'
    BY <1>1, <2>3 DEF SearchInv, SearchShape, Catalogs, RowsFit, AnswerFits
  <2> QED
    BY <2>4, <2>5, <2>6 DEF SearchInv
<1> QED
  BY <1>2, <1>3

\* Nothing that the invariant is about changes.
LEMMA SearchQuiet ==
  ASSUME SearchInv,
         UNCHANGED <<catalog, session, asked, published, active, queued>>
  PROVE  SearchInv'
  BY DEF SearchInv, SearchShape, WantsAsked, RowsFit, AnswerFits, Search!Current

LEMMA SearchKeeps ==
  ASSUME SearchInv, [Search!Next]_(Search!searchVars)
  PROVE  SearchInv'
<1> USE DEF Search!Open
<1>0. Blank \in Queries /\ asked \in Queries
  BY ServicesAssumption DEF Search!SearchAssumption, SearchInv, SearchShape
<1>1. CASE UNCHANGED Search!searchVars
  BY <1>1, SearchQuiet DEF Search!searchVars
<1>2. CASE Search!Refresh
  <2>1. CASE Search!Enqueue(asked, FALSE)
    BY <1>0, <1>2, <2>1, EnqueueKeeps DEF Search!Refresh
  <2>2. CASE UNCHANGED <<asked, published, failed, active, queued>>
    BY <1>2, <2>2, SearchQuiet DEF Search!Refresh
  <2> QED
    BY <1>2, <2>1, <2>2 DEF Search!Refresh
<1>3. CASE Search!Serve
  BY <1>3, ServeKeeps
<1>4. CASE Search!Finish
  BY <1>4, FinishKeeps
<1>5. CASE Search!FinishPoll
  <2>1. CASE Search!AcceptsPoll /\ Search!Moved
    <3>1. NewRequest(asked') /\ session' = "open"
          /\ UNCHANGED <<catalog, asked, published>>
      BY <1>5, <2>1
      DEF Search!FinishPoll, Search!AcceptsPoll, Search!Accepts, NewRequest
    <3> QED
      BY <1>0, <3>1, NewRequestKeeps
  <2>2. CASE ~ (Search!AcceptsPoll /\ Search!Moved)
    BY <1>5, <2>2, SearchQuiet DEF Search!FinishPoll
  <2> QED
    BY <2>1, <2>2
<1>6. CASE Search!TransitionAborted
  <2>1. CASE session = "fenced"
    BY <1>0, <1>6, <2>1, EnqueueKeeps DEF Search!TransitionAborted
  <2>2. CASE session # "fenced"
    BY <1>6, <2>2 DEF Search!TransitionAborted, SearchInv, SearchShape,
       WantsAsked, RowsFit, AnswerFits, Search!Current
  <2> QED
    BY <2>1, <2>2
<1>7. CASE Search!SessionCommitted
  <2>1. catalog' \in Catalogs
    BY <1>7 DEF Search!SessionCommitted, SearchInv, SearchShape, Catalogs
  <2> QED
    BY <1>0, <1>7, <2>1, StopKeeps DEF Search!SessionCommitted, Search!Stop
<1>8. CASE Search!DelayElapsed
  BY <1>8, SearchQuiet DEF Search!DelayElapsed
<1>9. CASE Search!FinishHydration
  BY <1>9, SearchQuiet DEF Search!FinishHydration
<1>10. ASSUME NEW query \in Queries, Search!RequestSearch(query)
       PROVE  SearchInv'
  <2>1. CASE session = "open" /\ Search!Enqueue(query, TRUE)
    BY <1>10, <2>1, EnqueueKeeps DEF Search!RequestSearch
  <2>2. CASE ~ (session = "open" /\ Search!Enqueue(query, TRUE))
    BY <1>10, <2>2, SearchQuiet DEF Search!RequestSearch
  <2> QED
    BY <2>1, <2>2
<1>11. CASE Search!InputPending
  BY <1>0, <1>11, StopKeeps DEF Search!InputPending, SearchInv, SearchShape
<1>12. CASE Search!CatalogMoves
  <2>1. catalog \in Catalogs /\ catalog' = [catalog EXCEPT !.rev = @ + 1]
    BY <1>12 DEF Search!CatalogMoves, SearchInv, SearchShape
  <2>2. /\ catalog' \in Catalogs /\ catalog'.of = catalog.of
        /\ catalog.rev <= catalog'.rev /\ catalog.rev \in Nat /\ catalog'.rev \in Nat
    BY <2>1 DEF Catalogs
  <2>3. UNCHANGED <<session, asked, published, active, queued>>
    BY <1>12 DEF Search!CatalogMoves
  <2>4. SearchShape' /\ WantsAsked'
    BY <2>2, <2>3 DEF SearchInv, SearchShape, WantsAsked, Search!Current
  <2>5. RowsFit'
    BY <2>2, <2>3 DEF SearchInv, SearchShape, RowsFit
  <2>6. AnswerFits'
    <3>1. Search!Current(active) /\ active.data \notin {None, Lost} =>
            active.data \in Catalogs
      BY DEF SearchInv, SearchShape, SearchData, Search!Current
    <3> QED
      BY <2>2, <2>3, <3>1 DEF SearchInv, AnswerFits, Search!Current, Catalogs
  <2> QED
    BY <2>4, <2>5, <2>6 DEF SearchInv
<1>13. CASE Search!TransitionStarted
  BY <1>0, <1>13, StopKeeps
  DEF Search!TransitionStarted, Search!Stop, SearchInv, SearchShape
<1>14. CASE Search!Shutdown
  BY <1>0, <1>14, StopKeeps
  DEF Search!Shutdown, Search!Stop, SearchInv, SearchShape
<1> QED
  BY <1>1, <1>2, <1>3, <1>4, <1>5, <1>6, <1>7, <1>8, <1>9, <1>10, <1>11,
     <1>12, <1>13, <1>14
  DEF Search!Next, Search!Progress, Search!Hydrate

\* Only an accepted answer makes rows appear.
LEMMA RowsAppear ==
  ASSUME [Search!Next]_(Search!searchVars), published' # None,
         published' # published
  PROVE  /\ Search!Finish /\ Search!Accepts(active) /\ active.data # Lost
         /\ published' = [q |-> active.q, rev |-> active.data.rev, of |-> active.data.of]
<1>1. \A query, clear : Search!Enqueue(query, clear) =>
        published' = None \/ published' = published
  BY DEF Search!Enqueue
<1>2. ~ UNCHANGED Search!searchVars
  BY DEF Search!searchVars
<1>3. ~ Search!Refresh /\ ~ Search!TransitionAborted
  BY <1>1 DEF Search!Refresh, Search!TransitionAborted
<1>4. ~ Search!Serve
  BY DEF Search!Serve, Search!Served
<1>5. ~ Search!FinishPoll /\ ~ Search!SessionCommitted
  BY DEF Search!FinishPoll, Search!SessionCommitted
<1>6. ~ Search!DelayElapsed /\ ~ Search!FinishHydration
  BY DEF Search!DelayElapsed, Search!FinishHydration
<1>7. \A query : ~ Search!RequestSearch(query)
  BY <1>1 DEF Search!RequestSearch
<1>8. ~ Search!InputPending /\ ~ Search!CatalogMoves
  BY DEF Search!InputPending, Search!CatalogMoves
<1>9. ~ Search!TransitionStarted /\ ~ Search!Shutdown
  BY DEF Search!TransitionStarted, Search!Shutdown
<1>10. Search!Finish
  BY <1>2, <1>3, <1>4, <1>5, <1>6, <1>7, <1>8, <1>9
  DEF Search!Next, Search!Progress, Search!Hydrate
<1> QED
  BY <1>10 DEF Search!Finish, Search!Apply

\* SearchCoordinator.cpp, for any number of queries, revisions, failures and
\* session changes: rows that appear answer the query asked last, are of the
\* account that is committed and never older than the rows they replace.
THEOREM RowsAreAsked == Spec => PublishedIsAsked
<1> DEFINE Appear ==
      published' # None /\ published' # published =>
        /\ published'.q = asked /\ published'.of = catalog.of
        /\ published # None /\ published.q = asked => published'.rev >= published.rev
<1>1. Init => SearchInv
  BY SearchInit DEF Init
<1>2. SearchInv /\ [Next]_vars => SearchInv'
  BY ServiceSteps, SearchKeeps
<1>3. SearchInv /\ [Next]_vars => [Appear]_(Search!searchVars)
  <2> SUFFICES ASSUME SearchInv, [Next]_vars, published' # None, published' # published
               PROVE  /\ published'.q = asked /\ published'.of = catalog.of
                      /\ published # None /\ published.q = asked =>
                           published'.rev >= published.rev
    OBVIOUS
  <2>1. /\ Search!Finish /\ Search!Accepts(active) /\ active.data # Lost
        /\ published' = [q |-> active.q, rev |-> active.data.rev, of |-> active.data.of]
    BY ServiceSteps, RowsAppear
  <2>2. /\ Search!Current(active) /\ active.data \notin {None, Lost}
        /\ active \in [q : Queries, current : BOOLEAN, data : SearchData]
    BY <2>1 DEF Search!Finish, Search!Accepts, Search!Current, SearchInv, SearchShape
  <2>3. active.data \in Catalogs
    BY <2>2 DEF SearchData
  <2>4. published # None => published.rev \in Nat
    BY DEF SearchInv, SearchShape
  <2> QED
    BY <2>1, <2>2, <2>3, <2>4 DEF SearchInv, WantsAsked, AnswerFits, Catalogs
<1> HIDE DEF Appear
<1>4. Spec => [][Appear]_(Search!searchVars)
  BY <1>1, <1>2, <1>3, PTL DEF Spec
<1> QED
  BY <1>4 DEF PublishedIsAsked, Search!PublishedIsAsked, Appear

-----------------------------------------------------------------------------
\* Every set of numbers that is not empty has a least element.
LEMMA LeastNumber ==
  ASSUME NEW T, T \subseteq Nat, T # {}
  PROVE  \E x \in T : \A y \in T : x <= y
<1> DEFINE R == OpToRel(<, Nat)
<1>1. IsWellFoundedOn(R, Nat)
  BY NatLessThanWellFounded
<1>2. \E x \in T : \A y \in T : ~ (<<y, x>> \in R)
  BY <1>1, WFMin
<1>3. \A x, y \in Nat : <<y, x>> \in R <=> y < x
  BY DEF OpToRel
<1> HIDE DEF R
<1>4. PICK x \in T : \A y \in T : ~ (<<y, x>> \in R)
  BY <1>2
<1>5. ASSUME NEW y \in T PROVE x <= y
  <2>1. ~ (<<y, x>> \in R) /\ x \in Nat /\ y \in Nat
    BY <1>4
  <2>2. ~ (y < x)
    BY <1>3, <2>1
  <2> QED
    BY <2>1, <2>2
<1> QED
  BY <1>5

\* A sequence over a set is one over every larger set.
LEMMA WiderSeq ==
  ASSUME NEW S, NEW T, S \subseteq T, NEW s \in Seq(S)
  PROVE  s \in Seq(T)
  OBVIOUS

-----------------------------------------------------------------------------
\* DanmakuCoordinator.

DanmakuOps == {"none", "search", "change", "configure"}

DanmakuShape ==
  /\ next \in 1 .. MaxRequests + 1
  /\ {searching, waiting, changing, configuring} \subseteq 0 .. next - 1
  /\ changes \in Seq(1 .. next - 1)
  /\ requests \in [Danmaku!Ids -> [op : DanmakuOps, item : Media \cup {0}, gen : Nat]]
  /\ phase.gen \in Nat
  /\ answers \in [Danmaku!Ids -> [all : 0 .. 1, completed : 0 .. 1]]

\* The changes that run or wait.
Underway == ({changing} \cup Danmaku!ToSet(changes)) \ {0}

LanesFit ==
  /\ searching # 0 => requests[searching].op = "search"
  /\ waiting # 0 => requests[waiting].op = "search"
  /\ \A i \in Underway : requests[i].op = "change"
  /\ configuring # 0 => requests[configuring].op = "configure"

\* A search that may still complete has no change of its item beside it.
NoneBesides(i, ids) == \A j \in ids : requests[j].item # requests[i].item
NoneBeside(i) == \A j \in Underway : requests[j].item # requests[i].item
SearchIsAlone ==
  searching # 0 /\ answers[searching].all = 0 => NoneBeside(searching)

DanmakuInv == DanmakuShape /\ LanesFit /\ SearchIsAlone

LEMMA DanmakuInit == Danmaku!Init => DanmakuInv
<1> SUFFICES ASSUME Danmaku!Init PROVE DanmakuInv
  OBVIOUS
<1>1. MaxRequests \in Nat
  BY ServicesAssumption DEF Danmaku!DanmakuAssumption
<1>2. DanmakuShape
  BY <1>1 DEF Danmaku!Init, DanmakuShape, Danmaku!Gone, DanmakuOps, Danmaku!Ids
<1>3. LanesFit /\ SearchIsAlone
  BY DEF Danmaku!Init, LanesFit, SearchIsAlone, Underway, Danmaku!ToSet
<1> QED
  BY <1>2, <1>3 DEF DanmakuInv

\* A page is told once: an answer is never taken back, and only the requests
\* that are told, and only if they were not before, complete.
Grown(as) ==
  /\ as \in [Danmaku!Ids -> [all : 0 .. 1, completed : 0 .. 1]]
  /\ \A i \in Danmaku!Ids : answers[i].all = 1 => as[i].all = 1

LEMMA ToldFacts ==
  ASSUME DanmakuShape, NEW ids, NEW ok \in BOOLEAN
  PROVE  /\ Grown(Danmaku!Told(answers, ids, ok))
         /\ \A i \in Danmaku!Ids :
              i \in ids => Danmaku!Told(answers, ids, ok)[i].all = 1
         /\ \A i \in Danmaku!Ids :
              Danmaku!Told(answers, ids, ok)[i].completed > answers[i].completed =>
                i \in ids /\ ok /\ answers[i].all = 0
<1>1. answers \in [Danmaku!Ids -> [all : 0 .. 1, completed : 0 .. 1]]
  BY DEF DanmakuShape
<1> DEFINE as == Danmaku!Told(answers, ids, ok)
<1>2. \A i \in Danmaku!Ids :
        as[i] = IF i \in ids /\ answers[i].all = 0
                THEN [all |-> 1, completed |-> IF ok THEN 1 ELSE 0] ELSE answers[i]
  BY DEF Danmaku!Told
<1>3. \A i \in Danmaku!Ids :
        /\ as[i] \in [all : 0 .. 1, completed : 0 .. 1]
        /\ answers[i].all = 1 => as[i].all = 1
        /\ i \in ids => as[i].all = 1
        /\ as[i].completed > answers[i].completed => i \in ids /\ ok /\ answers[i].all = 0
  <2> SUFFICES ASSUME NEW i \in Danmaku!Ids
               PROVE  /\ as[i] \in [all : 0 .. 1, completed : 0 .. 1]
                      /\ answers[i].all = 1 => as[i].all = 1
                      /\ i \in ids => as[i].all = 1
                      /\ as[i].completed > answers[i].completed =>
                           i \in ids /\ ok /\ answers[i].all = 0
    OBVIOUS
  <2>1. answers[i] \in [all : 0 .. 1, completed : 0 .. 1]
    BY <1>1
  <2>2. CASE i \in ids /\ answers[i].all = 0
    BY <1>2, <2>1, <2>2
  <2>3. CASE ~ (i \in ids /\ answers[i].all = 0)
    BY <1>2, <2>1, <2>3
  <2> QED
    BY <2>2, <2>3
<1>4. as \in [Danmaku!Ids -> [all : 0 .. 1, completed : 0 .. 1]]
  BY <1>3 DEF Danmaku!Told
<1> QED
  BY <1>3, <1>4 DEF Grown

LEMMA FailedFacts ==
  ASSUME DanmakuShape, NEW ids
  PROVE  /\ Grown(Danmaku!Failed(ids)) /\ Grown(answers)
         /\ \A i \in Danmaku!Ids : i \in ids => Danmaku!Failed(ids)[i].all = 1
         /\ \A i \in Danmaku!Ids :
              ~ (Danmaku!Failed(ids)[i].completed > answers[i].completed)
<1>1. Grown(answers)
  BY DEF DanmakuShape, Grown
<1> QED
  BY <1>1, ToldFacts DEF Danmaku!Failed

\* The identities in use are identities, and older than the next.
LEMMA InUse ==
  ASSUME DanmakuInv
  PROVE  /\ MaxRequests \in Nat /\ next \in Nat
         /\ 1 .. next - 1 \subseteq Danmaku!Ids
         /\ searching # 0 => searching \in 1 .. next - 1
         /\ waiting # 0 => waiting \in 1 .. next - 1
         /\ configuring # 0 => configuring \in 1 .. next - 1
         /\ changing # 0 => changing \in 1 .. next - 1
         /\ Danmaku!ToSet(changes) \subseteq 1 .. next - 1
         /\ Underway \subseteq 1 .. next - 1
<1>1. MaxRequests \in Nat
  BY ServicesAssumption DEF Danmaku!DanmakuAssumption
<1>2. Danmaku!ToSet(changes) \subseteq 1 .. next - 1
  BY DEF DanmakuInv, DanmakuShape, Danmaku!ToSet
<1> QED
  BY <1>1, <1>2 DEF DanmakuInv, DanmakuShape, Danmaku!Ids, Underway

\* A step that submits nothing and starts neither a change nor a search but
\* one that waited with none of its changes beside it.
LEMMA DanmakuStep ==
  ASSUME DanmakuInv, UNCHANGED <<requests, next>>, phase'.gen \in Nat, Grown(answers'),
         searching' \in {searching, 0} \/ (/\ searching' = waiting
                                           /\ waiting # 0 => NoneBesides(waiting, Underway')),
         waiting' \in {waiting, 0}, configuring' \in {configuring, 0},
         changes' \in Seq(1 .. next - 1), changing' \in 0 .. next - 1,
         Underway' \subseteq Underway
  PROVE  DanmakuInv'
<1>1. DanmakuShape'
  BY DEF DanmakuInv, DanmakuShape, Grown
<1>2. LanesFit'
  BY DEF DanmakuInv, DanmakuShape, LanesFit
<1>3. SearchIsAlone'
  <2> SUFFICES ASSUME searching' # 0, answers'[searching'].all = 0
               PROVE  NoneBeside(searching)'
    BY DEF SearchIsAlone
  <2>1. CASE searching' = searching
    <3>1. searching \in Danmaku!Ids
      BY <2>1, InUse
    <3>2. answers[searching].all = 0
      BY <2>1, <3>1 DEF DanmakuInv, DanmakuShape, Grown
    <3> QED
      BY <2>1, <3>2 DEF DanmakuInv, SearchIsAlone, NoneBeside
  <2>2. CASE searching' = waiting /\ (waiting # 0 => NoneBesides(waiting, Underway'))
    BY <2>2 DEF NoneBeside, NoneBesides
  <2> QED
    BY <2>1, <2>2
<1> QED
  BY <1>1, <1>2, <1>3 DEF DanmakuInv

\* A new request: the identities in use keep theirs.
LEMMA SubmittedFacts ==
  ASSUME DanmakuInv, NEW kind \in DanmakuOps, NEW item \in Media \cup {0},
         Danmaku!Submitted(kind, item)
  PROVE  /\ next \in Danmaku!Ids /\ next' = next + 1 /\ next' \in 1 .. MaxRequests + 1
         /\ requests' \in [Danmaku!Ids -> [op : DanmakuOps, item : Media \cup {0}, gen : Nat]]
         /\ requests'[next].op = kind /\ requests'[next].item = item
         /\ \A i \in 1 .. next - 1 : requests'[i] = requests[i]
         /\ 1 .. next - 1 \subseteq 1 .. next' - 1 /\ next \in 1 .. next' - 1
<1>1. MaxRequests \in Nat /\ next \in Nat /\ 1 .. next - 1 \subseteq Danmaku!Ids
  BY InUse
<1>2. /\ next \in Danmaku!Ids /\ next' = next + 1
      /\ requests' = [requests EXCEPT ![next] = [op |-> kind, item |-> item, gen |-> phase.gen]]
  BY DEF Danmaku!Submitted
<1>3. requests \in [Danmaku!Ids -> [op : DanmakuOps, item : Media \cup {0}, gen : Nat]]
      /\ phase.gen \in Nat
  BY DEF DanmakuInv, DanmakuShape
<1>4. \A i \in 1 .. next - 1 : i # next
  BY <1>1
<1> QED
  BY <1>1, <1>2, <1>3, <1>4 DEF Danmaku!Ids

\* So the lanes, which hold identities in use or none, still do.
LEMMA WithinWider ==
  ASSUME DanmakuInv, NEW kind \in DanmakuOps, NEW item \in Media \cup {0},
         Danmaku!Submitted(kind, item)
  PROVE  /\ {0, next, searching, waiting, changing, configuring} \subseteq 0 .. next' - 1
         /\ phase.gen \in Nat
<1>1. /\ next \in Nat /\ next # 0 /\ next' = next + 1
      /\ {searching, waiting, changing, configuring} \subseteq 0 .. next - 1
      /\ phase.gen \in Nat
  BY SubmittedFacts, InUse DEF DanmakuInv, DanmakuShape
<1>2. 0 .. next - 1 \subseteq 0 .. next' - 1 /\ {0, next} \subseteq 0 .. next' - 1
  BY <1>1
<1> QED
  BY <1>1, <1>2

LEMMA RejectedKeeps ==
  ASSUME DanmakuInv, NEW kind \in DanmakuOps, NEW item \in Media \cup {0},
         Danmaku!Submitted(kind, item), Grown(answers'),
         UNCHANGED <<searching, waiting, changing, changes, phase>>,
         \/ configuring' = configuring
         \/ kind = "configure" /\ configuring' = next
  PROVE  DanmakuInv'
<1>1. DanmakuShape'
  <2>1. changes \in Seq(1 .. next' - 1)
    BY SubmittedFacts, WiderSeq DEF DanmakuInv, DanmakuShape
  <2> QED
    BY <2>1, SubmittedFacts, WithinWider DEF DanmakuShape, Grown
<1>2. Underway' = Underway
  BY DEF Underway
<1>3. LanesFit'
  BY <1>2, SubmittedFacts, InUse DEF DanmakuInv, LanesFit
<1>4. SearchIsAlone'
  <2> SUFFICES ASSUME searching # 0, answers'[searching].all = 0
               PROVE  NoneBeside(searching)'
    BY DEF SearchIsAlone
  <2>1. answers[searching].all = 0
    BY InUse DEF DanmakuInv, DanmakuShape, Grown
  <2> QED
    BY <1>2, <2>1, SubmittedFacts, InUse DEF DanmakuInv, SearchIsAlone, NoneBeside
<1> QED
  BY <1>1, <1>3, <1>4 DEF DanmakuInv

LEMMA SubmitSearchKeeps ==
  ASSUME DanmakuInv, NEW item \in Media, Danmaku!SubmitSearch(item)
  PROVE  DanmakuInv'
<1>1. /\ Danmaku!Submitted("search", item)
      /\ Grown(answers')
      /\ UNCHANGED <<changing, changes, configuring, phase>>
  BY FailedFacts DEF Danmaku!SubmitSearch, DanmakuInv, Danmaku!changeLane
<1>2. "search" \in DanmakuOps /\ item \in Media \cup {0}
  BY DEF DanmakuOps
<1>3. Underway' = Underway
  BY <1>1 DEF Underway
<1>4. \/ searching' = 0 /\ waiting' = next
      \/ searching' = next /\ waiting' = 0 /\ ~ Danmaku!Pending(item)
  BY DEF Danmaku!SubmitSearch, Danmaku!MustWait
<1>5. DanmakuShape'
  <2>1. changes \in Seq(1 .. next' - 1)
    BY <1>1, <1>2, SubmittedFacts, WiderSeq DEF DanmakuInv, DanmakuShape
  <2> QED
    BY <1>1, <1>2, <1>4, <2>1, SubmittedFacts, WithinWider DEF DanmakuShape, Grown
<1>6. LanesFit'
  BY <1>1, <1>2, <1>3, <1>4, SubmittedFacts, InUse DEF DanmakuInv, LanesFit
<1>7. SearchIsAlone'
  <2> SUFFICES ASSUME searching' # 0 PROVE NoneBeside(searching)'
    BY DEF SearchIsAlone
  <2>1. ~ Danmaku!Pending(item) /\ searching' = next
    BY <1>4
  <2>2. \A j \in Underway : requests[j].item # item
    BY <2>1 DEF Danmaku!Pending, Underway
  <2> QED
    BY <1>1, <1>2, <1>3, <2>1, <2>2, SubmittedFacts, InUse DEF NoneBeside
<1> QED
  BY <1>5, <1>6, <1>7 DEF DanmakuInv

\* What a sequence holds after an element was added or the first was taken.
LEMMA QueueFacts ==
  ASSUME NEW S, NEW s \in Seq(S), NEW x \in S, NEW q, q = Append(s, x)
  PROVE  /\ q \in Seq(S)
         /\ Danmaku!ToSet(q) \subseteq Danmaku!ToSet(s) \cup {x}
         /\ Head(q) \in Danmaku!ToSet(s) \cup {x}
         /\ Tail(q) \in Seq(S)
         /\ Danmaku!ToSet(Tail(q)) \subseteq Danmaku!ToSet(s) \cup {x}
<1>1. /\ q \in Seq(S) /\ Len(q) = Len(s) + 1 /\ Len(s) \in Nat
      /\ \A i \in 1 .. Len(q) : q[i] = IF i <= Len(s) THEN s[i] ELSE x
  OBVIOUS
<1>2. Danmaku!ToSet(q) \subseteq Danmaku!ToSet(s) \cup {x}
  BY <1>1 DEF Danmaku!ToSet
<1>3. q # <<>> /\ Head(q) = q[1] /\ 1 \in DOMAIN q
  BY <1>1
<1>4. /\ Tail(q) \in Seq(S) /\ Len(Tail(q)) = Len(s)
      /\ \A i \in 1 .. Len(s) : Tail(q)[i] = q[i + 1]
  BY <1>1, <1>3
<1>5. Danmaku!ToSet(Tail(q)) \subseteq Danmaku!ToSet(q)
  BY <1>1, <1>4 DEF Danmaku!ToSet
<1>6. Head(q) \in Danmaku!ToSet(q)
  BY <1>3 DEF Danmaku!ToSet
<1> QED
  BY <1>1, <1>2, <1>4, <1>5, <1>6

LEMMA SubmitChangeKeeps ==
  ASSUME DanmakuInv, NEW item \in Media, Danmaku!SubmitChange(item)
  PROVE  DanmakuInv'
<1> DEFINE displaced == {i \in {searching, waiting} \ {0} : requests[i].item = item}
           q == Append(changes, next)
<1>1. /\ Danmaku!Submitted("change", item)
      /\ answers' = Danmaku!Failed(displaced)
      /\ waiting' = IF waiting \in displaced THEN 0 ELSE waiting
      /\ IF changing = 0 THEN changing' = Head(q) /\ changes' = Tail(q)
         ELSE changes' = q /\ changing' = changing
      /\ UNCHANGED <<searching, configuring, phase>>
  BY DEF Danmaku!SubmitChange
<1>2. "change" \in DanmakuOps /\ item \in Media \cup {0}
  BY DEF DanmakuOps
<1>3. /\ Grown(answers')
      /\ \A i \in Danmaku!Ids : i \in displaced => answers'[i].all = 1
  BY <1>1, FailedFacts DEF DanmakuInv
<1>4. changes \in Seq(1 .. next' - 1) /\ next \in 1 .. next' - 1
  BY <1>1, <1>2, SubmittedFacts, WiderSeq DEF DanmakuInv, DanmakuShape
<1>5. /\ q \in Seq(1 .. next' - 1) /\ Tail(q) \in Seq(1 .. next' - 1)
      /\ Danmaku!ToSet(q) \subseteq Danmaku!ToSet(changes) \cup {next}
      /\ Head(q) \in Danmaku!ToSet(changes) \cup {next}
      /\ Danmaku!ToSet(Tail(q)) \subseteq Danmaku!ToSet(changes) \cup {next}
  <2> DEFINE S == 1 .. next' - 1
  <2>1. q = Append(changes, next) /\ changes \in Seq(S) /\ next \in S
    BY <1>4
  <2> HIDE DEF q, S
  <2>2. q \in Seq(S)
    BY <2>1, QueueFacts, SMT
  <2>3. Danmaku!ToSet(q) \subseteq Danmaku!ToSet(changes) \cup {next}
    BY <2>1, QueueFacts, Zenon
  <2>4. Head(q) \in Danmaku!ToSet(changes) \cup {next}
    BY <2>1, QueueFacts, Zenon
  <2>5. Tail(q) \in Seq(S)
    BY <2>1, QueueFacts, SMT
  <2>6. Danmaku!ToSet(Tail(q)) \subseteq Danmaku!ToSet(changes) \cup {next}
    BY <2>1, QueueFacts, Zenon
  <2> QED
    BY <2>2, <2>3, <2>4, <2>5, <2>6 DEF S
<1> HIDE DEF q
<1>6. Underway' \subseteq Underway \cup {next}
  BY <1>1, <1>5, InUse DEF Underway
<1>7. /\ changes' \in Seq(1 .. next' - 1)
      /\ changing' \in 0 .. next' - 1
  <2>1. Danmaku!ToSet(changes) \cup {next} \subseteq 0 .. next' - 1
    BY <1>1, <1>2, SubmittedFacts, InUse
  <2>2. changing \in 0 .. next' - 1
    BY <1>1, <1>2, SubmittedFacts, InUse
  <2>3. CASE changing = 0
    <3>1. changing' = Head(q) /\ changes' = Tail(q)
      BY <1>1, <2>3
    <3> QED
      BY <1>5, <2>1, <3>1, Zenon
  <2>4. CASE changing # 0
    BY <1>1, <1>5, <2>2, <2>4
  <2> QED
    BY <2>3, <2>4
<1>8. DanmakuShape'
  <2>1. {searching', waiting', configuring'} \subseteq 0 .. next' - 1
    BY <1>1, <1>2, SubmittedFacts, InUse
  <2> QED
    BY <1>1, <1>2, <1>3, <1>7, <2>1, SubmittedFacts DEF DanmakuInv, DanmakuShape, Grown
<1>9. LanesFit'
  BY <1>1, <1>2, <1>6, SubmittedFacts, InUse DEF DanmakuInv, LanesFit
<1>10. SearchIsAlone'
  <2> SUFFICES ASSUME searching # 0, answers'[searching].all = 0
               PROVE  NoneBeside(searching)'
    BY <1>1 DEF SearchIsAlone
  <2>1. searching \in Danmaku!Ids /\ searching \notin displaced
    BY <1>3, InUse
  <2>2. answers[searching].all = 0
    BY <1>3, <2>1 DEF DanmakuInv, DanmakuShape, Grown
  <2>3. NoneBeside(searching)
    BY <2>2 DEF DanmakuInv, SearchIsAlone
  <2>4. requests'[searching] = requests[searching] /\ requests[searching].item # item
    BY <1>1, <1>2, <2>1, SubmittedFacts, InUse
  <2> QED
    BY <1>1, <1>2, <1>6, <2>3, <2>4, SubmittedFacts, InUse DEF NoneBeside
<1> QED
  BY <1>8, <1>9, <1>10 DEF DanmakuInv

\* What the pump of the changes starts was waiting, and what it leaves too.
LEMMA PumpChangeKeeps ==
  ASSUME DanmakuInv, Danmaku!PumpChange, UNCHANGED <<requests, next, configuring, phase>>
  PROVE  DanmakuInv'
<1> DEFINE live == {k \in 1 .. Len(changes) : Danmaku!Accepts(changes[k])}
           upTo == IF live = {} THEN Len(changes) ELSE Danmaku!Min(live)
           head == IF live = {} THEN 0 ELSE changes[upTo]
<1>1. changes \in Seq(1 .. next - 1) /\ changing \in 0 .. next - 1 /\ phase.gen \in Nat
  BY DEF DanmakuInv, DanmakuShape
<1>2. CASE phase.down \/ changing # 0
  <2>1. UNCHANGED <<changing, changes, searching, waiting, answers>>
    BY <1>2 DEF Danmaku!PumpChange, Danmaku!changeLane, Danmaku!searchLane
  <2> QED
    BY <1>1, <2>1, DanmakuStep, FailedFacts DEF Underway, DanmakuInv
<1>3. CASE ~ (phase.down \/ changing # 0)
  <2>1. /\ changing' = head
        /\ changes' = SubSeq(changes, upTo + 1, Len(changes))
        /\ IF upTo = 0 THEN Danmaku!PumpSearch({})
           ELSE answers' = Danmaku!Failed(Danmaku!ToSet(SubSeq(changes, 1, upTo)) \ {head})
                /\ UNCHANGED <<searching, waiting>>
    BY <1>3 DEF Danmaku!PumpChange, Danmaku!searchLane
  <2>2. live # {} => upTo \in live
    <3> SUFFICES ASSUME live # {} PROVE upTo \in live
      OBVIOUS
    <3>1. live \subseteq Nat
      OBVIOUS
    <3>2. \E x \in live : \A y \in live : x <= y
      BY <3>1, LeastNumber
    <3> HIDE DEF live
    <3> QED
      BY <3>2 DEF Danmaku!Min
  <2>3. /\ upTo \in 0 .. Len(changes) /\ (upTo = 0 => changes = <<>>)
        /\ head \in {0} \cup Danmaku!ToSet(changes)
    <3>1. CASE live = {}
      BY <1>1, <3>1
    <3>2. CASE live # {}
      <4>1. upTo \in 1 .. Len(changes)
        BY <2>2, <3>2
      <4>2. head = changes[upTo]
        BY <3>2
      <4> HIDE DEF upTo, head
      <4> QED
        BY <1>1, <4>1, <4>2 DEF Danmaku!ToSet
    <3> QED
      BY <3>1, <3>2
  <2> HIDE DEF upTo, head, live
  <2>4. /\ changes' \in Seq(1 .. next - 1)
        /\ Danmaku!ToSet(changes') \subseteq Danmaku!ToSet(changes)
    <3>1. upTo + 1 \in 1 .. Len(changes) + 1 /\ Len(changes) \in Nat
      BY <1>1, <2>3
    <3>2. \A i \in upTo + 1 .. Len(changes) : changes[i] \in 1 .. next - 1
      <4> SUFFICES ASSUME NEW i \in upTo + 1 .. Len(changes)
                   PROVE  changes[i] \in 1 .. next - 1
        OBVIOUS
      <4>1. i \in 1 .. Len(changes)
        BY <2>3, <3>1
      <4> QED
        BY <1>1, <4>1, ElementOfSeq
    <3>3. /\ changes' \in Seq(1 .. next - 1)
          /\ Len(changes') = IF upTo + 1 <= Len(changes)
                              THEN Len(changes) - (upTo + 1) + 1 ELSE 0
          /\ \A i \in 1 .. Len(changes) - (upTo + 1) + 1 :
                changes'[i] = changes[upTo + 1 + i - 1]
      BY <2>1, <3>1, <3>2, SubSeqProperties
    <3>4. \A i \in DOMAIN changes' : \E j \in DOMAIN changes : changes'[i] = changes[j]
      <4> SUFFICES ASSUME NEW i \in DOMAIN changes'
                   PROVE  changes'[i] = changes[upTo + i] /\ upTo + i \in DOMAIN changes
        OBVIOUS
      <4>1. i \in 1 .. Len(changes) - upTo /\ upTo \in Nat
        BY <2>3, <3>1, <3>3
      <4>2. upTo + i \in 1 .. Len(changes) /\ upTo + 1 + i - 1 = upTo + i
        BY <3>1, <4>1
      <4>3. i \in 1 .. Len(changes) - (upTo + 1) + 1
        BY <3>1, <4>1
      <4> QED
        BY <1>1, <3>3, <4>2, <4>3
    <3> QED
      BY <3>3, <3>4 DEF Danmaku!ToSet
  <2>5. changing' \in 0 .. next - 1 /\ Underway' \subseteq Underway
    <3>1. 0 \in 0 .. next - 1
      BY InUse DEF DanmakuInv, DanmakuShape
    <3>2. changing' \in {0} \cup Danmaku!ToSet(changes)
      BY <2>1, <2>3
    <3> QED
      BY <2>4, <3>1, <3>2, InUse DEF Underway
  <2>6. CASE upTo # 0
    <3>1. Grown(answers') /\ UNCHANGED <<searching, waiting>>
      BY <2>1, <2>6, FailedFacts DEF DanmakuInv
    <3> QED
      BY <1>1, <2>4, <2>5, <3>1, DanmakuStep
  <2>7. CASE upTo = 0
    <3>1. Underway' = {}
      <4>1. changes = <<>> /\ changing' = 0
        BY <1>1, <2>1, <2>3, <2>7 DEF Danmaku!ToSet
      <4>2. changes' = <<>>
        BY <1>1, <2>1, <2>7, <4>1
      <4> QED
        BY <4>1, <4>2 DEF Underway, Danmaku!ToSet
    <3>2. /\ Grown(answers') /\ waiting' \in {waiting, 0}
          /\ searching' \in {searching, waiting}
      BY <2>1, <2>7, FailedFacts DEF Danmaku!PumpSearch, Danmaku!searchLane, DanmakuInv
    <3> QED
      BY <1>1, <2>4, <2>5, <3>1, <3>2, DanmakuStep DEF NoneBesides
  <2> QED
    BY <2>6, <2>7
<1> QED
  BY <1>2, <1>3

LEMMA DanmakuKeeps ==
  ASSUME DanmakuInv, [Danmaku!Next]_(Danmaku!danmakuVars)
  PROVE  DanmakuInv'
<1> USE DEF Danmaku!searchLane, Danmaku!changeLane
<1>0. /\ phase.gen \in Nat /\ changes \in Seq(1 .. next - 1) /\ changing \in 0 .. next - 1
      /\ DanmakuShape /\ Grown(answers)
  BY FailedFacts DEF DanmakuInv, DanmakuShape
<1>1. CASE UNCHANGED Danmaku!danmakuVars
  <2>1. Underway' = Underway
    BY <1>1 DEF Danmaku!danmakuVars, Underway
  <2> QED
    BY <1>0, <1>1, <2>1, DanmakuStep DEF Danmaku!danmakuVars
<1>2. CASE Danmaku!SearchEnds
  <2>1. Underway' = Underway
    BY <1>2 DEF Danmaku!SearchEnds, Underway
  <2> QED
    BY <1>0, <1>2, <2>1, DanmakuStep DEF Danmaku!SearchEnds
<1>3. CASE Danmaku!FinishSearch
  <2>1. Underway' = Underway
    BY <1>3 DEF Danmaku!FinishSearch, Underway
  <2>2. Grown(answers')
    BY <1>0, <1>3, ToldFacts, FailedFacts DEF Danmaku!FinishSearch
  <2> QED
    BY <1>0, <1>3, <2>1, <2>2, DanmakuStep DEF Danmaku!FinishSearch
<1>4. CASE Danmaku!FinishChange
  <2>1. Underway' \subseteq Underway
    BY <1>4 DEF Danmaku!FinishChange, Underway
  <2>2. Grown(answers')
    BY <1>0, <1>4, ToldFacts, FailedFacts DEF Danmaku!FinishChange
  <2>3. 0 \in 0 .. next - 1
    BY InUse DEF DanmakuInv, DanmakuShape
  <2> QED
    BY <1>0, <1>4, <2>1, <2>2, <2>3, DanmakuStep DEF Danmaku!FinishChange
<1>5. CASE Danmaku!Pump
  <2>1. UNCHANGED <<requests, configuring, phase, next>>
    BY <1>5 DEF Danmaku!Pump
  <2>2. CASE Danmaku!PumpChange
    BY <2>1, <2>2, PumpChangeKeeps
  <2>3. CASE ~ Danmaku!PumpChange
    <3>1. /\ Danmaku!PumpSearch(Underway)
          /\ UNCHANGED <<changing, changes>>
      BY <1>5, <2>3 DEF Danmaku!Pump, Underway
    <3>2. Underway' = Underway
      BY <3>1 DEF Underway
    <3>3. /\ Grown(answers') /\ waiting' \in {waiting, 0}
          /\ \/ searching' = searching
             \/ searching' = waiting /\ Danmaku!Startable(Underway)
      BY <1>0, <3>1, FailedFacts DEF Danmaku!PumpSearch
    <3>4. Danmaku!Startable(Underway) => NoneBesides(waiting, Underway')
      BY <3>2 DEF Danmaku!Startable, NoneBesides
    <3> QED
      BY <1>0, <2>1, <3>1, <3>2, <3>3, <3>4, DanmakuStep
  <2> QED
    BY <2>2, <2>3
<1>6. CASE Danmaku!FinishConfiguration
  <2>1. Underway' = Underway
    BY <1>6 DEF Danmaku!FinishConfiguration, Underway
  <2>2. Grown(answers')
    BY <1>0, <1>6, ToldFacts DEF Danmaku!FinishConfiguration
  <2> QED
    BY <1>0, <1>6, <2>1, <2>2, DanmakuStep DEF Danmaku!FinishConfiguration
<1>7. CASE Danmaku!Configure
  <2>1. Grown(answers') /\ "configure" \in DanmakuOps
    BY <1>0, <1>7, FailedFacts DEF Danmaku!Configure, DanmakuOps
  <2> QED
    BY <1>7, <2>1, RejectedKeeps DEF Danmaku!Configure
<1>8. ASSUME NEW item \in Media, Danmaku!SubmitSearch(item)
      PROVE  DanmakuInv'
  BY <1>8, SubmitSearchKeeps
<1>9. ASSUME NEW item \in Media, Danmaku!SubmitChange(item)
      PROVE  DanmakuInv'
  BY <1>9, SubmitChangeKeeps
<1>10. ASSUME NEW item \in Media, NEW kind \in {"search", "change"},
              Danmaku!Refused(kind, item)
       PROVE  DanmakuInv'
  <2>1. Grown(answers') /\ kind \in DanmakuOps /\ item \in Media \cup {0}
    BY <1>0, <1>10, FailedFacts DEF Danmaku!Refused, Danmaku!Rejected, DanmakuOps
  <2> QED
    BY <1>10, <2>1, RejectedKeeps DEF Danmaku!Refused, Danmaku!Rejected
<1>11. CASE Danmaku!TransitionStarted
  <2>1. /\ changes' = <<>> /\ changing' = changing /\ phase'.gen \in Nat
        /\ Grown(answers')
    BY <1>0, <1>11, FailedFacts DEF Danmaku!TransitionStarted
  <2>2. Underway' \subseteq Underway
    BY <2>1 DEF Underway, Danmaku!ToSet
  <2> QED
    BY <1>0, <1>11, <2>1, <2>2, DanmakuStep DEF Danmaku!TransitionStarted
<1>12. CASE Danmaku!TransitionEnded
  <2>1. Underway' = Underway /\ phase'.gen \in Nat
    BY <1>0, <1>12 DEF Danmaku!TransitionEnded, Underway
  <2> QED
    BY <1>0, <1>12, <2>1, DanmakuStep DEF Danmaku!TransitionEnded
<1>13. CASE Danmaku!Shutdown
  <2>1. /\ changes' = <<>> /\ changing' = changing /\ phase'.gen \in Nat
        /\ Grown(answers')
    BY <1>0, <1>13, FailedFacts DEF Danmaku!Shutdown
  <2>2. Underway' \subseteq Underway
    BY <2>1 DEF Underway, Danmaku!ToSet
  <2> QED
    BY <1>0, <1>13, <2>1, <2>2, DanmakuStep DEF Danmaku!Shutdown
<1> QED
  BY <1>1, <1>2, <1>3, <1>4, <1>5, <1>6, <1>7, <1>8, <1>9, <1>10, <1>11,
     <1>12, <1>13
  DEF Danmaku!Next, Danmaku!Progress

\* Only the search that ran last completes as a search.
LEMMA SearchCompletes ==
  ASSUME DanmakuInv, [Danmaku!Next]_(Danmaku!danmakuVars), NEW i \in Danmaku!Ids,
         requests[i].op = "search", answers'[i].completed > answers[i].completed
  PROVE  i = searching /\ searching # 0 /\ answers[i].all = 0 /\ Danmaku!Accepts(i)
<1> USE DEF Danmaku!searchLane, Danmaku!changeLane
<1>1. DanmakuShape
  BY DEF DanmakuInv
<1>2. answers' # answers
  <2>1. answers[i].completed \in 0 .. 1
    BY <1>1 DEF DanmakuShape
  <2> QED
    BY <2>1
<1>3. \A ids : answers' # Danmaku!Failed(ids)
  BY <1>1, FailedFacts
<1>4. ~ UNCHANGED Danmaku!danmakuVars /\ ~ Danmaku!SearchEnds
  BY <1>2 DEF Danmaku!danmakuVars, Danmaku!SearchEnds
<1>5. ~ Danmaku!Pump
  BY <1>2, <1>3 DEF Danmaku!Pump, Danmaku!PumpChange, Danmaku!PumpSearch
<1>6. ~ Danmaku!Configure /\ ~ Danmaku!TransitionStarted
      /\ ~ Danmaku!TransitionEnded /\ ~ Danmaku!Shutdown
  BY <1>2, <1>3 DEF Danmaku!Configure, Danmaku!TransitionStarted,
     Danmaku!TransitionEnded, Danmaku!Shutdown
<1>7. \A item : /\ ~ Danmaku!SubmitSearch(item) /\ ~ Danmaku!SubmitChange(item)
                /\ \A kind : ~ Danmaku!Refused(kind, item)
  BY <1>3 DEF Danmaku!SubmitSearch, Danmaku!SubmitChange, Danmaku!Refused, Danmaku!Rejected
<1>8. ~ Danmaku!FinishChange
  <2> SUFFICES ASSUME Danmaku!FinishChange PROVE FALSE
    OBVIOUS
  <2>1. PICK ok \in BOOLEAN : answers' = Danmaku!Told(answers, {changing}, ok)
    BY <1>3 DEF Danmaku!FinishChange
  <2>2. i = changing /\ changing # 0
    BY <1>1, <2>1, ToldFacts DEF Danmaku!FinishChange
  <2> QED
    BY <2>2 DEF DanmakuInv, LanesFit, Underway
<1>9. ~ Danmaku!FinishConfiguration
  <2> SUFFICES ASSUME Danmaku!FinishConfiguration PROVE FALSE
    OBVIOUS
  <2>1. PICK ok \in BOOLEAN : answers' = Danmaku!Told(answers, {configuring}, ok)
    BY DEF Danmaku!FinishConfiguration
  <2>2. i = configuring /\ configuring # 0
    BY <1>1, <2>1, ToldFacts DEF Danmaku!FinishConfiguration
  <2> QED
    BY <2>2 DEF DanmakuInv, LanesFit
<1>10. Danmaku!FinishSearch
  BY <1>4, <1>5, <1>6, <1>7, <1>8, <1>9 DEF Danmaku!Next, Danmaku!Progress
<1>11. /\ searching # 0 /\ Danmaku!Accepts(searching)
       /\ \E ok \in BOOLEAN : answers' = Danmaku!Told(answers, {searching}, ok)
  BY <1>2, <1>3, <1>10 DEF Danmaku!FinishSearch
<1>12. i = searching /\ answers[i].all = 0
  BY <1>1, <1>11, ToldFacts
<1> QED
  BY <1>11, <1>12

\* DanmakuCoordinator.cpp, for any number of requests, media, sessions and
\* bound of the queue: a search completes only between the changes of its item
\* and in its own session.
THEOREM SearchesAlwaysAvoidChanges == Spec => SearchesAvoidChanges
<1> DEFINE Completes ==
      \A i \in Danmaku!Ids :
        requests[i].op = "search" /\ answers'[i].completed > answers[i].completed =>
          ~ Danmaku!Pending(requests[i].item) /\ requests[i].gen = phase.gen
<1>1. Init => DanmakuInv
  BY DanmakuInit DEF Init
<1>2. DanmakuInv /\ [Next]_vars => DanmakuInv'
  BY ServiceSteps, DanmakuKeeps
<1>3. DanmakuInv /\ [Next]_vars => [Completes]_(Danmaku!danmakuVars)
  <2> SUFFICES ASSUME DanmakuInv, [Next]_vars, NEW i \in Danmaku!Ids,
                      requests[i].op = "search",
                      answers'[i].completed > answers[i].completed
               PROVE  ~ Danmaku!Pending(requests[i].item) /\ requests[i].gen = phase.gen
    OBVIOUS
  <2>1. i = searching /\ searching # 0 /\ answers[i].all = 0 /\ Danmaku!Accepts(i)
    BY ServiceSteps, SearchCompletes
  <2>2. NoneBeside(i)
    BY <2>1 DEF DanmakuInv, SearchIsAlone
  <2> QED
    BY <2>1, <2>2 DEF NoneBeside, Danmaku!Pending, Underway, Danmaku!Accepts
<1> HIDE DEF Completes
<1>4. Spec => [][Completes]_(Danmaku!danmakuVars)
  BY <1>1, <1>2, <1>3, PTL DEF Spec
<1> QED
  BY <1>4 DEF SearchesAvoidChanges, Danmaku!SearchesAvoidChanges, Completes

-----------------------------------------------------------------------------
\* ImageEditor.

EditorRecords ==
  [open : BOOLEAN, item : Items \cup {None}, load : Nat \cup {None},
   phase : {"idle", "loading", "refreshing", "ready", "error"},
   data : BOOLEAN, committed : SUBSET [card : Cards, id : 1 .. MaxEdits]]
CardRecords ==
  [image : Editor!Images,
   mark : {"none", "submitting", "refreshing", "error"},
   by : (1 .. MaxEdits) \cup {None}, record : Editor!Records \cup {None}]
LaneRecords ==
  [active : Editor!Requests \cup {None}, wanted : BOOLEAN,
   queued : Editor!Requests \cup {None}]
Failures ==
  [kind : {"load"}, item : Items, id : Nat] \cup
  [kind : {"mutation"}, item : Items, m : Editor!Mutations]

\* The mutations that are told as refused.
Refusals(p) == {p[k].m.id : k \in {j \in DOMAIN p : p[j].kind = "mutation"}}

\* A load that is wanted runs only while its item has no mutations.
LoadsWait ==
  lane.active # None /\ lane.wanted => work[lane.active.item] = <<>>

\* Mutations have identities of their own.
IdentitiesDiffer ==
  /\ \A id \in Refusals(posted) : id <= editorEvents
  /\ \A item \in Items : \A k \in DOMAIN work[item] :
       /\ work[item][k].id <= editorEvents
       /\ work[item][k].id \notin Refusals(posted)
       /\ \A l \in DOMAIN work[item] : k # l => work[item][k].id # work[item][l].id

\* Once the images were loaded: a card that no mutation changes shows what the
\* server has; one that a mutation changes shows what is asked for, and keeps
\* what the server has for a failure.
CardFits(c, item) ==
  cards[c].record = None /\ <<item, c>> \notin unsure =>
    cards[c].image = images[item][c]
WorkFits(m, item) ==
  /\ cards[m.card].record # None
  /\ cards[m.card].record.id = m.id
  /\ cards[m.card].image = m.image
  /\ <<item, m.card>> \notin unsure =>
       cards[m.card].record.previous = images[item][m.card]
ShowsFit ==
  editor.open /\ editor.data =>
    /\ \A c \in Cards : CardFits(c, editor.item)
    /\ \A k \in DOMAIN work[editor.item] :
         WorkFits(work[editor.item][k], editor.item)

ViewFits ==
  /\ editor.open => editor.item \in Items
  /\ editor.open /\ editor.phase = "ready" => editor.data

EditorInv ==
  Editor!EditorType /\ LoadsWait /\ IdentitiesDiffer /\ ShowsFit /\ ViewFits

\* The types, field by field.
EditorShape ==
  /\ editor \in EditorRecords /\ cards \in [Cards -> CardRecords]
  /\ lane \in LaneRecords /\ work \in [Items -> Seq(Editor!Mutations)]
  /\ posted \in Seq(Failures) /\ images \in [Items -> [Cards -> Editor!Images]]
  /\ unsure \subseteq Items \X Cards /\ loads \in Nat
  /\ editorEvents \in 0 .. MaxEdits
LEMMA ShapeIsType == EditorShape <=> Editor!EditorType
  BY DEF EditorShape, Editor!EditorType, EditorRecords, CardRecords, LaneRecords, Failures

LEMMA EditorConstants ==
  /\ MaxEdits \in Nat /\ None # First /\ None \notin 1 .. MaxEdits
  /\ First \notin 1 .. MaxEdits
  /\ None \notin Items /\ None \notin Editor!Requests /\ None \notin Editor!Records
  BY ServicesAssumption DEF Editor!EditorAssumption

LEMMA EditorInit == Editor!Init => EditorInv
<1> SUFFICES ASSUME Editor!Init PROVE EditorInv
  OBVIOUS
<1>1. EditorShape
  <2>1. editor \in EditorRecords /\ lane \in LaneRecords
    BY DEF Editor!Init, EditorRecords, LaneRecords
  <2>2. cards \in [Cards -> CardRecords]
    BY DEF Editor!Init, CardRecords, Editor!NoCard, Editor!Images
  <2>3. images \in [Items -> [Cards -> Editor!Images]]
    <3>1. \A f : f \in [Cards -> {None, First}] => f \in [Cards -> Editor!Images]
      BY DEF Editor!Images
    <3> QED
      BY <3>1 DEF Editor!Init
  <2> QED
    BY <2>1, <2>2, <2>3, EditorConstants DEF Editor!Init, EditorShape
<1>2. LoadsWait /\ ShowsFit /\ ViewFits
  BY DEF Editor!Init, LoadsWait, ShowsFit, ViewFits
<1>3. IdentitiesDiffer
  BY DEF Editor!Init, IdentitiesDiffer, Refusals
<1> QED
  BY <1>1, <1>2, <1>3, ShapeIsType DEF EditorInv

\* Failures of loads that are told add no refusal.
LEMMA ToldLoads ==
  ASSUME NEW p \in Seq(Failures), NEW f \in Seq(Failures), Refusals(f) = {}
  PROVE  p \o f \in Seq(Failures) /\ Refusals(p \o f) \subseteq Refusals(p)
<1>1. /\ p \o f \in Seq(Failures) /\ Len(p \o f) = Len(p) + Len(f)
      /\ Len(p) \in Nat /\ Len(f) \in Nat
      /\ \A k \in 1 .. Len(p) : (p \o f)[k] = p[k]
      /\ \A k \in Len(p) + 1 .. Len(p) + Len(f) : (p \o f)[k] = f[k - Len(p)]
  OBVIOUS
<1>2. ASSUME NEW k \in DOMAIN (p \o f), (p \o f)[k].kind = "mutation"
      PROVE  (p \o f)[k].m.id \in Refusals(p)
  <2>1. CASE k <= Len(p)
    <3>1. k \in DOMAIN p /\ (p \o f)[k] = p[k]
      BY <1>1, <2>1
    <3> QED
      BY <1>2, <3>1 DEF Refusals
  <2>2. CASE ~ (k <= Len(p))
    <3>1. k - Len(p) \in DOMAIN f /\ (p \o f)[k] = f[k - Len(p)]
      BY <1>1, <2>2
    <3>2. f[k - Len(p)].m.id \in Refusals(f)
      BY <1>2, <3>1 DEF Refusals
    <3> QED
      BY <3>2
  <2> QED
    BY <2>1, <2>2
<1> QED
  BY <1>1, <1>2 DEF Refusals

LEMMA ToldRefusal ==
  ASSUME NEW p \in Seq(Failures), NEW f \in Failures,
         f.kind = "mutation"
  PROVE  Append(p, f) \in Seq(Failures)
         /\ Refusals(Append(p, f)) \subseteq Refusals(p) \cup {f.m.id}
  BY DEF Refusals

LEMMA HeardFailure ==
  ASSUME NEW p \in Seq(Failures), p # <<>>
  PROVE  /\ Head(p) \in Failures /\ Tail(p) \in Seq(Failures)
         /\ Refusals(Tail(p)) \subseteq Refusals(p)
         /\ Head(p).kind = "mutation" => Head(p).m.id \in Refusals(p)
<1>1. /\ Tail(p) \in Seq(Failures) /\ Len(Tail(p)) = Len(p) - 1 /\ Len(p) \in Nat
      /\ \A k \in 1 .. Len(p) - 1 : Tail(p)[k] = p[k + 1]
      /\ 1 \in DOMAIN p /\ Head(p) = p[1]
  OBVIOUS
<1>2. Refusals(Tail(p)) \subseteq Refusals(p)
  BY <1>1 DEF Refusals
<1>3. Head(p).kind = "mutation" => Head(p).m.id \in Refusals(p)
  BY <1>1 DEF Refusals
<1> QED
  BY <1>1, <1>2, <1>3

LEMMA SupersededFacts ==
  ASSUME lane \in LaneRecords
  PROVE  Editor!Superseded(lane) \in Seq(Failures)
         /\ Refusals(Editor!Superseded(lane)) = {}
<1>1. CASE lane.queued = None
  BY <1>1 DEF Editor!Superseded, Refusals
<1>2. CASE lane.queued # None
  <2>1. lane.queued \in Editor!Requests
    BY <1>2 DEF LaneRecords
  <2>2. Editor!LoadFailure(lane.queued) \in Failures
        /\ Editor!LoadFailure(lane.queued).kind = "load"
    BY <2>1 DEF Editor!LoadFailure, Editor!Requests, Failures
  <2>3. Editor!Superseded(lane) = <<Editor!LoadFailure(lane.queued)>>
    BY <1>2 DEF Editor!Superseded
  <2> QED
    BY <2>2, <2>3 DEF Refusals
<1> QED
  BY <1>1, <1>2

LEMMA FencedFacts ==
  ASSUME lane \in LaneRecords, NEW item \in Items
  PROVE  /\ Editor!FencedFailures(lane, item) \in Seq(Failures)
         /\ Refusals(Editor!FencedFailures(lane, item)) = {}
         /\ Editor!Fenced(lane, item) \in LaneRecords
         /\ Editor!Fenced(lane, item).active = lane.active
         /\ Editor!Fenced(lane, item).wanted /\ lane.active # None =>
              lane.wanted /\ lane.active.item # item
<1> DEFINE first == IF Editor!Outdated(lane, item)
                      THEN <<Editor!LoadFailure(lane.active)>> ELSE <<>>
           second == IF Editor!Waits(lane, item) THEN Editor!Superseded(lane) ELSE <<>>
<1>1. first \in Seq(Failures) /\ Refusals(first) = {}
  <2>1. CASE Editor!Outdated(lane, item)
    <3>1. lane.active \in Editor!Requests
      BY <2>1 DEF LaneRecords, Editor!Outdated
    <3>2. Editor!LoadFailure(lane.active) \in Failures
          /\ Editor!LoadFailure(lane.active).kind = "load"
      BY <3>1 DEF Editor!LoadFailure, Editor!Requests, Failures
    <3> QED
      BY <2>1, <3>2 DEF Refusals
  <2>2. CASE ~ Editor!Outdated(lane, item)
    BY <2>2 DEF Refusals
  <2> QED
    BY <2>1, <2>2
<1>2. second \in Seq(Failures) /\ Refusals(second) = {}
  <2>1. CASE Editor!Waits(lane, item)
    BY <2>1, SupersededFacts
  <2>2. CASE ~ Editor!Waits(lane, item)
    BY <2>2 DEF Refusals
  <2> QED
    BY <2>1, <2>2
<1>3. Editor!FencedFailures(lane, item) = first \o second
  BY DEF Editor!FencedFailures
<1> HIDE DEF first, second
<1>4. /\ Editor!FencedFailures(lane, item) \in Seq(Failures)
      /\ Refusals(Editor!FencedFailures(lane, item)) = {}
  BY <1>1, <1>2, <1>3, ToldLoads
<1>5. /\ Editor!Fenced(lane, item) \in LaneRecords
      /\ Editor!Fenced(lane, item).active = lane.active
      /\ Editor!Fenced(lane, item).wanted =
           (lane.wanted /\ ~ Editor!Outdated(lane, item))
  BY DEF Editor!Fenced, LaneRecords, Editor!Outdated
<1> QED
  BY <1>4, <1>5 DEF Editor!Outdated

\* A load is asked for: the view stays, and the load runs only if its item has
\* no mutations.
LEMMA RequestFits ==
  ASSUME EditorShape, NEW e \in EditorRecords, e.item \in Items, NEW preserve \in BOOLEAN,
         NEW w, NEW told \in Seq(Failures),
         Editor!RequestInitial(e, preserve, w, told)
  PROVE  /\ editor' \in EditorRecords /\ lane' \in LaneRecords
         /\ loads' \in Nat /\ posted' \in Seq(Failures)
         /\ Refusals(posted') \subseteq Refusals(told)
         /\ editor'.open = e.open /\ editor'.item = e.item
         /\ editor'.data = (preserve /\ e.data)
         /\ editor'.phase \in {"loading", "refreshing"}
         /\ lane'.active # None /\ lane'.wanted =>
              lane'.active.item = e.item /\ w[e.item] = <<>>
<1> DEFINE r == [id |-> loads + 1, item |-> e.item]
<1>1. loads' = loads + 1 /\ loads' \in Nat
  BY DEF Editor!RequestInitial, EditorShape
<1>2. /\ editor' = [e EXCEPT !.load = loads + 1,
                             !.phase = IF preserve /\ e.data THEN "refreshing" ELSE "loading",
                             !.data = preserve /\ e.data]
      /\ lane' = Editor!Submitted(lane, r, Editor!Blocked(e.item, w))
      /\ posted' = told \o Editor!Superseded(lane)
  BY DEF Editor!RequestInitial
<1>3. /\ editor' \in EditorRecords
      /\ editor'.open = e.open /\ editor'.item = e.item
      /\ editor'.data = (preserve /\ e.data)
      /\ editor'.phase \in {"loading", "refreshing"}
  BY <1>1, <1>2 DEF EditorRecords
<1>4. r \in Editor!Requests /\ r.item = e.item /\ lane \in LaneRecords
  BY <1>1 DEF Editor!Requests, EditorShape
<1> HIDE DEF r
<1>5. /\ lane' \in LaneRecords
      /\ lane'.active # None /\ lane'.wanted =>
           lane'.active.item = e.item /\ w[e.item] = <<>>
  <2>1. CASE lane.active = None /\ ~ Editor!Blocked(e.item, w)
    <3>1. lane' = [lane EXCEPT !.active = r, !.wanted = TRUE]
      BY <1>2, <2>1 DEF Editor!Submitted
    <3>2. lane' \in LaneRecords /\ lane'.active = r
      BY <1>4, <3>1 DEF LaneRecords
    <3> QED
      BY <1>4, <2>1, <3>2 DEF Editor!Blocked
  <2>2. CASE ~ (lane.active = None /\ ~ Editor!Blocked(e.item, w))
    <3>1. lane' = [lane EXCEPT !.queued = r, !.wanted = FALSE]
      BY <1>2, <2>2 DEF Editor!Submitted
    <3> QED
      BY <1>4, <3>1 DEF LaneRecords
  <2> QED
    BY <2>1, <2>2
<1>6. posted' \in Seq(Failures) /\ Refusals(posted') \subseteq Refusals(told)
  BY <1>2, <1>4, SupersededFacts, ToldLoads
<1> QED
  BY <1>1, <1>3, <1>5, <1>6

\* A step that leaves the images, the mutations and the server as they are.
Calm ==
  /\ work' = work /\ images' = images /\ editorEvents' \in editorEvents .. MaxEdits
  /\ Refusals(posted') \subseteq Refusals(posted)
CardsStay ==
  \A c \in Cards : cards'[c].image = cards[c].image /\ cards'[c].record = cards[c].record

LEMMA CalmIdentities ==
  ASSUME EditorInv, Calm
  PROVE  IdentitiesDiffer'
<1>1. EditorShape
  BY ShapeIsType DEF EditorInv
<1>2. \A item \in Items : \A k \in DOMAIN work[item] : work[item][k] \in Editor!Mutations
  BY <1>1 DEF EditorShape
<1>3. \A item \in Items : \A k \in DOMAIN work[item] : work[item][k].id \in 1 .. MaxEdits
  BY <1>2 DEF Editor!Mutations
<1>4. editorEvents \in Nat /\ editorEvents' \in Nat /\ editorEvents <= editorEvents'
  BY <1>1, EditorConstants DEF Calm, EditorShape
<1>5. \A id \in Refusals(posted) : id \in Nat
  <2>1. \A k \in DOMAIN posted : posted[k].kind = "mutation" => posted[k].m \in Editor!Mutations
    BY <1>1 DEF EditorShape, Failures
  <2> QED
    BY <2>1, EditorConstants DEF Refusals, Editor!Mutations
<1>6. \A id \in Refusals(posted') : id <= editorEvents'
  BY <1>4, <1>5 DEF EditorInv, IdentitiesDiffer, Calm
<1>7. \A item \in Items : \A k \in DOMAIN work'[item] :
        work'[item][k].id <= editorEvents' /\ work'[item][k].id \notin Refusals(posted')
  BY <1>3, <1>4, EditorConstants DEF EditorInv, IdentitiesDiffer, Calm
<1> QED
  BY <1>6, <1>7 DEF EditorInv, IdentitiesDiffer, Calm

\* What is shown stays right while images, records, work and server stay.
LEMMA ShowsStay ==
  ASSUME EditorInv, Calm, CardsStay, unsure \subseteq unsure',
         editor'.open /\ editor'.data =>
           editor.open /\ editor.data /\ editor'.item = editor.item
  PROVE  ShowsFit'
<1> SUFFICES ASSUME editor'.open, editor'.data PROVE ShowsFit'
  BY DEF ShowsFit
<1>1. /\ editor.open /\ editor.data /\ editor'.item = editor.item
      /\ editor.item \in Items
  BY DEF EditorInv, ViewFits
<1>2. \A c \in Cards : CardFits(c, editor.item)'
  BY <1>1 DEF EditorInv, ShowsFit, CardFits, Calm, CardsStay
<1>3. \A k \in DOMAIN work[editor.item] : work[editor.item][k].card \in Cards
  <2>1. work[editor.item] \in Seq(Editor!Mutations)
    BY <1>1, ShapeIsType DEF EditorInv, EditorShape
  <2>2. \A k \in DOMAIN work[editor.item] : work[editor.item][k] \in Editor!Mutations
    BY <2>1
  <2> QED
    BY <2>2 DEF Editor!Mutations
<1>4. ASSUME NEW k \in DOMAIN work'[editor'.item]
      PROVE  WorkFits(work[editor.item][k], editor.item)'
  <2> DEFINE m == work[editor.item][k]
  <2>1. WorkFits(m, editor.item) /\ m.card \in Cards
    BY <1>1, <1>3 DEF EditorInv, ShowsFit, Calm
  <2>2. /\ cards'[m.card].image = cards[m.card].image
        /\ cards'[m.card].record = cards[m.card].record
    BY <2>1 DEF CardsStay
  <2>3. /\ work'[editor'.item][k] = m /\ images' = images
        /\ editor'.item = editor.item
    BY <1>1 DEF Calm
  <2> HIDE DEF m
  <2> QED
    BY <2>1, <2>2, <2>3 DEF WorkFits
<1> QED
  BY <1>2, <1>4 DEF ShowsFit

LEMMA TypeKept == EditorShape' <=> Editor!EditorType'
  BY DEF EditorShape, Editor!EditorType, EditorRecords, CardRecords, LaneRecords, Failures

LEMMA OpenKeeps ==
  ASSUME EditorInv, NEW item \in Items, Editor!Open(item)
  PROVE  EditorInv'
<1> DEFINE e == [editor EXCEPT !.open = TRUE, !.item = item, !.committed = {}]
<1>1. EditorShape
  BY ShapeIsType DEF EditorInv
<1>2. /\ e \in EditorRecords /\ e.item = item /\ e.open
      /\ Editor!RequestInitial(e, FALSE, work, posted)
      /\ cards' = [c \in Cards |-> Editor!NoCard]
      /\ UNCHANGED <<work, images, unsure>>
      /\ editorEvents < MaxEdits /\ editorEvents' = editorEvents + 1
  BY <1>1 DEF Editor!Open, Editor!Event, EditorShape, EditorRecords
<1> HIDE DEF e
<1>3. /\ editor' \in EditorRecords /\ lane' \in LaneRecords
      /\ loads' \in Nat /\ posted' \in Seq(Failures)
      /\ Refusals(posted') \subseteq Refusals(posted)
      /\ editor'.open = e.open /\ editor'.item = e.item
      /\ editor'.data = FALSE
      /\ editor'.phase \in {"loading", "refreshing"}
      /\ lane'.active # None /\ lane'.wanted =>
           lane'.active.item = e.item /\ work[e.item] = <<>>
  BY <1>1, <1>2, RequestFits DEF EditorShape
<1>4. EditorShape'
  <2>1. Editor!NoCard \in CardRecords
    BY DEF Editor!NoCard, CardRecords, Editor!Images
  <2>2. cards' \in [Cards -> CardRecords]
    BY <1>2, <2>1
  <2>3. editorEvents' \in 0 .. MaxEdits
    BY <1>1, <1>2, EditorConstants DEF EditorShape
  <2> QED
    BY <1>1, <1>2, <1>3, <2>2, <2>3 DEF EditorShape
<1>5. IdentitiesDiffer'
  <2>1. Calm
    BY <1>1, <1>2, <1>3, EditorConstants DEF Calm, EditorShape
  <2> QED
    BY <2>1, CalmIdentities
<1>6. LoadsWait' /\ ShowsFit' /\ ViewFits'
  BY <1>2, <1>3 DEF LoadsWait, ShowsFit, ViewFits
<1> QED
  BY <1>4, <1>5, <1>6, TypeKept DEF EditorInv

LEMMA DismissKeeps ==
  ASSUME EditorInv, Editor!Dismiss
  PROVE  EditorInv'
<1>1. EditorShape
  BY ShapeIsType DEF EditorInv
<1>2. /\ editor' = [editor EXCEPT !.open = FALSE, !.load = None, !.committed = {},
                                  !.phase = IF editor.data THEN "ready" ELSE "idle"]
      /\ cards' = [c \in Cards |-> [cards[c] EXCEPT !.mark = "none", !.by = None,
                                                    !.record = None]]
      /\ UNCHANGED <<lane, work, posted, images, unsure, loads>>
      /\ editorEvents < MaxEdits /\ editorEvents' = editorEvents + 1
  BY DEF Editor!Dismiss, Editor!Event
<1>3. editor' \in EditorRecords /\ ~ editor'.open
  BY <1>1, <1>2 DEF EditorShape, EditorRecords
<1>4. cards' \in [Cards -> CardRecords]
  BY <1>1, <1>2, ZenonT(30) DEF EditorShape, CardRecords
<1>5. Calm /\ editorEvents' \in 0 .. MaxEdits
  <2>1. /\ work' = work /\ images' = images /\ posted' = posted
        /\ editorEvents < MaxEdits /\ editorEvents' = editorEvents + 1
    BY <1>2
  <2>2. editorEvents \in 0 .. MaxEdits
    BY <1>1 DEF EditorShape
  <2> QED
    BY <2>1, <2>2, EditorConstants DEF Calm
<1>6. EditorShape'
  BY <1>1, <1>2, <1>3, <1>4, <1>5 DEF EditorShape
<1>7. LoadsWait' /\ ShowsFit' /\ ViewFits'
  BY <1>2, <1>3 DEF EditorInv, LoadsWait, ShowsFit, ViewFits
<1> QED
  BY <1>5, <1>6, <1>7, CalmIdentities, TypeKept DEF EditorInv

LEMMA RetryKeeps ==
  ASSUME EditorInv, Editor!Retry
  PROVE  EditorInv'
<1>1. EditorShape /\ editor.open /\ editor.item \in Items /\ editor \in EditorRecords
      /\ editor.data \in BOOLEAN
  BY ShapeIsType DEF EditorInv, Editor!Retry, ViewFits, EditorShape, EditorRecords
<1>2. /\ Editor!RequestInitial(editor, editor.data, work, posted)
      /\ UNCHANGED <<cards, work, images, unsure>>
      /\ editorEvents < MaxEdits /\ editorEvents' = editorEvents + 1
  BY DEF Editor!Retry, Editor!Event
<1>3. /\ editor' \in EditorRecords /\ lane' \in LaneRecords
      /\ loads' \in Nat /\ posted' \in Seq(Failures)
      /\ Refusals(posted') \subseteq Refusals(posted)
      /\ editor'.open = editor.open /\ editor'.item = editor.item
      /\ editor'.data = (editor.data /\ editor.data)
      /\ editor'.phase \in {"loading", "refreshing"}
      /\ lane'.active # None /\ lane'.wanted =>
           lane'.active.item = editor.item /\ work[editor.item] = <<>>
  BY <1>1, <1>2, RequestFits DEF EditorShape
<1>4. Calm /\ CardsStay /\ editorEvents' \in 0 .. MaxEdits
  BY <1>1, <1>2, <1>3, EditorConstants DEF Calm, CardsStay, EditorShape
<1>5. EditorShape'
  BY <1>1, <1>2, <1>3, <1>4 DEF EditorShape
<1>6. LoadsWait' /\ ViewFits'
  BY <1>1, <1>2, <1>3 DEF LoadsWait, ViewFits
<1>7. ShowsFit'
  BY <1>1, <1>2, <1>3, <1>4, ShowsStay
<1> QED
  BY <1>4, <1>5, <1>6, <1>7, CalmIdentities, TypeKept DEF EditorInv

\* The user changes a card: the coordinator takes the mutation or refuses it.
LEMMA MutateKeeps ==
  ASSUME EditorInv, NEW c \in Cards, NEW image \in {None, editorEvents + 1},
         NEW accepted \in BOOLEAN, Editor!Mutate(c, image, accepted)
  PROVE  EditorInv'
<1> DEFINE item == editor.item
           m == [id |-> editorEvents + 1, card |-> c, image |-> image]
           kept == [id |-> editorEvents + 1, previous |-> cards[c].image]
<1>1. EditorShape /\ editor.open /\ item \in Items
  BY ShapeIsType DEF EditorInv, Editor!Mutate, ViewFits
<1>2. /\ editorEvents < MaxEdits /\ editorEvents' = editorEvents + 1
      /\ cards[c].record = None
      /\ cards' = [cards EXCEPT ![c] = [image |-> image, mark |-> "submitting",
                                        by |-> editorEvents + 1, record |-> kept]]
      /\ UNCHANGED <<editor, images, unsure, loads>>
  BY DEF Editor!Mutate, Editor!Event
<1>3. /\ editorEvents \in Nat /\ editorEvents' \in 1 .. MaxEdits
      /\ image \in Editor!Images /\ m \in Editor!Mutations
  BY <1>1, <1>2, EditorConstants DEF EditorShape, Editor!Images, Editor!Mutations
<1>4. kept \in Editor!Records /\ kept # None
  BY <1>1, <1>2, <1>3, EditorConstants DEF EditorShape, CardRecords, Editor!Records
<1>5. /\ cards' \in [Cards -> CardRecords]
      /\ cards'[c].record = kept /\ cards'[c].image = image
      /\ \A b \in Cards : b # c => cards'[b] = cards[b]
  BY <1>1, <1>2, <1>3, <1>4 DEF EditorShape, CardRecords
<1>6. \A id \in Refusals(posted) : id \in Nat
  <2>1. \A k \in DOMAIN posted : posted[k].kind = "mutation" => posted[k].m \in Editor!Mutations
    BY <1>1 DEF EditorShape, Failures
  <2> QED
    BY <2>1, EditorConstants DEF Refusals, Editor!Mutations
<1>7. \A i \in Items : \A k \in DOMAIN work[i] :
        work[i][k] \in Editor!Mutations /\ work[i][k].id \in Nat
        /\ work[i][k].id <= editorEvents /\ work[i][k].id < editorEvents'
  <2>1. \A i \in Items : \A k \in DOMAIN work[i] : work[i][k] \in Editor!Mutations
    BY <1>1 DEF EditorShape
  <2>2. \A i \in Items : \A k \in DOMAIN work[i] : work[i][k].id \in Nat
    BY <2>1, EditorConstants DEF Editor!Mutations
  <2>3. \A i \in Items : \A k \in DOMAIN work[i] : work[i][k].id <= editorEvents
    BY DEF EditorInv, IdentitiesDiffer
  <2> QED
    BY <1>2, <1>3, <2>1, <2>2, <2>3
<1>8. ViewFits'
  BY <1>2 DEF EditorInv, ViewFits
<1>9. CASE accepted
  <2>1. /\ work' = [work EXCEPT ![item] = Append(work[item], m)]
        /\ lane' = Editor!Fenced(lane, item)
        /\ posted' = posted \o Editor!FencedFailures(lane, item)
    BY <1>9 DEF Editor!Mutate
  <2>2. /\ lane' \in LaneRecords /\ posted' \in Seq(Failures)
        /\ Refusals(posted') \subseteq Refusals(posted)
        /\ lane'.active = lane.active
        /\ lane'.wanted /\ lane.active # None => lane.wanted /\ lane.active.item # item
    BY <1>1, <2>1, FencedFacts, ToldLoads DEF EditorShape
  <2> HIDE DEF m
  <2>3. /\ work' \in [Items -> Seq(Editor!Mutations)]
        /\ work'[item] = Append(work[item], m)
        /\ \A i \in Items : i # item => work'[i] = work[i]
    BY <1>1, <1>3, <2>1 DEF EditorShape
  <2>4. /\ DOMAIN work'[item] = 1 .. Len(work[item]) + 1
        /\ Len(work[item]) \in Nat /\ DOMAIN work[item] = 1 .. Len(work[item])
        /\ \A k \in DOMAIN work'[item] :
             work'[item][k] = IF k <= Len(work[item]) THEN work[item][k] ELSE m
    <3>1. work[item] \in Seq(Editor!Mutations)
      BY <1>1 DEF EditorShape
    <3> QED
      BY <1>3, <2>3, <3>1
  <2>5. EditorShape'
    BY <1>1, <1>2, <1>3, <1>5, <2>2, <2>3, EditorConstants DEF EditorShape
  <2>6. LoadsWait'
    <3> SUFFICES ASSUME lane'.active # None, lane'.wanted
                 PROVE  work'[lane'.active.item] = <<>>
      BY DEF LoadsWait
    <3>1. lane.wanted /\ lane.active.item # item /\ work[lane.active.item] = <<>>
      BY <2>2 DEF EditorInv, LoadsWait
    <3>2. lane.active.item \in Items
      BY <1>1, <2>2 DEF EditorShape, LaneRecords, Editor!Requests
    <3> QED
      BY <2>2, <2>3, <3>1, <3>2
  <2>7. IdentitiesDiffer'
    <3>0. m.id = editorEvents' /\ m.id \notin Refusals(posted)
      BY <1>2, <1>3, <1>6 DEF m, EditorInv, IdentitiesDiffer
    <3>1. \A id \in Refusals(posted') : id <= editorEvents'
      BY <1>2, <1>3, <1>6, <2>2 DEF EditorInv, IdentitiesDiffer
    <3>2. \A k \in DOMAIN work'[item] :
            /\ work'[item][k].id <= editorEvents'
            /\ work'[item][k].id \notin Refusals(posted')
            /\ \A l \in DOMAIN work'[item] :
                 k # l => work'[item][k].id # work'[item][l].id
      <4> SUFFICES ASSUME NEW k \in DOMAIN work'[item]
                   PROVE  /\ work'[item][k].id <= editorEvents'
                          /\ work'[item][k].id \notin Refusals(posted')
                          /\ \A l \in DOMAIN work'[item] :
                               k # l => work'[item][k].id # work'[item][l].id
        OBVIOUS
      <4>1. CASE k <= Len(work[item])
        <5>1. k \in DOMAIN work[item] /\ work'[item][k] = work[item][k]
          BY <2>4, <4>1
        <5>2. work[item][k].id \in Nat /\ work[item][k].id < editorEvents'
          BY <1>1, <1>7, <5>1
        <5>3. ASSUME NEW l \in DOMAIN work'[item], k # l
              PROVE  work'[item][k].id # work'[item][l].id
          <6>1. CASE l <= Len(work[item])
            <7>1. l \in DOMAIN work[item] /\ work'[item][l] = work[item][l]
              BY <2>4, <6>1
            <7> QED
              BY <1>1, <5>1, <5>3, <7>1 DEF EditorInv, IdentitiesDiffer
          <6>2. CASE ~ (l <= Len(work[item]))
            <7>1. work'[item][l] = m
              BY <2>4, <6>2
            <7> QED
              BY <1>3, <3>0, <5>1, <5>2, <7>1
          <6> QED
            BY <6>1, <6>2
        <5>4. work[item][k].id \notin Refusals(posted')
          BY <1>1, <2>2, <5>1 DEF EditorInv, IdentitiesDiffer
        <5> QED
          BY <1>3, <5>1, <5>2, <5>3, <5>4
      <4>2. CASE ~ (k <= Len(work[item]))
        <5>1. work'[item][k] = m
          BY <2>4, <4>2
        <5>2. ASSUME NEW l \in DOMAIN work'[item], k # l
              PROVE  work'[item][k].id # work'[item][l].id
          <6>1. l <= Len(work[item]) /\ l \in DOMAIN work[item]
            BY <2>4, <4>2, <5>2
          <6>2. work'[item][l] = work[item][l] /\ work[item][l].id < editorEvents'
                /\ work[item][l].id \in Nat
            BY <1>1, <1>7, <2>4, <6>1, <5>2
          <6> QED
            BY <1>3, <3>0, <5>1, <6>2
        <5> QED
          BY <1>3, <2>2, <3>0, <5>1, <5>2
      <4> QED
        BY <4>1, <4>2
    <3>3. \A i \in Items : i # item => \A k \in DOMAIN work'[i] :
            /\ work'[i][k].id <= editorEvents'
            /\ work'[i][k].id \notin Refusals(posted')
            /\ \A l \in DOMAIN work'[i] : k # l => work'[i][k].id # work'[i][l].id
      BY <1>2, <1>3, <1>7, <2>2, <2>3 DEF EditorInv, IdentitiesDiffer
    <3> QED
      BY <3>1, <3>2, <3>3 DEF IdentitiesDiffer
  <2>8. ShowsFit'
    <3> SUFFICES ASSUME editor.data PROVE ShowsFit'
      BY <1>2 DEF ShowsFit
    <3>1. CardFits(c, item) /\ \A b \in Cards : CardFits(b, item)
      BY <1>1 DEF EditorInv, ShowsFit
    <3>2. \A b \in Cards : CardFits(b, item)'
      BY <1>2, <1>4, <1>5, <3>1 DEF CardFits
    <3>3. ASSUME NEW k \in DOMAIN work'[item]
          PROVE  WorkFits(work[item][k], item)'
      <4>1. CASE k <= Len(work[item])
        <5>1. k \in DOMAIN work[item] /\ work'[item][k] = work[item][k]
          BY <2>4, <3>3, <4>1
        <5>2. WorkFits(work[item][k], item)
          BY <1>1, <5>1 DEF EditorInv, ShowsFit
        <5>3. work[item][k].card # c /\ work[item][k].card \in Cards
          BY <1>1, <1>2, <1>7, <5>1, <5>2 DEF WorkFits, Editor!Mutations
        <5> QED
          BY <1>2, <1>5, <5>1, <5>2, <5>3 DEF WorkFits
      <4>2. CASE ~ (k <= Len(work[item]))
        <5>1. work'[item][k] = m
          BY <2>4, <3>3, <4>2
        <5>2. m.card = c /\ m.image = image /\ m.id = kept.id /\ kept.previous = cards[c].image
          BY DEF m
        <5> QED
          BY <1>2, <1>4, <1>5, <3>1, <5>1, <5>2 DEF WorkFits, CardFits
      <4> QED
        BY <4>1, <4>2
    <3> QED
      BY <1>2, <3>2, <3>3 DEF ShowsFit
  <2> QED
    BY <1>8, <2>5, <2>6, <2>7, <2>8, TypeKept DEF EditorInv
<1>10. CASE ~ accepted
  <2>1. /\ posted' = Append(posted, Editor!MutationRefusal(m, item))
        /\ UNCHANGED <<work, lane>>
    BY <1>10 DEF Editor!Mutate
  <2>2. /\ Editor!MutationRefusal(m, item) \in Failures
        /\ Editor!MutationRefusal(m, item).kind = "mutation"
        /\ Editor!MutationRefusal(m, item).m.id = editorEvents'
    BY <1>1, <1>2, <1>3 DEF Editor!MutationRefusal, Failures
  <2>3. posted' \in Seq(Failures)
        /\ Refusals(posted') \subseteq Refusals(posted) \cup {editorEvents'}
    BY <1>1, <2>1, <2>2, ToldRefusal DEF EditorShape
  <2>4. EditorShape'
    BY <1>1, <1>2, <1>3, <1>5, <2>1, <2>3, EditorConstants DEF EditorShape
  <2>5. IdentitiesDiffer'
    <3>1. \A id \in Refusals(posted') : id <= editorEvents'
      BY <1>2, <1>3, <1>6, <2>3 DEF EditorInv, IdentitiesDiffer
    <3>2. \A i \in Items : \A k \in DOMAIN work[i] :
            work[i][k].id <= editorEvents' /\ work[i][k].id \notin Refusals(posted')
      BY <1>3, <1>7, <2>3 DEF EditorInv, IdentitiesDiffer
    <3> QED
      BY <2>1, <3>1, <3>2 DEF EditorInv, IdentitiesDiffer
  <2>6. LoadsWait'
    BY <2>1 DEF EditorInv, LoadsWait
  <2>7. ShowsFit'
    <3> SUFFICES ASSUME editor.data PROVE ShowsFit'
      BY <1>2 DEF ShowsFit
    <3>1. \A b \in Cards : CardFits(b, item)'
      BY <1>1, <1>2, <1>4, <1>5 DEF EditorInv, ShowsFit, CardFits
    <3>2. ASSUME NEW k \in DOMAIN work[item]
          PROVE  WorkFits(work[item][k], item)'
      <4>1. WorkFits(work[item][k], item)
        BY <1>1, <3>2 DEF EditorInv, ShowsFit
      <4>2. work[item][k].card # c /\ work[item][k].card \in Cards
        BY <1>1, <1>2, <1>7, <3>2, <4>1 DEF WorkFits, Editor!Mutations
      <4> QED
        BY <1>2, <1>5, <2>1, <4>1, <4>2 DEF WorkFits
    <3> QED
      BY <1>2, <2>1, <3>1, <3>2 DEF ShowsFit
  <2> QED
    BY <1>8, <2>4, <2>5, <2>6, <2>7, TypeKept DEF EditorInv
<1> QED
  BY <1>9, <1>10

\* A load that failed leaves the images and the records alone.
LEMMA LoadFailedFits ==
  ASSUME EditorShape, Editor!LoadFailed
  PROVE  /\ editor' \in EditorRecords /\ cards' \in [Cards -> CardRecords]
         /\ CardsStay
         /\ editor'.open = editor.open /\ editor'.item = editor.item
         /\ editor'.data = editor.data
         /\ editor'.phase = "ready" => editor'.data
<1>1. /\ editor' = [editor EXCEPT !.load = None, !.committed = {},
                                  !.phase = IF editor.data THEN "ready" ELSE "error"]
      /\ cards' = [c \in Cards |-> IF \E m \in editor.committed : m.card = c
                                     THEN [cards[c] EXCEPT !.mark = "error"] ELSE cards[c]]
  BY DEF Editor!LoadFailed
<1>2. /\ editor' \in EditorRecords
      /\ editor'.open = editor.open /\ editor'.item = editor.item
      /\ editor'.data = editor.data
      /\ editor'.phase = "ready" => editor'.data
  <2>1. editor \in EditorRecords
    BY DEF EditorShape
  <2>2. CASE editor.data
    BY <1>1, <2>1, <2>2 DEF EditorRecords
  <2>3. CASE ~ editor.data
    BY <1>1, <2>1, <2>3 DEF EditorRecords
  <2> QED
    BY <2>2, <2>3
<1>3. ASSUME NEW c \in Cards
      PROVE  /\ cards'[c] \in CardRecords /\ cards'[c].image = cards[c].image
             /\ cards'[c].record = cards[c].record
  <2>1. cards[c] \in CardRecords
    BY DEF EditorShape
  <2>2. cards'[c] = cards[c] \/ cards'[c] = [cards[c] EXCEPT !.mark = "error"]
    BY <1>1
  <2> QED
    BY <2>1, <2>2 DEF CardRecords
<1>4. cards' \in [Cards -> CardRecords]
  BY <1>1, <1>3
<1> QED
  BY <1>2, <1>3, <1>4 DEF CardsStay

\* What happens to the view when a mutation has failed, or was refused.
ViewKept ==
  /\ editor' \in EditorRecords /\ cards' \in [Cards -> CardRecords]
  /\ lane' \in LaneRecords /\ loads' \in Nat /\ posted' \in Seq(Failures)
  /\ editor'.open = editor.open /\ editor'.item = editor.item
  /\ editor'.data = editor.data
  /\ editor'.phase = "ready" => editor.phase = "ready"
LoadAsked(w) ==
  \/ lane' = lane
  \/ lane'.active # None /\ lane'.wanted =>
       lane'.active.item = editor.item /\ editor.open /\ w[editor.item] = <<>>
OthersStay(c) ==
  \A b \in Cards : b # c => cards'[b] = cards[b]

LEMMA FailureFits ==
  ASSUME EditorInv, NEW item \in Items, NEW m \in Editor!Mutations, NEW w,
         NEW told \in Seq(Failures), Editor!MutationFailed(item, m, w, told)
  PROVE  /\ ViewKept /\ LoadAsked(w) /\ Refusals(posted') \subseteq Refusals(told)
         /\ OthersStay(m.card) /\ m.card \in Cards
         /\ ~ Editor!IsCurrent(item, m) => cards' = cards
         /\ Editor!IsCurrent(item, m) =>
              /\ cards'[m.card].record = None
              /\ cards'[m.card].image = cards[m.card].record.previous
<1>1. EditorShape /\ editor \in EditorRecords /\ m.card \in Cards
  BY ShapeIsType DEF EditorInv, EditorShape, Editor!Mutations
<1>2. Editor!NoRequest(told) =>
        /\ editor' = editor /\ lane' = lane /\ loads' = loads /\ posted' = told
  BY DEF Editor!NoRequest
<1>3. CASE ~ Editor!IsCurrent(item, m)
  BY <1>1, <1>2, <1>3
  DEF Editor!MutationFailed, ViewKept, LoadAsked, OthersStay, EditorShape
<1>4. CASE Editor!IsCurrent(item, m)
  <2>1. cards' = [cards EXCEPT ![m.card] = Editor!RolledBack(cards[m.card])]
    BY <1>4 DEF Editor!MutationFailed
  <2>2. /\ editor.open /\ editor.item \in Items /\ editor.item = item
        /\ cards[m.card].record # None
    BY <1>4 DEF Editor!IsCurrent, Editor!Concerns
  <2>3. cards[m.card] \in CardRecords /\ cards[m.card].record \in Editor!Records
    BY <1>1, <2>2 DEF EditorShape, CardRecords
  <2>4. cards[m.card].record.previous \in Editor!Images
    BY <2>3 DEF Editor!Records
  <2>5. /\ Editor!RolledBack(cards[m.card]) \in CardRecords
        /\ Editor!RolledBack(cards[m.card]).record = None
        /\ Editor!RolledBack(cards[m.card]).image = cards[m.card].record.previous
    BY <2>3, <2>4 DEF Editor!RolledBack, CardRecords
  <2>6. /\ cards' \in [Cards -> CardRecords] /\ OthersStay(m.card)
        /\ cards'[m.card].record = None
        /\ cards'[m.card].image = cards[m.card].record.previous
    BY <1>1, <2>1, <2>5 DEF EditorShape, OthersStay
  <2>7. CASE Editor!RequestInitial(editor, TRUE, w, told)
    <3>1. /\ editor' \in EditorRecords /\ lane' \in LaneRecords
          /\ loads' \in Nat /\ posted' \in Seq(Failures)
          /\ Refusals(posted') \subseteq Refusals(told)
          /\ editor'.open = editor.open /\ editor'.item = editor.item
          /\ editor'.data = (TRUE /\ editor.data)
          /\ editor'.phase \in {"loading", "refreshing"}
          /\ lane'.active # None /\ lane'.wanted =>
               lane'.active.item = editor.item /\ w[editor.item] = <<>>
      BY <1>1, <2>2, <2>7, RequestFits
    <3>2. editor.data \in BOOLEAN
      BY <1>1 DEF EditorRecords
    <3>3. editor'.data = editor.data /\ editor'.phase # "ready"
      BY <3>1, <3>2
    <3> QED
      BY <1>1, <1>4, <2>2, <2>6, <3>1, <3>3 DEF ViewKept, LoadAsked
  <2>8. CASE Editor!NoRequest(told)
    BY <1>1, <1>2, <1>4, <2>6, <2>8 DEF ViewKept, LoadAsked, EditorShape
  <2> QED
    BY <1>4, <2>7, <2>8 DEF Editor!MutationFailed
<1> QED
  BY <1>3, <1>4

LEMMA SuccessFits ==
  ASSUME EditorInv, NEW item \in Items, NEW m \in Editor!Mutations, NEW w,
         Editor!MutationSucceeded(item, m, w)
  PROVE  /\ ViewKept /\ LoadAsked(w) /\ Refusals(posted') \subseteq Refusals(posted)
         /\ OthersStay(m.card) /\ m.card \in Cards
         /\ ~ Editor!IsCurrent(item, m) => cards' = cards
         /\ Editor!IsCurrent(item, m) =>
              /\ cards'[m.card].record = None
              /\ cards'[m.card].image = cards[m.card].image
<1>1. EditorShape /\ editor \in EditorRecords /\ m.card \in Cards /\ m.id \in 1 .. MaxEdits
  BY ShapeIsType DEF EditorInv, EditorShape, Editor!Mutations
<1>2. CASE ~ Editor!IsCurrent(item, m)
  BY <1>1, <1>2
  DEF Editor!MutationSucceeded, Editor!NoRequest, ViewKept, LoadAsked, OthersStay,
      EditorShape
<1>3. CASE Editor!IsCurrent(item, m)
  <2> DEFINE marked == [Editor!Marked(cards[m.card], "refreshing", m.id)
                          EXCEPT !.record = None]
             e == [editor EXCEPT !.committed = Editor!Committed(m)]
  <2>1. /\ cards' = [cards EXCEPT ![m.card] = marked]
        /\ Editor!RequestInitial(e, TRUE, w, posted)
    BY <1>3 DEF Editor!MutationSucceeded
  <2>2. editor.open /\ editor.item \in Items
    BY <1>3 DEF Editor!IsCurrent, Editor!Concerns
  <2>3. marked \in CardRecords /\ marked.record = None
        /\ marked.image = cards[m.card].image
    BY <1>1, ZenonT(30) DEF EditorShape, CardRecords, Editor!Marked
  <2> HIDE DEF marked
  <2>4. /\ cards' \in [Cards -> CardRecords] /\ OthersStay(m.card)
        /\ cards'[m.card].record = None
        /\ cards'[m.card].image = cards[m.card].image
    BY <1>1, <2>1, <2>3 DEF EditorShape, OthersStay
  <2>5. /\ e \in EditorRecords /\ e.item = editor.item /\ e.open = editor.open
        /\ e.data = editor.data
    BY <1>1 DEF EditorRecords, Editor!Committed
  <2> HIDE DEF e
  <2>6. /\ editor' \in EditorRecords /\ lane' \in LaneRecords
        /\ loads' \in Nat /\ posted' \in Seq(Failures)
        /\ Refusals(posted') \subseteq Refusals(posted)
        /\ editor'.open = e.open /\ editor'.item = e.item
        /\ editor'.data = (TRUE /\ e.data)
        /\ editor'.phase \in {"loading", "refreshing"}
        /\ lane'.active # None /\ lane'.wanted =>
             lane'.active.item = e.item /\ w[e.item] = <<>>
    BY <1>1, <2>1, <2>2, <2>5, RequestFits DEF EditorShape
  <2>7. editor.data \in BOOLEAN
    BY <1>1 DEF EditorRecords
  <2>8. editor'.data = editor.data /\ editor'.phase # "ready"
    BY <2>5, <2>6, <2>7
  <2> QED
    BY <1>1, <1>3, <2>2, <2>4, <2>5, <2>6, <2>8 DEF ViewKept, LoadAsked
<1> QED
  BY <1>2, <1>3

LEMMA HearFailureKeeps ==
  ASSUME EditorInv, Editor!HearFailure
  PROVE  EditorInv'
<1>1. EditorShape /\ posted # <<>> /\ posted \in Seq(Failures)
      /\ work' = work /\ images' = images /\ editorEvents' = editorEvents
      /\ editorEvents \in 0 .. MaxEdits
  BY ShapeIsType DEF EditorInv, EditorShape, Editor!HearFailure
<1>2. /\ Head(posted) \in Failures /\ Tail(posted) \in Seq(Failures)
      /\ Refusals(Tail(posted)) \subseteq Refusals(posted)
      /\ Head(posted).kind = "mutation" => Head(posted).m.id \in Refusals(posted)
  BY <1>1, HeardFailure
<1>3. CASE Head(posted).kind = "load" /\ Editor!HearLoadFailure(Head(posted))
  <2>1. posted' = Tail(posted) /\ lane' = lane /\ unsure' = unsure /\ loads' = loads
    BY <1>3 DEF Editor!HearLoadFailure
  <2>2. Calm
    BY <1>1, <1>2, <2>1, EditorConstants DEF Calm
  <2>3. Editor!LoadFailed \/ UNCHANGED <<editor, cards>>
    BY <1>3 DEF Editor!HearLoadFailure
  <2>4. /\ editor' \in EditorRecords /\ cards' \in [Cards -> CardRecords] /\ CardsStay
        /\ editor'.open = editor.open /\ editor'.item = editor.item
        /\ editor'.data = editor.data
        /\ editor'.open /\ editor'.phase = "ready" => editor'.data
    <3>1. CASE Editor!LoadFailed
      BY <1>1, <3>1, LoadFailedFits
    <3>2. CASE UNCHANGED <<editor, cards>>
      BY <1>1, <3>2 DEF EditorShape, CardsStay, EditorInv, ViewFits
    <3> QED
      BY <2>3, <3>1, <3>2
  <2>5. EditorShape'
    BY <1>1, <1>2, <2>1, <2>4 DEF EditorShape
  <2>6. ViewFits' /\ LoadsWait'
    BY <1>1, <2>1, <2>4 DEF EditorInv, ViewFits, LoadsWait
  <2>7. ShowsFit'
    BY <2>1, <2>2, <2>4, ShowsStay
  <2> QED
    BY <2>2, <2>5, <2>6, <2>7, CalmIdentities, TypeKept DEF EditorInv
<1>4. CASE Head(posted).kind = "mutation" /\ Editor!HearRefusal(Head(posted))
  <2> DEFINE f == Head(posted)
  <2>1. f.item \in Items /\ f.m \in Editor!Mutations /\ f.m.id \in Refusals(posted)
    BY <1>2, <1>4 DEF Failures
  <2>2. /\ unsure' = unsure \cup {<<f.item, f.m.card>>}
        /\ Editor!MutationFailed(f.item, f.m, work, Tail(posted))
    BY <1>4 DEF Editor!HearRefusal
  <2> HIDE DEF f
  <2>3. /\ ViewKept /\ LoadAsked(work) /\ Refusals(posted') \subseteq Refusals(Tail(posted))
        /\ OthersStay(f.m.card) /\ f.m.card \in Cards
        /\ ~ Editor!IsCurrent(f.item, f.m) => cards' = cards
        /\ Editor!IsCurrent(f.item, f.m) =>
             /\ cards'[f.m.card].record = None
             /\ cards'[f.m.card].image = cards[f.m.card].record.previous
    BY <1>2, <2>1, <2>2, FailureFits
  <2>4. Calm
    BY <1>1, <1>2, <2>3, EditorConstants DEF Calm
  <2>5. EditorShape'
    BY <1>1, <2>1, <2>2, <2>3 DEF EditorShape, ViewKept
  <2>6. LoadsWait' /\ ViewFits'
    BY <1>1, <2>3 DEF EditorInv, LoadsWait, ViewFits, ViewKept, LoadAsked
  <2>7. ShowsFit'
    <3> SUFFICES ASSUME editor.open, editor.data PROVE ShowsFit'
      BY <2>3 DEF ShowsFit, ViewKept
    <3>1. editor'.item = editor.item /\ editor.item \in Items
      BY <2>3 DEF ViewKept, EditorInv, ViewFits
    <3>2. ASSUME NEW c \in Cards PROVE CardFits(c, editor.item)'
      <4>1. CardFits(c, editor.item)
        BY DEF EditorInv, ShowsFit
      <4>2. CASE Editor!IsCurrent(f.item, f.m) /\ c = f.m.card
        BY <2>2, <3>1, <4>2 DEF CardFits, Editor!IsCurrent, Editor!Concerns
      <4>3. CASE ~ (Editor!IsCurrent(f.item, f.m) /\ c = f.m.card)
        BY <1>1, <2>2, <2>3, <3>1, <4>1, <4>3 DEF CardFits, OthersStay
      <4> QED
        BY <4>2, <4>3
    <3>3. ASSUME NEW k \in DOMAIN work[editor.item]
          PROVE  WorkFits(work[editor.item][k], editor.item)'
      <4>1. WorkFits(work[editor.item][k], editor.item)
        BY DEF EditorInv, ShowsFit
      <4>2. work[editor.item][k].id \notin Refusals(posted)
        BY <3>1 DEF EditorInv, IdentitiesDiffer
      <4>3. work[editor.item][k].card \in Cards
        <5>1. work[editor.item][k] \in Editor!Mutations
          BY <1>1, <3>1 DEF EditorShape
        <5> QED
          BY <5>1 DEF Editor!Mutations
      <4>4. cards'[work[editor.item][k].card] = cards[work[editor.item][k].card]
        BY <2>1, <2>3, <4>1, <4>2, <4>3
        DEF OthersStay, WorkFits, Editor!IsCurrent
      <4> QED
        BY <1>1, <2>2, <3>1, <4>1, <4>4 DEF WorkFits
    <3> QED
      BY <1>1, <3>1, <3>2, <3>3 DEF ShowsFit
  <2> QED
    BY <2>4, <2>5, <2>6, <2>7, CalmIdentities, TypeKept DEF EditorInv
<1> QED
  BY <1>3, <1>4 DEF Editor!HearFailure

\* The answer to the oldest mutation of an item.
LEMMA AnswerMutationKeeps ==
  ASSUME EditorInv, NEW item \in Items, NEW applied \in BOOLEAN, NEW ok \in BOOLEAN,
         Editor!AnswerMutation(item, applied, ok)
  PROVE  EditorInv'
<1> DEFINE m == Head(work[item])
           w == [work EXCEPT ![item] = Tail(work[item])]
<1>1. EditorShape /\ work[item] \in Seq(Editor!Mutations) /\ work[item] # <<>>
  BY ShapeIsType DEF EditorInv, EditorShape, Editor!AnswerMutation
<1>2. /\ ok => applied
      /\ work' = w /\ editorEvents' = editorEvents
      /\ images' = IF applied THEN [images EXCEPT ![item][m.card] = m.image] ELSE images
      /\ unsure' = IF ~ applied THEN unsure
                   ELSE IF ok THEN unsure \ {<<item, m.card>>}
                   ELSE unsure \cup {<<item, m.card>>}
      /\ IF ok THEN Editor!MutationSucceeded(item, m, w)
               ELSE Editor!MutationFailed(item, m, w, posted)
  BY DEF Editor!AnswerMutation
<1>3. /\ m \in Editor!Mutations /\ m = work[item][1] /\ 1 \in DOMAIN work[item]
      /\ Tail(work[item]) \in Seq(Editor!Mutations)
      /\ \A k \in DOMAIN Tail(work[item]) :
           k + 1 \in DOMAIN work[item] /\ k + 1 # 1
           /\ Tail(work[item])[k] = work[item][k + 1]
  BY <1>1
<1>4. /\ work' \in [Items -> Seq(Editor!Mutations)]
      /\ work'[item] = Tail(work[item]) /\ w[item] = Tail(work[item])
      /\ \A i \in Items : i # item => work'[i] = work[i]
  BY <1>1, <1>2, <1>3 DEF EditorShape
<1> HIDE DEF m, w
<1>5. m.card \in Cards /\ m.image \in Editor!Images
  BY <1>3 DEF Editor!Mutations
<1>6. /\ ViewKept /\ LoadAsked(w) /\ Refusals(posted') \subseteq Refusals(posted)
      /\ OthersStay(m.card)
      /\ ~ Editor!IsCurrent(item, m) => cards' = cards
      /\ Editor!IsCurrent(item, m) =>
           /\ cards'[m.card].record = None
           /\ cards'[m.card].image = IF ok THEN cards[m.card].image
                                     ELSE cards[m.card].record.previous
  <2>1. CASE ok
    BY <1>2, <1>3, <2>1, SuccessFits
  <2>2. CASE ~ ok
    BY <1>1, <1>2, <1>3, <2>2, FailureFits DEF EditorShape
  <2> QED
    BY <2>1, <2>2
<1>7. /\ images' \in [Items -> [Cards -> Editor!Images]]
      /\ images'[item][m.card] = IF applied THEN m.image ELSE images[item][m.card]
      /\ \A i \in Items, c \in Cards :
           ~ (i = item /\ c = m.card) => images'[i][c] = images[i][c]
  BY <1>1, <1>2, <1>5 DEF EditorShape
<1>8. unsure' \subseteq Items \X Cards
      /\ \A i \in Items, c \in Cards :
           ~ (i = item /\ c = m.card) => (<<i, c>> \in unsure' <=> <<i, c>> \in unsure)
  BY <1>1, <1>2, <1>5 DEF EditorShape
<1>9. EditorShape'
  BY <1>1, <1>2, <1>4, <1>6, <1>7, <1>8 DEF EditorShape, ViewKept
<1>10. LoadsWait'
  <2> SUFFICES ASSUME lane'.active # None, lane'.wanted
               PROVE  work'[lane'.active.item] = <<>>
    BY DEF LoadsWait
  <2>1. CASE lane' = lane
    <3>1. work[lane.active.item] = <<>> /\ lane.active.item \in Items
      BY <1>1, <2>1 DEF EditorInv, LoadsWait, EditorShape, LaneRecords, Editor!Requests
    <3>2. lane.active.item # item
      BY <1>1, <3>1
    <3> QED
      BY <1>4, <2>1, <3>1, <3>2
  <2>2. CASE lane' # lane
    BY <1>2, <1>6, <2>2 DEF LoadAsked
  <2> QED
    BY <2>1, <2>2
<1>11. IdentitiesDiffer'
  <2>1. \A id \in Refusals(posted') : id <= editorEvents'
    BY <1>2, <1>6 DEF EditorInv, IdentitiesDiffer
  <2>2. \A i \in Items : i # item => \A k \in DOMAIN work'[i] :
          /\ work'[i][k].id <= editorEvents'
          /\ work'[i][k].id \notin Refusals(posted')
          /\ \A l \in DOMAIN work'[i] : k # l => work'[i][k].id # work'[i][l].id
    BY <1>2, <1>4, <1>6 DEF EditorInv, IdentitiesDiffer
  <2>3. ASSUME NEW k \in DOMAIN work'[item]
        PROVE  /\ work'[item][k].id <= editorEvents'
               /\ work'[item][k].id \notin Refusals(posted')
               /\ \A l \in DOMAIN work'[item] : k # l => work'[item][k].id # work'[item][l].id
    <3>1. k + 1 \in DOMAIN work[item] /\ work'[item][k] = work[item][k + 1]
      BY <1>3, <1>4
    <3>2. ASSUME NEW l \in DOMAIN work'[item], k # l
          PROVE  work'[item][k].id # work'[item][l].id
      <4>1. /\ l + 1 \in DOMAIN work[item] /\ work'[item][l] = work[item][l + 1]
            /\ k \in Nat /\ l \in Nat
        BY <1>3, <1>4
      <4>2. k + 1 # l + 1
        BY <3>2, <4>1
      <4> QED
        BY <3>1, <4>1, <4>2 DEF EditorInv, IdentitiesDiffer
    <3> QED
      BY <1>2, <1>6, <3>1, <3>2 DEF EditorInv, IdentitiesDiffer
  <2> QED
    BY <2>1, <2>2, <2>3 DEF IdentitiesDiffer
<1>12. ViewFits'
  BY <1>6 DEF EditorInv, ViewFits, ViewKept
<1>13. ShowsFit'
  <2> SUFFICES ASSUME editor.open, editor.data PROVE ShowsFit'
    BY <1>6 DEF ShowsFit, ViewKept
  <2> DEFINE shows == editor.item
  <2>1. editor'.item = shows /\ shows \in Items /\ editor'.open /\ editor'.data
    BY <1>6 DEF EditorInv, ViewFits, ViewKept
  <2>2. \A c \in Cards : CardFits(c, shows)
    BY DEF EditorInv, ShowsFit
  <2>3. \A k \in DOMAIN work[shows] :
          /\ WorkFits(work[shows][k], shows)
          /\ work[shows][k].card \in Cards
    <3>1. \A k \in DOMAIN work[shows] : work[shows][k] \in Editor!Mutations
      BY <1>1, <2>1 DEF EditorShape
    <3> QED
      BY <3>1 DEF EditorInv, ShowsFit, Editor!Mutations
  <2>4. CASE shows # item
    <3>1. cards' = cards
      BY <1>6, <2>4 DEF Editor!IsCurrent, Editor!Concerns
    <3>2. \A c \in Cards : CardFits(c, editor.item)'
      BY <1>7, <1>8, <2>1, <2>2, <2>4, <3>1 DEF CardFits
    <3>3. ASSUME NEW k \in DOMAIN work'[shows]
          PROVE  WorkFits(work[editor.item][k], editor.item)'
      <4>1. work'[shows] = work[shows]
        BY <1>4, <2>1, <2>4
      <4> DEFINE n == work[shows][k]
      <4>2. WorkFits(n, shows) /\ n.card \in Cards
        BY <2>3, <4>1
      <4>3. /\ images'[shows][n.card] = images[shows][n.card]
            /\ <<shows, n.card>> \in unsure' <=> <<shows, n.card>> \in unsure
        BY <1>7, <1>8, <2>1, <2>4, <4>2
      <4>4. work'[editor'.item][k] = n /\ editor'.item = shows
        BY <2>1, <4>1
      <4> HIDE DEF n, shows
      <4> QED
        BY <3>1, <4>2, <4>3, <4>4 DEF WorkFits
    <3> QED
      BY <2>1, <3>2, <3>3 DEF ShowsFit
  <2>5. CASE shows = item
    <3>1. WorkFits(m, item) /\ Editor!IsCurrent(item, m)
      BY <1>3, <2>3, <2>5 DEF WorkFits, Editor!IsCurrent, Editor!Concerns
    <3>2. /\ cards'[m.card].record = None
          /\ cards'[m.card].image = IF ok THEN cards[m.card].image
                                    ELSE cards[m.card].record.previous
      BY <1>6, <3>1
    <3>3. ASSUME NEW c \in Cards PROVE CardFits(c, editor.item)'
      <4>1. CASE c # m.card
        BY <1>6, <1>7, <1>8, <2>1, <2>2, <2>5, <4>1 DEF CardFits, OthersStay
      <4>2. CASE c = m.card
        <5>1. CASE ok
          BY <1>2, <1>7, <2>1, <2>5, <3>1, <3>2, <4>2, <5>1 DEF CardFits, WorkFits
        <5>2. CASE ~ ok /\ applied
          BY <1>2, <2>1, <2>5, <4>2, <5>2 DEF CardFits
        <5>3. CASE ~ ok /\ ~ applied
          BY <1>2, <1>7, <2>1, <2>5, <3>1, <3>2, <4>2, <5>3 DEF CardFits, WorkFits
        <5> QED
          BY <5>1, <5>2, <5>3
      <4> QED
        BY <4>1, <4>2
    <3>4. ASSUME NEW k \in DOMAIN work'[shows]
          PROVE  WorkFits(work[editor.item][k], editor.item)'
      <4>1. k + 1 \in DOMAIN work[item] /\ k + 1 # 1 /\ work'[item][k] = work[item][k + 1]
        BY <1>3, <1>4, <2>5, <3>4
      <4>2. WorkFits(work[item][k + 1], item) /\ work[item][k + 1].card \in Cards
        BY <2>3, <2>5, <4>1
      <4>3. work[item][k + 1].id # m.id
        BY <1>3, <4>1 DEF EditorInv, IdentitiesDiffer
      <4>4. work[item][k + 1].card # m.card
        BY <3>1, <4>2, <4>3 DEF WorkFits
      <4> DEFINE n == work[item][k + 1]
      <4>5. /\ cards'[n.card] = cards[n.card]
            /\ images'[item][n.card] = images[item][n.card]
            /\ <<item, n.card>> \in unsure' <=> <<item, n.card>> \in unsure
        BY <1>6, <1>7, <1>8, <2>1, <2>5, <4>2, <4>4 DEF OthersStay
      <4>6. work'[editor'.item][k] = n /\ editor'.item = item
        BY <2>1, <2>5, <4>1
      <4> HIDE DEF n
      <4>7. WorkFits(n, item)
        BY <4>2 DEF n
      <4> QED
        BY <4>5, <4>6, <4>7 DEF WorkFits
    <3> QED
      BY <2>1, <3>3, <3>4 DEF ShowsFit
  <2> QED
    BY <2>4, <2>5
<1> QED
  BY <1>9, <1>10, <1>11, <1>12, <1>13, TypeKept DEF EditorInv

LEMMA AnswerLoadKeeps ==
  ASSUME EditorInv, NEW ok \in BOOLEAN, Editor!AnswerLoad(ok)
  PROVE  EditorInv'
<1> DEFINE r == lane.active
<1>1. /\ EditorShape /\ r # None
      /\ lane' = [lane EXCEPT !.active = None, !.wanted = FALSE]
      /\ UNCHANGED <<work, posted, images, loads, editorEvents>>
      /\ editorEvents \in 0 .. MaxEdits
  BY ShapeIsType DEF EditorInv, Editor!AnswerLoad, EditorShape
<1>2. lane' \in LaneRecords /\ lane'.active = None /\ r.item \in Items
  BY <1>1 DEF EditorShape, LaneRecords, Editor!Requests
<1>3. Calm
  BY <1>1, EditorConstants DEF Calm
<1>4. LoadsWait'
  BY <1>2 DEF LoadsWait
<1>5. CASE UNCHANGED <<editor, cards, unsure>>
  <2>1. EditorShape'
    BY <1>1, <1>2, <1>5 DEF EditorShape
  <2>2. ShowsFit'
    BY <1>3, <1>5, ShowsStay DEF CardsStay
  <2>3. ViewFits'
    BY <1>5 DEF EditorInv, ViewFits
  <2> QED
    BY <1>3, <1>4, <2>1, <2>2, <2>3, CalmIdentities, TypeKept DEF EditorInv
<1>6. CASE Editor!LoadFailed /\ unsure' = unsure
  <2>1. /\ editor' \in EditorRecords /\ cards' \in [Cards -> CardRecords]
        /\ CardsStay
        /\ editor'.open = editor.open /\ editor'.item = editor.item
        /\ editor'.data = editor.data
        /\ editor'.phase = "ready" => editor'.data
    BY <1>1, <1>6, LoadFailedFits
  <2>2. EditorShape'
    BY <1>1, <1>2, <1>6, <2>1 DEF EditorShape
  <2>3. ShowsFit'
    BY <1>3, <1>6, <2>1, ShowsStay
  <2>4. ViewFits'
    BY <2>1 DEF EditorInv, ViewFits
  <2> QED
    BY <1>3, <1>4, <2>2, <2>3, <2>4, CalmIdentities, TypeKept DEF EditorInv
<1>7. CASE /\ lane.wanted /\ Editor!IsAwaited(r.id, r.item)
           /\ Editor!Loaded(images[r.item])
           /\ unsure' = {u \in unsure : u[1] # r.item}
  <2>1. editor.open /\ editor.item = r.item /\ work[r.item] = <<>>
    BY <1>1, <1>7 DEF Editor!IsAwaited, Editor!Concerns, EditorInv, LoadsWait
  <2>2. editor' = [editor EXCEPT !.load = None, !.phase = "ready", !.data = TRUE,
                                 !.committed = {}]
    BY <1>7 DEF Editor!Loaded
  <2>3. /\ editor' \in EditorRecords
        /\ editor'.open = editor.open /\ editor'.item = editor.item /\ editor'.data
    BY <1>1, <2>2 DEF EditorShape, EditorRecords
  <2>4. ASSUME NEW c \in Cards
        PROVE  cards'[c] \in CardRecords /\ cards'[c].image = images[r.item][c]
    <3> DEFINE fresh == [cards[c] EXCEPT !.image = images[r.item][c]]
    <3>1. cards'[c] = fresh \/ cards'[c] = Editor!Marked(fresh, "none", None)
      BY <1>7 DEF Editor!Loaded
    <3>2. images[r.item][c] \in Editor!Images /\ cards[c] \in CardRecords
      BY <1>1, <1>2 DEF EditorShape
    <3>3. fresh \in CardRecords /\ fresh.image = images[r.item][c]
      BY <3>2 DEF CardRecords
    <3> HIDE DEF fresh
    <3>4. /\ Editor!Marked(fresh, "none", None) \in CardRecords
          /\ Editor!Marked(fresh, "none", None).image = images[r.item][c]
      BY <3>3 DEF CardRecords, Editor!Marked
    <3> QED
      BY <3>1, <3>3, <3>4
  <2>5. cards' \in [Cards -> CardRecords]
    <3>1. DOMAIN cards' = Cards /\ cards' = [c \in Cards |-> cards'[c]]
      BY <1>7 DEF Editor!Loaded
    <3> QED
      BY <2>4, <3>1
  <2>6. EditorShape'
    BY <1>1, <1>2, <1>7, <2>3, <2>5 DEF EditorShape
  <2>7. ShowsFit' /\ ViewFits'
    BY <1>1, <1>2, <2>1, <2>3, <2>4 DEF ShowsFit, CardFits, ViewFits
  <2> QED
    BY <1>3, <1>4, <2>6, <2>7, CalmIdentities, TypeKept DEF EditorInv
<1> QED
  BY <1>5, <1>6, <1>7 DEF Editor!AnswerLoad

LEMMA PumpInteractiveKeeps ==
  ASSUME EditorInv, Editor!PumpInteractive
  PROVE  EditorInv'
<1>1. /\ EditorShape
      /\ lane' = [active |-> lane.queued, wanted |-> TRUE, queued |-> None]
      /\ lane.queued # None /\ work[lane.queued.item] = <<>>
      /\ UNCHANGED <<editor, cards, work, posted, images, unsure, loads, editorEvents>>
      /\ editorEvents \in 0 .. MaxEdits
  BY ShapeIsType DEF EditorInv, Editor!PumpInteractive, Editor!Blocked, EditorShape
<1>2. Calm /\ CardsStay
  BY <1>1, EditorConstants DEF Calm, CardsStay
<1>3. lane' \in LaneRecords
  BY <1>1 DEF EditorShape, LaneRecords
<1>4. EditorShape'
  BY <1>1, <1>3 DEF EditorShape
<1>5. LoadsWait' /\ ViewFits'
  BY <1>1 DEF EditorInv, LoadsWait, ViewFits
<1>6. ShowsFit'
  BY <1>1, <1>2, ShowsStay
<1> QED
  BY <1>2, <1>4, <1>5, <1>6, CalmIdentities, TypeKept DEF EditorInv

LEMMA EditorKeeps ==
  ASSUME EditorInv, [Editor!Next]_(Editor!vars)
  PROVE  EditorInv'
<1>1. CASE UNCHANGED Editor!vars
  <2>1. EditorShape
    BY ShapeIsType DEF EditorInv
  <2>2. UNCHANGED <<editor, cards, lane, work, posted, images, unsure, loads, editorEvents>>
    BY <1>1 DEF Editor!vars
  <2>3. Calm /\ CardsStay
    BY <2>1, <2>2, EditorConstants DEF Calm, CardsStay, EditorShape
  <2>4. EditorShape'
    BY <2>1, <2>2 DEF EditorShape
  <2>5. LoadsWait' /\ ViewFits'
    BY <2>2 DEF EditorInv, LoadsWait, ViewFits
  <2> QED
    BY <2>2, <2>3, <2>4, <2>5, ShowsStay, CalmIdentities, TypeKept DEF EditorInv
<1>2. CASE Editor!Next
  BY <1>2, OpenKeeps, DismissKeeps, RetryKeeps, MutateKeeps, HearFailureKeeps,
     AnswerMutationKeeps, AnswerLoadKeeps, PumpInteractiveKeeps
  DEF Editor!Next
<1> QED
  BY <1>1, <1>2

\* ImageEditorViewModel.cpp, for any number of items, cards, mutations and
\* failures: a view that is ready shows what the server has, on every card
\* that no mutation changes and whose last one is not in doubt.
THEOREM ShownIsAlwaysServers == Spec => []ShownIsServers
<1>1. Init => EditorInv
  BY EditorInit DEF Init
<1>2. EditorInv /\ [Next]_vars => EditorInv'
  BY ServiceSteps, EditorKeeps
<1>3. EditorInv => ShownIsServers
  BY DEF EditorInv, ViewFits, ShowsFit, CardFits, ShownIsServers, Editor!ShownIsServers
<1> QED
  BY <1>1, <1>2, <1>3, PTL DEF Spec

-----------------------------------------------------------------------------
\* MediaStore: numbers in order, and what a filter keeps.

\* Every finite set of numbers can be listed in order: otherwise some smallest
\* set could not, and without its least element it could.
LEMMA OrderExists ==
  ASSUME NEW S \in SUBSET Nat, IsFiniteSet(S)
  PROVE  \E s \in [1 .. Cardinality(S) -> S] :
           Store!Increasing(s) /\ Store!ToSet(s) = S
<1> DEFINE Listed(A) == \E s \in [1 .. Cardinality(A) -> A] :
                          Store!Increasing(s) /\ Store!ToSet(s) = A
           Bad == {n \in Nat : \E A \in SUBSET Nat :
                     IsFiniteSet(A) /\ Cardinality(A) = n /\ ~ Listed(A)}
<1> HIDE DEF Listed
<1>1. SUFFICES ASSUME Bad # {} PROVE FALSE
  <2>1. Cardinality(S) \in Nat
    BY FS_CardinalityType
  <2>2. Bad = {} => Listed(S)
    BY <2>1
  <2> QED
    BY <2>2 DEF Listed
<1>2. PICK n \in Bad : \A k \in Bad : n <= k
  BY <1>1, LeastNumber
<1>3. PICK A \in SUBSET Nat : IsFiniteSet(A) /\ Cardinality(A) = n /\ ~ Listed(A)
  OBVIOUS
<1>4. CASE A = {}
  <2>1. n = 0
    BY <1>3, <1>4, FS_EmptySet
  <2>2. <<>> \in [1 .. 0 -> A] /\ Store!Increasing(<<>>) /\ Store!ToSet(<<>>) = A
    BY <1>4 DEF Store!Increasing, Store!ToSet
  <2> QED
    BY <1>3, <2>1, <2>2 DEF Listed
<1>5. CASE A # {}
  <2>1. PICK l \in A : \A x \in A : l <= x
    BY <1>5, LeastNumber
  <2> DEFINE B == A \ {l}
  <2>2. B \in SUBSET Nat /\ IsFiniteSet(B) /\ Cardinality(B) = n - 1 /\ n \in Nat
    BY <1>3, FS_RemoveElement
  <2>3. n - 1 \in Nat
    BY <2>2, FS_CardinalityType
  <2>4. n - 1 \notin Bad
    BY <1>2, <2>2, <2>3
  <2>5. Listed(B)
    BY <2>2, <2>3, <2>4
  <2>6. PICK s \in [1 .. n - 1 -> B] : Store!Increasing(s) /\ Store!ToSet(s) = B
    BY <2>2, <2>5 DEF Listed
  <2> DEFINE t == [k \in 1 .. n |-> IF k = 1 THEN l ELSE s[k - 1]]
  <2>7. \A k \in 1 .. n : k # 1 => k - 1 \in 1 .. n - 1
    BY <2>2
  <2>8. t \in [1 .. n -> A]
    BY <2>6, <2>7
  <2>9. ASSUME NEW k \in 1 .. n - 1 PROVE s[k] \in Nat /\ l < s[k]
    <3>1. s[k] \in A /\ s[k] # l
      BY <2>6
    <3>2. l <= s[k] /\ l \in Nat /\ s[k] \in Nat
      BY <2>1, <3>1
    <3> QED
      BY <3>1, <3>2
  <2>10. Store!Increasing(t)
    <3> SUFFICES ASSUME NEW i \in 1 .. n, NEW j \in 1 .. n, i < j
                 PROVE  t[i] < t[j]
      BY DEF Store!Increasing
    <3>1. j # 1 /\ j - 1 \in 1 .. n - 1 /\ t[j] = s[j - 1]
      BY <2>2, <2>7
    <3>2. CASE i = 1
      BY <2>9, <3>1, <3>2
    <3>3. CASE i # 1
      <4>1. i - 1 \in 1 .. n - 1 /\ t[i] = s[i - 1] /\ i - 1 < j - 1
        BY <2>7, <3>3
      <4> QED
        BY <2>6, <3>1, <4>1 DEF Store!Increasing
    <3> QED
      BY <3>2, <3>3
  <2>11. Store!ToSet(t) = A
    <3>1. Store!ToSet(t) \subseteq A
      BY <2>8 DEF Store!ToSet
    <3>2. ASSUME NEW x \in A PROVE x \in Store!ToSet(t)
      <4>1. CASE x = l
        <5>1. 1 \in 1 .. n /\ t[1] = l
          BY <2>2, <2>3
        <5> QED
          BY <4>1, <5>1 DEF Store!ToSet
      <4>2. CASE x # l
        <5>1. PICK k \in 1 .. n - 1 : s[k] = x
          BY <2>6, <4>2 DEF Store!ToSet
        <5>2. k + 1 \in 1 .. n /\ k + 1 # 1 /\ (k + 1) - 1 = k
          BY <2>2
        <5>3. t[k + 1] = x
          BY <5>1, <5>2
        <5> QED
          BY <5>2, <5>3 DEF Store!ToSet
      <4> QED
        BY <4>1, <4>2
    <3> QED
      BY <3>1, <3>2
  <2> HIDE DEF t
  <2> QED
    BY <1>3, <2>8, <2>10, <2>11 DEF Listed
<1> QED
  BY <1>4, <1>5

LEMMA SameCardinality ==
  ASSUME NEW S
  PROVE  /\ Store!Cardinality(S) = Cardinality(S)
         /\ Store!IsFiniteSet(S) <=> IsFiniteSet(S)
  BY DEF Store!Cardinality, Cardinality, Store!IsFiniteSet, IsFiniteSet

LEMMA InOrderFacts ==
  ASSUME NEW S \in SUBSET Nat, IsFiniteSet(S)
  PROVE  /\ Store!InOrder(S) \in Seq(S)
         /\ Store!Increasing(Store!InOrder(S))
         /\ Store!ToSet(Store!InOrder(S)) = S
<1>1. Store!InOrder(S) \in [1 .. Cardinality(S) -> S]
      /\ Store!Increasing(Store!InOrder(S))
      /\ Store!ToSet(Store!InOrder(S)) = S
  BY OrderExists, SameCardinality DEF Store!InOrder
<1>2. Cardinality(S) \in Nat
  BY FS_CardinalityType
<1> HIDE DEF Store!InOrder
<1>3. Store!InOrder(S) \in Seq(S)
  BY <1>1, <1>2
<1> QED
  BY <1>1, <1>3

\* A list with numbers up to a length.
LEMMA UpTo ==
  ASSUME NEW n \in Nat, NEW S \in SUBSET (1 .. n)
  PROVE  S \in SUBSET Nat /\ IsFiniteSet(S)
<1>1. IsFiniteSet(1 .. n)
  BY FS_Interval
<1>2. IsFiniteSet(S)
  BY <1>1, FS_Subset
<1> QED
  BY <1>2

\* What is picked of a list are its entries at those places, in its order.
LEMMA PickedFacts ==
  ASSUME NEW list \in Seq(Nat), NEW places \in SUBSET DOMAIN list
  PROVE  /\ Store!Picked(list, places) \in Seq(Nat)
         /\ Store!ToSet(Store!Picked(list, places)) = {list[n] : n \in places}
         /\ Store!Increasing(list) =>
              Store!Increasing(Store!Picked(list, places))
<1> DEFINE at == Store!InOrder(places)
           p == [n \in DOMAIN at |-> list[at[n]]]
<1>1. at \in Seq(places) /\ Store!Increasing(at) /\ Store!ToSet(at) = places
  <2>1. Len(list) \in Nat /\ DOMAIN list = 1 .. Len(list)
    OBVIOUS
  <2>2. places \in SUBSET Nat /\ IsFiniteSet(places)
    BY <2>1, UpTo
  <2> QED
    BY <2>2, InOrderFacts
<1>2. Store!Picked(list, places) = p
  BY DEF Store!Picked
<1> HIDE DEF at
<1>3. \A n \in DOMAIN at : at[n] \in places /\ list[at[n]] \in Nat
  BY <1>1
<1>4. p \in Seq(Nat)
  BY <1>1, <1>3
<1>5. Store!ToSet(p) = {list[n] : n \in places}
  BY <1>1, <1>3 DEF Store!ToSet
<1>6. Store!Increasing(list) => Store!Increasing(p)
  BY <1>1, <1>3 DEF Store!Increasing
<1> QED
  BY <1>2, <1>4, <1>5, <1>6

-----------------------------------------------------------------------------
\* MediaStore: the search model.

Texts == Seq(SUBSET Grams)

\* A result shows the rows that match, each once and in order.
Matches(r, text, texts) ==
  /\ Store!Increasing(r)
  /\ Store!ToSet(r) = {i \in DOMAIN texts : text \subseteq texts[i]}

\* The lists miss no row; only stale ones may be out of order.
Covers(lists, texts, sorting) ==
  /\ lists \in [Grams -> Seq(Nat)]
  /\ \A g \in Grams :
       /\ \A i \in DOMAIN texts : g \in texts[i] => i \in Store!ToSet(lists[g])
       /\ Store!ToSet(lists[g]) \subseteq DOMAIN texts
       /\ ~ sorting => Store!Increasing(lists[g])

IndexHolds ==
  /\ indexed \in Texts /\ unsorted \in BOOLEAN /\ needle \subseteq Grams
  /\ indexed = Store!Indexed(fields, rows)
  /\ Covers(postings, indexed, unsorted)
  /\ Matches(results, needle, indexed)

LEMMA KeptFacts ==
  ASSUME NEW text, NEW texts, NEW list \in Seq(Nat), NEW sorting \in BOOLEAN,
         ~ sorting => Store!Increasing(list)
  PROVE  /\ Store!Increasing(Store!Kept(text, texts, list, sorting))
         /\ \A i : i \in Store!ToSet(Store!Kept(text, texts, list, sorting)) <=>
                  i \in Store!ToSet(list) /\ text \subseteq texts[i]
<1> DEFINE places == {n \in DOMAIN list : text \subseteq texts[list[n]]}
           hits == {list[n] : n \in places}
<1>1. hits = {i \in Store!ToSet(list) : text \subseteq texts[i]}
  BY DEF Store!ToSet
<1>2. Store!Kept(text, texts, list, sorting) =
        IF sorting THEN Store!InOrder(hits) ELSE Store!Picked(list, places)
  BY DEF Store!Kept
<1>3. places \in SUBSET DOMAIN list
  OBVIOUS
<1> HIDE DEF places
<1>4. hits \in SUBSET Nat
  BY <1>3
<1>5. IsFiniteSet(hits)
  <2>1. IsFiniteSet(DOMAIN list)
    <3>1. Len(list) \in Nat /\ DOMAIN list = 1 .. Len(list)
      OBVIOUS
    <3> QED
      BY <3>1, FS_Interval
  <2>2. IsFiniteSet(places)
    BY <1>3, <2>1, FS_Subset
  <2>3. [n \in places |-> list[n]] \in Surjection(places, hits)
    BY DEF Surjection
  <2> QED
    BY <2>2, <2>3, FS_Surjection
<1> HIDE DEF hits
<1>6. CASE sorting
  BY <1>1, <1>2, <1>4, <1>5, <1>6, InOrderFacts
<1>7. CASE ~ sorting
  <2>1. Store!ToSet(Store!Picked(list, places)) = hits
    BY <1>3, PickedFacts DEF hits
  <2>2. Store!Increasing(Store!Picked(list, places))
    BY <1>3, <1>7, PickedFacts
  <2> QED
    BY <1>1, <1>2, <1>7, <2>1, <2>2
<1> QED
  BY <1>6, <1>7

\* The rows in order.
LEMMA AllRows ==
  ASSUME NEW texts \in Texts
  PROVE  /\ Store!Increasing([i \in DOMAIN texts |-> i])
         /\ Store!ToSet([i \in DOMAIN texts |-> i]) = DOMAIN texts
  BY DEF Store!Increasing, Store!ToSet

\* rebuild shows what matches, from lists that miss no row.
LEMMA RebuildFacts ==
  ASSUME NEW text \in SUBSET Grams, NEW texts \in Texts, NEW lists, NEW sorting \in BOOLEAN,
         Covers(lists, texts, sorting)
  PROVE  Matches(Store!Rebuild(text, texts, lists, sorting), text, texts)
<1>1. CASE text = {}
  <2>1. Store!Rebuild(text, texts, lists, sorting) = [i \in DOMAIN texts |-> i]
    BY <1>1 DEF Store!Rebuild
  <2> QED
    BY <1>1, <2>1, AllRows DEF Matches
<1>2. CASE text # {}
  <2> DEFINE shortest ==
        CHOOSE g \in text : \A h \in text : Len(lists[g]) <= Len(lists[h])
      lengths == {Len(lists[g]) : g \in text}
  <2>1. shortest \in text
    <3>1. lengths \subseteq Nat /\ lengths # {}
      <4>1. \A g \in text : lists[g] \in Seq(Nat) /\ Len(lists[g]) \in Nat
        BY DEF Covers
      <4> QED
        BY <1>2, <4>1
    <3>2. PICK n \in lengths : \A m \in lengths : n <= m
      BY <3>1, LeastNumber
    <3>3. PICK g \in text : n = Len(lists[g])
      BY <3>2
    <3>4. \A h \in text : Len(lists[g]) <= Len(lists[h])
      BY <3>2, <3>3
    <3> QED
      BY <3>4
  <2>2. Store!Rebuild(text, texts, lists, sorting) =
          Store!Kept(text, texts, lists[shortest], sorting)
    BY <1>2 DEF Store!Rebuild
  <2> HIDE DEF shortest
  <2> DEFINE list == lists[shortest]
  <2>3. /\ list \in Seq(Nat) /\ (~ sorting => Store!Increasing(list))
        /\ \A i \in DOMAIN texts : text \subseteq texts[i] => i \in Store!ToSet(list)
        /\ Store!ToSet(list) \subseteq DOMAIN texts
    BY <2>1 DEF Covers
  <2> HIDE DEF list
  <2>4. /\ Store!Increasing(Store!Kept(text, texts, list, sorting))
        /\ \A i : i \in Store!ToSet(Store!Kept(text, texts, list, sorting)) <=>
                 i \in Store!ToSet(list) /\ text \subseteq texts[i]
    BY <2>3, KeptFacts
  <2> QED
    BY <2>2, <2>3, <2>4 DEF Matches, list
<1> QED
  BY <1>1, <1>2

\* rebuildIndex lists every row under its grams.
LEMMA PostingsCover ==
  ASSUME NEW texts \in Texts
  PROVE  Covers(Store!Postings(texts), texts, FALSE)
<1> DEFINE with(g) == {i \in DOMAIN texts : g \in texts[i]}
<1>1. ASSUME NEW g \in Grams
      PROVE  /\ Store!InOrder(with(g)) \in Seq(Nat)
             /\ Store!Increasing(Store!InOrder(with(g)))
             /\ Store!ToSet(Store!InOrder(with(g))) = with(g)
  <2>1. Len(texts) \in Nat /\ DOMAIN texts = 1 .. Len(texts)
    BY DEF Texts
  <2>2. with(g) \in SUBSET Nat /\ IsFiniteSet(with(g))
    BY <2>1, UpTo
  <2> HIDE DEF with
  <2>3. Store!InOrder(with(g)) \in Seq(with(g))
    BY <2>2, InOrderFacts
  <2>4. Store!InOrder(with(g)) \in Seq(Nat)
    BY <2>2, <2>3, WiderSeq
  <2> QED
    BY <2>2, <2>4, InOrderFacts
<1>2. Store!Postings(texts) = [g \in Grams |-> Store!InOrder(with(g))]
  BY DEF Store!Postings
<1>3. Store!Postings(texts) \in [Grams -> Seq(Nat)]
  BY <1>1, <1>2
<1>4. ASSUME NEW g \in Grams
      PROVE  Store!ToSet(Store!Postings(texts)[g]) = with(g)
             /\ Store!Increasing(Store!Postings(texts)[g])
  BY <1>1, <1>2
<1> QED
  BY <1>3, <1>4 DEF Covers

\* The index is rebuilt over the titles of the rows.
LEMMA IndexKeeps ==
  ASSUME NEW texts \in Texts, NEW lists, NEW sorting \in BOOLEAN,
         Covers(lists, texts, sorting), needle \subseteq Grams,
         Store!Index(texts, lists, sorting),
         texts = Store!Indexed(fields', rows')
  PROVE  IndexHolds'
<1>1. /\ indexed' = texts /\ postings' = lists /\ unsorted' = sorting
      /\ needle' = needle
      /\ results' = Store!Rebuild(needle, texts, lists, sorting)
  BY DEF Store!Index
<1>2. Matches(results', needle', texts)
  BY <1>1, RebuildFacts
<1>3. Covers(postings', indexed', unsorted')
  BY <1>1
<1> QED
  BY <1>1, <1>2, <1>3 DEF IndexHolds

\* The titles of rows are sets of grams.
LEMMA TitlesAreTexts ==
  ASSUME NEW f, NEW r \in Seq(Entities),
         \A e \in Entities : f[e].title \in SUBSET Grams
  PROVE  Store!Indexed(f, r) \in Texts
  BY DEF Store!Indexed, Store!Title, Texts

LEMMA SourceChangedKeeps ==
  ASSUME IndexHolds, rows' \in Seq(Entities),
         \A e \in Entities : fields'[e].title \in SUBSET Grams,
         Store!SourceChanged(fields', rows')
  PROVE  IndexHolds'
<1> DEFINE texts == Store!Indexed(fields', rows')
<1>1. texts \in Texts
  BY TitlesAreTexts
<1>2. Store!Index(texts, Store!Postings(texts), FALSE)
  BY DEF Store!SourceChanged
<1> HIDE DEF texts
<1>3. Covers(Store!Postings(texts), texts, FALSE)
  BY <1>1, PostingsCover
<1>4. needle \subseteq Grams /\ texts = Store!Indexed(fields', rows')
  BY DEF IndexHolds, texts
<1> QED
  BY <1>1, <1>2, <1>3, <1>4, IndexKeeps

\* A list and more entries at its end.
LEMMA JoinFacts ==
  ASSUME NEW s \in Seq(Nat), NEW t \in Seq(Nat)
  PROVE  /\ s \o t \in Seq(Nat)
         /\ Store!ToSet(s \o t) = Store!ToSet(s) \cup Store!ToSet(t)
<1>1. s \o t \in Seq(Nat)
  OBVIOUS
<1>2. /\ Len(s) \in Nat /\ Len(t) \in Nat /\ Len(s \o t) = Len(s) + Len(t)
      /\ \A i \in 1 .. Len(s) + Len(t) :
           (s \o t)[i] = IF i <= Len(s) THEN s[i] ELSE t[i - Len(s)]
  BY ConcatProperties
<1>3. Store!ToSet(s \o t) \subseteq Store!ToSet(s) \cup Store!ToSet(t)
  <2> SUFFICES ASSUME NEW i \in 1 .. Len(s) + Len(t)
               PROVE  (s \o t)[i] \in Store!ToSet(s) \cup Store!ToSet(t)
    BY <1>1, <1>2 DEF Store!ToSet
  <2>1. CASE i <= Len(s)
    BY <1>2, <2>1 DEF Store!ToSet
  <2>2. CASE ~ (i <= Len(s))
    <3>1. i - Len(s) \in DOMAIN t /\ (s \o t)[i] = t[i - Len(s)]
      BY <1>2, <2>2
    <3> QED
      BY <3>1 DEF Store!ToSet
  <2> QED
    BY <2>1, <2>2
<1>4. ASSUME NEW x \in Store!ToSet(s) PROVE x \in Store!ToSet(s \o t)
  <2>1. PICK i \in DOMAIN s : s[i] = x
    BY DEF Store!ToSet
  <2>2. i \in DOMAIN (s \o t) /\ (s \o t)[i] = x
    BY <1>1, <1>2, <2>1
  <2> QED
    BY <2>2 DEF Store!ToSet
<1>5. ASSUME NEW x \in Store!ToSet(t) PROVE x \in Store!ToSet(s \o t)
  <2>1. PICK i \in DOMAIN t : t[i] = x
    BY DEF Store!ToSet
  <2>2. /\ Len(s) + i \in DOMAIN (s \o t) /\ Len(s) + i \in 1 .. Len(s) + Len(t)
        /\ ~ (Len(s) + i <= Len(s)) /\ Len(s) + i - Len(s) = i
    BY <1>1, <1>2
  <2>3. (s \o t)[Len(s) + i] = x
    BY <1>2, <2>1, <2>2
  <2> QED
    BY <2>2, <2>3 DEF Store!ToSet
<1> QED
  BY <1>1, <1>3, <1>4, <1>5

\* sourceDataChanged: the lists get the new grams of the changed rows, or are
\* built anew.
LEMMA SourceDataChangedKeeps ==
  ASSUME IndexHolds, rows' = rows, rows \in Seq(Entities),
         \A e \in Entities : fields'[e].title \in SUBSET Grams,
         Store!SourceDataChanged(fields')
  PROVE  IndexHolds'
<1> DEFINE texts == Store!Indexed(fields', rows)
           news(g) == {i \in DOMAIN texts : g \in texts[i] /\ g \notin indexed[i]}
           lists == [g \in Grams |-> postings[g] \o Store!InOrder(news(g))]
<1>1. texts \in Texts
  BY TitlesAreTexts
<1>2. \/ texts = indexed /\ UNCHANGED Store!search
      \/ Store!Index(texts, lists, TRUE)
      \/ Store!Index(texts, Store!Postings(texts), FALSE)
  BY DEF Store!SourceDataChanged, Store!MarksUnsorted
<1>3. DOMAIN texts = DOMAIN indexed /\ texts = Store!Indexed(fields', rows')
  BY DEF IndexHolds, Store!Indexed
<1> HIDE DEF texts
<1>4. CASE texts = indexed /\ UNCHANGED Store!search
  BY <1>3, <1>4 DEF IndexHolds, Store!search
<1>5. CASE Store!Index(texts, Store!Postings(texts), FALSE)
  <2>1. Covers(Store!Postings(texts), texts, FALSE) /\ needle \subseteq Grams
    BY <1>1, PostingsCover DEF IndexHolds
  <2> QED
    BY <1>1, <1>3, <1>5, <2>1, IndexKeeps
<1>6. CASE Store!Index(texts, lists, TRUE)
  <2>1. ASSUME NEW g \in Grams
        PROVE  /\ postings[g] \in Seq(Nat) /\ Store!InOrder(news(g)) \in Seq(Nat)
               /\ Store!ToSet(Store!InOrder(news(g))) = news(g)
    <3>1. Len(texts) \in Nat /\ DOMAIN texts = 1 .. Len(texts)
      BY <1>1 DEF Texts
    <3>2. news(g) \in SUBSET Nat /\ IsFiniteSet(news(g))
      BY <3>1, UpTo
    <3> HIDE DEF news
    <3>3. Store!InOrder(news(g)) \in Seq(news(g))
      BY <3>2, InOrderFacts
    <3>4. Store!InOrder(news(g)) \in Seq(Nat)
      BY <3>2, <3>3, WiderSeq
    <3> QED
      BY <3>2, <3>4, InOrderFacts DEF IndexHolds, Covers
  <2> HIDE DEF news
  <2>2. ASSUME NEW g \in Grams
        PROVE  /\ lists[g] \in Seq(Nat)
               /\ Store!ToSet(lists[g]) = Store!ToSet(postings[g]) \cup news(g)
    BY <2>1, JoinFacts
  <2>3. lists \in [Grams -> Seq(Nat)]
    BY <2>2
  <2> HIDE DEF lists
  <2>4. ASSUME NEW g \in Grams
        PROVE  /\ \A i \in DOMAIN texts : g \in texts[i] => i \in Store!ToSet(lists[g])
               /\ Store!ToSet(lists[g]) \subseteq DOMAIN texts
    <3>1. /\ \A i \in DOMAIN texts : g \in indexed[i] => i \in Store!ToSet(postings[g])
          /\ Store!ToSet(postings[g]) \subseteq DOMAIN texts
      BY <1>3 DEF IndexHolds, Covers
    <3> QED
      BY <2>2, <3>1 DEF news
  <2>5. Covers(lists, texts, TRUE) /\ needle \subseteq Grams
    BY <2>3, <2>4 DEF Covers, IndexHolds
  <2> QED
    BY <1>1, <1>3, <1>6, <2>5, IndexKeeps
<1> QED
  BY <1>2, <1>4, <1>5, <1>6

-----------------------------------------------------------------------------
\* MediaStore: rows that go and come back.

NoRepeats(s) == \A i, j \in DOMAIN s : i # j => s[i] # s[j]

\* r is s without the entry at p.
Removes(r, s, p) ==
  /\ DOMAIN r = 1 .. Len(s) - 1 /\ Len(r) = Len(s) - 1
  /\ \A i \in 1 .. Len(s) - 1 : r[i] = IF i < p THEN s[i] ELSE s[i + 1]

\* r is s with e before the entry at p.
Inserts(r, s, p, e) ==
  /\ DOMAIN r = 1 .. Len(s) + 1 /\ Len(r) = Len(s) + 1
  /\ \A i \in 1 .. Len(s) + 1 :
       r[i] = IF i < p THEN s[i] ELSE IF i = p THEN e ELSE s[i - 1]

LEMMA RemovedFacts ==
  ASSUME NEW S, NEW s \in Seq(S), NEW p \in DOMAIN s
  PROVE  /\ Store!RemoveAt(s, p) \in Seq(S)
         /\ Removes(Store!RemoveAt(s, p), s, p)
<1> DEFINE a == SubSeq(s, 1, p - 1)
           b == SubSeq(s, p + 1, Len(s))
<1>1. Len(s) \in Nat /\ p \in 1 .. Len(s)
  OBVIOUS
<1>2. /\ a \in Seq(S) /\ Len(a) = p - 1
      /\ \A i \in 1 .. p - 1 : a[i] = s[i]
  <2>1. 1 \in 1 .. Len(s) + 1 /\ p - 1 \in 0 .. Len(s)
    BY <1>1
  <2> QED
    BY <1>1, <2>1, SubSeqProperties
<1>3. /\ b \in Seq(S) /\ Len(b) = Len(s) - p
      /\ \A i \in 1 .. Len(s) - p : b[i] = s[p + i]
  <2>1. p + 1 \in 1 .. Len(s) + 1 /\ Len(s) \in p .. Len(s)
    BY <1>1
  <2> QED
    BY <1>1, <2>1, SubSeqProperties
<1>4. Store!RemoveAt(s, p) = a \o b
  BY DEF Store!RemoveAt
<1> HIDE DEF a, b
<1>5. /\ a \o b \in Seq(S) /\ Len(a \o b) = Len(s) - 1
      /\ \A i \in 1 .. Len(s) - 1 :
           (a \o b)[i] = IF i <= p - 1 THEN a[i] ELSE b[i - (p - 1)]
  <2>1. /\ a \o b \in Seq(S) /\ Len(a \o b) = Len(a) + Len(b)
        /\ \A i \in 1 .. Len(a) + Len(b) :
             (a \o b)[i] = IF i <= Len(a) THEN a[i] ELSE b[i - Len(a)]
    BY <1>2, <1>3, ConcatProperties
  <2>2. Len(a) = p - 1 /\ Len(a) + Len(b) = Len(s) - 1
    BY <1>1, <1>2, <1>3
  <2> QED
    BY <2>1, <2>2
<1>6. ASSUME NEW i \in 1 .. Len(s) - 1
      PROVE  (a \o b)[i] = IF i < p THEN s[i] ELSE s[i + 1]
  <2>1. CASE i < p
    <3>1. i <= p - 1 /\ i \in 1 .. p - 1
      BY <1>1, <2>1
    <3> QED
      BY <1>2, <1>5, <2>1, <3>1
  <2>2. CASE ~ (i < p)
    <3>1. ~ (i <= p - 1) /\ i - (p - 1) \in 1 .. Len(s) - p /\ p + (i - (p - 1)) = i + 1
      BY <1>1, <2>2
    <3> QED
      BY <1>3, <1>5, <2>2, <3>1
  <2> QED
    BY <2>1, <2>2
<1>7. DOMAIN (a \o b) = 1 .. Len(s) - 1
  BY <1>5
<1> QED
  BY <1>4, <1>5, <1>6, <1>7 DEF Removes

LEMMA InsertedFacts ==
  ASSUME NEW S, NEW s \in Seq(S), NEW p \in 1 .. Len(s) + 1, NEW e \in S
  PROVE  /\ Store!InsertAt(s, p, e) \in Seq(S)
         /\ Inserts(Store!InsertAt(s, p, e), s, p, e)
<1> DEFINE a == SubSeq(s, 1, p - 1)
           b == SubSeq(s, p, Len(s))
<1>1. Len(s) \in Nat /\ p \in Nat \ {0}
  OBVIOUS
<1>2. /\ a \in Seq(S) /\ Len(a) = p - 1
      /\ \A i \in 1 .. p - 1 : a[i] = s[i]
  <2>1. 1 \in 1 .. Len(s) + 1 /\ p - 1 \in 0 .. Len(s)
    BY <1>1
  <2> QED
    BY <1>1, <2>1, SubSeqProperties
<1>3. /\ b \in Seq(S) /\ Len(b) = Len(s) - p + 1
      /\ \A i \in 1 .. Len(s) - p + 1 : b[i] = s[p + i - 1]
  <2>1. Len(s) \in p - 1 .. Len(s)
    BY <1>1
  <2> QED
    BY <1>1, <2>1, SubSeqProperties
<1>4. Store!InsertAt(s, p, e) = a \o <<e>> \o b
  BY DEF Store!InsertAt
<1> HIDE DEF a, b
<1> DEFINE c == a \o <<e>>
<1>5. /\ c \in Seq(S) /\ Len(c) = p
      /\ \A i \in 1 .. p : c[i] = IF i < p THEN a[i] ELSE e
  BY <1>1, <1>2, ConcatProperties
<1> HIDE DEF c
<1>6. /\ c \o b \in Seq(S) /\ Len(c \o b) = Len(s) + 1
      /\ \A i \in 1 .. Len(s) + 1 : (c \o b)[i] = IF i <= p THEN c[i] ELSE b[i - p]
  BY <1>1, <1>3, <1>5, ConcatProperties
<1>7. ASSUME NEW i \in 1 .. Len(s) + 1
      PROVE  (c \o b)[i] = IF i < p THEN s[i] ELSE IF i = p THEN e ELSE s[i - 1]
  <2>1. CASE i <= p
    <3>1. i \in 1 .. p /\ (i < p => i \in 1 .. p - 1)
      BY <1>1, <2>1
    <3> QED
      BY <1>1, <1>2, <1>5, <1>6, <2>1, <3>1
  <2>2. CASE ~ (i <= p)
    <3>1. i - p \in 1 .. Len(s) - p + 1 /\ p + (i - p) - 1 = i - 1 /\ ~ (i < p) /\ i # p
      BY <1>1, <2>2
    <3> QED
      BY <1>3, <1>6, <2>2, <3>1
  <2> QED
    BY <2>1, <2>2
<1>8. DOMAIN (c \o b) = 1 .. Len(s) + 1
  BY <1>6
<1> QED
  BY <1>4, <1>6, <1>7, <1>8 DEF c, Inserts

\* A row that is put back where it was makes the rows what they were.
LEMMA PutBack ==
  ASSUME NEW S, NEW s \in Seq(S), NEW p \in DOMAIN s
  PROVE  /\ p \in 1 .. Len(Store!RemoveAt(s, p)) + 1
         /\ Store!InsertAt(Store!RemoveAt(s, p), p, s[p]) = s
<1> DEFINE r == Store!RemoveAt(s, p)
           t == Store!InsertAt(r, p, s[p])
<1>1. Len(s) \in Nat /\ p \in 1 .. Len(s) /\ s[p] \in S
  OBVIOUS
<1>2. /\ r \in Seq(S) /\ Len(r) = Len(s) - 1
      /\ \A i \in 1 .. Len(s) - 1 : r[i] = IF i < p THEN s[i] ELSE s[i + 1]
  BY RemovedFacts DEF Removes
<1> HIDE DEF r
<1>3. p \in 1 .. Len(r) + 1
  BY <1>1, <1>2
<1>4. /\ t \in Seq(S) /\ DOMAIN t = 1 .. Len(r) + 1
      /\ \A i \in 1 .. Len(r) + 1 :
           t[i] = IF i < p THEN r[i] ELSE IF i = p THEN s[p] ELSE r[i - 1]
  <2>1. t \in Seq(S) /\ Inserts(t, r, p, s[p])
    BY <1>1, <1>2, <1>3, InsertedFacts
  <2> QED
    BY <2>1 DEF Inserts
<1> HIDE DEF t
<1>5. DOMAIN t = DOMAIN s
  BY <1>1, <1>2, <1>4
<1>6. ASSUME NEW i \in DOMAIN s PROVE t[i] = s[i]
  <2>1. i \in 1 .. Len(r) + 1
    BY <1>1, <1>2
  <2>2. CASE i < p
    <3>1. i \in 1 .. Len(s) - 1
      BY <1>1, <2>2
    <3> QED
      BY <1>2, <1>4, <2>1, <2>2, <3>1
  <2>3. CASE i = p
    BY <1>4, <2>1, <2>3
  <2>4. CASE i > p
    <3>1. i - 1 \in 1 .. Len(s) - 1 /\ ~ (i - 1 < p) /\ (i - 1) + 1 = i
          /\ ~ (i < p) /\ i # p
      BY <1>1, <2>4
    <3> QED
      BY <1>2, <1>4, <2>1, <3>1
  <2> QED
    BY <1>1, <2>2, <2>3, <2>4
<1>7. t = s
  <2>1. t = [i \in DOMAIN t |-> t[i]] /\ s = [i \in DOMAIN s |-> s[i]]
    BY <1>4
  <2> QED
    BY <1>5, <1>6, <2>1
<1> QED
  BY <1>3, <1>7 DEF t, r

\* Rows that are within an answer stay so when one of them goes.
LEMMA WithinLess ==
  ASSUME NEW S, NEW s \in Seq(S), NEW t \in Seq(S), NEW p \in DOMAIN s,
         Store!IsWithin(s, t)
  PROVE  Store!IsWithin(Store!RemoveAt(s, p), t)
<1> DEFINE r == Store!RemoveAt(s, p)
<1>1. PICK at \in [DOMAIN s -> DOMAIN t] :
        Store!Increasing(at) /\ \A n \in DOMAIN s : s[n] = t[at[n]]
  BY DEF Store!IsWithin
<1>2. Removes(r, s, p)
  BY RemovedFacts
<1> HIDE DEF r
<1>3. /\ Len(s) \in Nat /\ DOMAIN s = 1 .. Len(s) /\ DOMAIN r = 1 .. Len(s) - 1
      /\ p \in 1 .. Len(s) /\ DOMAIN t \subseteq Nat
  BY <1>2 DEF Removes
<1> DEFINE b == [i \in DOMAIN r |-> IF i < p THEN at[i] ELSE at[i + 1]]
<1>4. \A i \in DOMAIN r : i \in DOMAIN s /\ i + 1 \in DOMAIN s
  BY <1>3
<1>5. b \in [DOMAIN r -> DOMAIN t]
  BY <1>1, <1>4
<1>6. Store!Increasing(b)
  <2> SUFFICES ASSUME NEW i \in DOMAIN r, NEW j \in DOMAIN r, i < j
               PROVE  b[i] < b[j]
    BY DEF Store!Increasing
  <2>1. /\ i \in DOMAIN s /\ i + 1 \in DOMAIN s /\ j \in DOMAIN s /\ j + 1 \in DOMAIN s
        /\ i \in Nat /\ j \in Nat /\ i < j + 1 /\ i + 1 < j + 1
    BY <1>3, <1>4
  <2>2. /\ at[i] < at[j] /\ at[i] < at[j + 1] /\ at[i + 1] < at[j + 1]
    BY <1>1, <2>1 DEF Store!Increasing
  <2> QED
    BY <1>3, <2>1, <2>2
<1>7. ASSUME NEW n \in DOMAIN r PROVE r[n] = t[b[n]]
  BY <1>1, <1>2, <1>3, <1>4 DEF Removes
<1> HIDE DEF b
<1> QED
  BY <1>5, <1>6, <1>7 DEF Store!IsWithin, r

\* They stay so when the row and its place in the answer go together.
LEMMA WithinBoth ==
  ASSUME NEW S, NEW s \in Seq(S), NEW t \in Seq(S), NEW p \in DOMAIN s,
         NEW q \in DOMAIN t, s[p] = t[q], NoRepeats(t), Store!IsWithin(s, t)
  PROVE  Store!IsWithin(Store!RemoveAt(s, p), Store!RemoveAt(t, q))
<1> DEFINE r == Store!RemoveAt(s, p)
           u == Store!RemoveAt(t, q)
<1>1. PICK at \in [DOMAIN s -> DOMAIN t] :
        Store!Increasing(at) /\ \A n \in DOMAIN s : s[n] = t[at[n]]
  BY DEF Store!IsWithin
<1>2. Removes(r, s, p) /\ Removes(u, t, q)
  BY RemovedFacts
<1> HIDE DEF r, u
<1>3. /\ Len(s) \in Nat /\ DOMAIN s = 1 .. Len(s) /\ DOMAIN r = 1 .. Len(s) - 1
      /\ Len(t) \in Nat /\ DOMAIN t = 1 .. Len(t) /\ DOMAIN u = 1 .. Len(t) - 1
      /\ p \in 1 .. Len(s) /\ q \in 1 .. Len(t)
  BY <1>2 DEF Removes
<1>4. at[p] = q
  BY <1>1 DEF NoRepeats
<1>5. \A i \in DOMAIN s : i < p => at[i] < q
  BY <1>1, <1>4 DEF Store!Increasing
<1>6. \A i \in DOMAIN s : i > p => at[i] > q
  <2> SUFFICES ASSUME NEW i \in DOMAIN s, i > p PROVE at[i] > q
    OBVIOUS
  <2>1. at[p] < at[i]
    BY <1>1, <1>3 DEF Store!Increasing
  <2> QED
    BY <1>1, <1>3, <1>4, <2>1
<1> DEFINE b == [i \in DOMAIN r |-> IF i < p THEN at[i] ELSE at[i + 1] - 1]
<1>7. ASSUME NEW i \in DOMAIN r
      PROVE  /\ b[i] \in DOMAIN u /\ r[i] = u[b[i]]
  <2>1. CASE i < p
    <3>1. i \in DOMAIN s /\ at[i] < q /\ at[i] \in 1 .. Len(t)
      BY <1>1, <1>3, <1>5, <2>1
    <3>2. at[i] \in 1 .. Len(t) - 1 /\ b[i] = at[i]
      BY <1>3, <2>1, <3>1
    <3>3. r[i] = s[i] /\ u[at[i]] = t[at[i]]
      BY <1>2, <1>3, <2>1, <3>1, <3>2 DEF Removes
    <3> QED
      BY <1>1, <1>3, <3>1, <3>2, <3>3
  <2>2. CASE ~ (i < p)
    <3>1. i + 1 \in DOMAIN s /\ i + 1 > p
      BY <1>3, <2>2
    <3>2. at[i + 1] > q /\ at[i + 1] \in 1 .. Len(t)
      BY <1>1, <1>3, <1>6, <3>1
    <3>3. /\ b[i] = at[i + 1] - 1 /\ b[i] \in 1 .. Len(t) - 1
          /\ ~ (b[i] < q) /\ b[i] + 1 = at[i + 1]
      BY <1>3, <2>2, <3>2
    <3>4. r[i] = s[i + 1] /\ u[b[i]] = t[at[i + 1]]
      BY <1>2, <1>3, <2>2, <3>3 DEF Removes
    <3> QED
      BY <1>1, <1>3, <3>1, <3>3, <3>4
  <2> QED
    BY <2>1, <2>2
<1>8. Store!Increasing(b)
  <2> SUFFICES ASSUME NEW i \in DOMAIN r, NEW j \in DOMAIN r, i < j
               PROVE  b[i] < b[j]
    BY DEF Store!Increasing
  <2>1. /\ i \in DOMAIN s /\ i + 1 \in DOMAIN s /\ j \in DOMAIN s /\ j + 1 \in DOMAIN s
        /\ i \in Nat /\ j \in Nat /\ i + 1 < j + 1
    BY <1>3
  <2>2. at[i] < at[j] /\ at[i + 1] < at[j + 1]
    BY <1>1, <2>1 DEF Store!Increasing
  <2>3. /\ i < p => at[i] < q
        /\ ~ (j < p) => at[j + 1] > q
    BY <1>3, <1>5, <1>6, <2>1
  <2>4. /\ at[i] \in Nat /\ at[j] \in Nat /\ at[i + 1] \in Nat /\ at[j + 1] \in Nat
    BY <1>1, <1>3, <2>1
  <2>5. /\ b[i] = IF i < p THEN at[i] ELSE at[i + 1] - 1
        /\ b[j] = IF j < p THEN at[j] ELSE at[j + 1] - 1
    OBVIOUS
  <2> HIDE DEF b
  <2> QED
    BY <1>3, <2>1, <2>2, <2>3, <2>4, <2>5
<1>9. b \in [DOMAIN r -> DOMAIN u]
  BY <1>7
<1> HIDE DEF b
<1> QED
  BY <1>7, <1>8, <1>9 DEF Store!IsWithin, r, u

\* An answer has each of its rows where it has them.
LEMMA WithinItself ==
  ASSUME NEW S, NEW s \in Seq(S)
  PROVE  Store!IsWithin(s, s)
<1> DEFINE at == [n \in DOMAIN s |-> n]
<1>1. at \in [DOMAIN s -> DOMAIN s] /\ \A n \in DOMAIN s : s[n] = s[at[n]]
  OBVIOUS
<1>2. Store!Increasing(at)
  BY DEF Store!Increasing
<1> HIDE DEF at
<1> QED
  BY <1>1, <1>2 DEF Store!IsWithin

LEMMA LessRepeats ==
  ASSUME NEW S, NEW s \in Seq(S), NEW p \in DOMAIN s, NoRepeats(s)
  PROVE  NoRepeats(Store!RemoveAt(s, p))
<1> DEFINE r == Store!RemoveAt(s, p)
<1>1. Removes(r, s, p)
  BY RemovedFacts
<1> HIDE DEF r
<1>2. /\ Len(s) \in Nat /\ DOMAIN s = 1 .. Len(s) /\ DOMAIN r = 1 .. Len(s) - 1
      /\ p \in 1 .. Len(s)
  BY <1>1 DEF Removes
<1> SUFFICES ASSUME NEW i \in DOMAIN r, NEW j \in DOMAIN r, i # j
             PROVE  r[i] # r[j]
  BY DEF NoRepeats, r
<1>3. /\ i \in DOMAIN s /\ i + 1 \in DOMAIN s /\ j \in DOMAIN s /\ j + 1 \in DOMAIN s
      /\ i < p /\ ~ (j < p) => i # j + 1
      /\ j < p /\ ~ (i < p) => i + 1 # j
      /\ i + 1 # j + 1
  BY <1>2
<1>4. r[i] = (IF i < p THEN s[i] ELSE s[i + 1]) /\ r[j] = (IF j < p THEN s[j] ELSE s[j + 1])
  BY <1>1, <1>2 DEF Removes
<1> QED
  BY <1>3, <1>4 DEF NoRepeats

LEMMA PlaceFacts ==
  ASSUME NEW s \in Seq(Entities), NEW e,
         NEW p, p = Store!SelectInSeq(s, LAMBDA x : x = e)
  PROVE  /\ p # 0 => p \in DOMAIN s /\ s[p] = e
         /\ Store!Contains(s, e) => p # 0
<1> DEFINE I == {i \in 1 .. Len(s) : s[i] = e}
<1>1. p = IF I # {} THEN Store!Min(I) ELSE 0
  BY DEF Store!SelectInSeq
<1>2. I \subseteq Nat /\ Len(s) \in Nat /\ DOMAIN s = 1 .. Len(s)
  OBVIOUS
<1>3. ASSUME I # {} PROVE Store!Min(I) \in I
  BY <1>2, <1>3, LeastNumber DEF Store!Min
<1>4. Store!Contains(s, e) => I # {}
  BY DEF Store!Contains
<1> QED
  BY <1>1, <1>2, <1>3, <1>4

-----------------------------------------------------------------------------
\* MediaStore: the invariant.

FieldRecords == [version : Nat, title : SUBSET Grams, flag : BOOLEAN]
ChangeRecords ==
  [previous : BOOLEAN \cup {None}, at : Nat, current : BOOLEAN]

StoreShape ==
  /\ fields \in [Entities -> FieldRecords]
  /\ overlay \in [Entities -> BOOLEAN \cup {None}]
  /\ journal \in [Entities -> ChangeRecords \cup {None}]
  /\ rows \in Seq(Entities)
  /\ answered \in Seq(Entities) /\ NoRepeats(answered)
  /\ cache # None =>
       /\ cache.rows \in Seq(Entities) /\ NoRepeats(cache.rows)
       /\ \A e \in Store!ToSet(cache.rows) : cache.fields[e] \in FieldRecords

\* A removal that is the last change of the rows can be taken back: the row
\* with its entity put in again is within the answer.
RowsStand ==
  /\ Store!IsWithin(rows, answered)
  /\ \A e \in Entities :
       journal[e] # None /\ journal[e].current =>
         /\ journal[e].at \in 1 .. Len(rows) + 1
         /\ Store!IsWithin(Store!InsertAt(rows, journal[e].at, e), answered)

StoreInv == StoreShape /\ RowsStand /\ IndexHolds

\* Changes that take nothing out of the rows, and those that outdate every
\* removal.
LEMMA RemovalsOutdated ==
  ASSUME StoreShape
  PROVE  /\ Store!Outdated \in [Entities -> ChangeRecords \cup {None}]
         /\ \A e \in Entities : Store!Outdated[e] = None \/ ~ Store!Outdated[e].current
<1> SUFFICES ASSUME NEW e \in Entities
             PROVE  /\ Store!Outdated[e] \in ChangeRecords \cup {None}
                    /\ Store!Outdated[e] = None \/ ~ Store!Outdated[e].current
  BY DEF Store!Outdated
<1>1. journal[e] \in ChangeRecords \cup {None}
  BY DEF StoreShape
<1>2. Store!Outdated[e] =
        IF journal[e] = None THEN None ELSE [journal[e] EXCEPT !.current = FALSE]
  BY DEF Store!Outdated
<1>3. CASE journal[e] = None
  BY <1>2, <1>3
<1>4. CASE journal[e] # None
  <2> DEFINE j == [journal[e] EXCEPT !.current = FALSE]
  <2>1. j \in ChangeRecords /\ ~ j.current
    BY <1>1, <1>4 DEF ChangeRecords
  <2> QED
    BY <1>2, <1>4, <2>1
<1> QED
  BY <1>3, <1>4

\* Where no removal can be taken back the rows need only be within the answer.
LEMMA NothingToTakeBack ==
  ASSUME Store!IsWithin(rows', answered'),
         \A e \in Entities : journal'[e] = None \/ ~ journal'[e].current
  PROVE  RowsStand'
  BY DEF RowsStand

LEMMA StoreConstants ==
  /\ None \notin BOOLEAN /\ IsFiniteSet(Entities)
  /\ \A v \in Store!Versions : v \in Nat /\ Titles[v] \in SUBSET Grams
  /\ \A t \in Store!ToSet(Titles) : t \in SUBSET Grams
<1>1. Store!StoreAssumption
  BY ServicesAssumption
<1>2. None \notin BOOLEAN /\ IsFiniteSet(Entities)
  BY <1>1, SameCardinality DEF Store!StoreAssumption
<1>3. Titles \in Seq(SUBSET Grams)
  BY <1>1 DEF Store!StoreAssumption
<1>4. \A v \in DOMAIN Titles : v \in Nat /\ Titles[v] \in SUBSET Grams
  BY <1>3
<1> QED
  BY <1>2, <1>4 DEF Store!Versions, Store!ToSet

\* Fields keep their titles when only flags change.
LEMMA TitlesOf ==
  ASSUME fields' \in [Entities -> FieldRecords]
  PROVE  \A e \in Entities : fields'[e].title \in SUBSET Grams
  BY DEF FieldRecords

LEMMA SameTitles ==
  ASSUME IndexHolds, rows \in Seq(Entities), rows' = rows, UNCHANGED Store!search,
         \A e \in Entities : fields'[e].title = fields[e].title
  PROVE  IndexHolds'
<1>1. Store!Indexed(fields', rows') = Store!Indexed(fields, rows)
  <2>1. \A i \in DOMAIN rows : rows[i] \in Entities
    OBVIOUS
  <2> QED
    BY <2>1 DEF Store!Indexed, Store!Title
<1> QED
  BY <1>1 DEF IndexHolds, Store!search

\* Calls that leave rows, answer and removals alone.
LEMMA RowsAlone ==
  ASSUME StoreInv, UNCHANGED <<rows, answered, journal>>
  PROVE  RowsStand'
  BY DEF StoreInv, RowsStand

LEMMA StoreInit == Store!Init => StoreInv
<1> SUFFICES ASSUME Store!Init PROVE StoreInv
  OBVIOUS
<1> USE DEF Store!Init
<1>1. StoreShape
  <2>1. Store!Unknown \in FieldRecords
    BY DEF Store!Unknown, FieldRecords
  <2>2. <<>> \in Seq(Entities) /\ NoRepeats(<<>>)
    BY DEF NoRepeats
  <2> QED
    BY <2>1, <2>2 DEF StoreShape
<1>2. RowsStand
  <2>1. <<>> \in Seq(Entities)
    OBVIOUS
  <2>2. Store!IsWithin(<<>>, <<>>)
    BY <2>1, WithinItself
  <2> QED
    BY <2>2 DEF RowsStand
<1>3. IndexHolds
  <2>1. indexed \in Texts /\ indexed = <<>> /\ DOMAIN indexed = {}
    BY DEF Texts
  <2>2. indexed = Store!Indexed(fields, rows)
    BY DEF Store!Indexed
  <2>3. Covers(postings, indexed, unsorted)
    <3>1. \A g \in Grams : postings[g] \in Seq(Nat) /\ postings[g] = <<>>
      OBVIOUS
    <3>2. Store!ToSet(<<>>) = {} /\ Store!Increasing(<<>>)
      BY DEF Store!ToSet, Store!Increasing
    <3> QED
      BY <2>1, <3>1, <3>2 DEF Covers
  <2>4. Matches(results, needle, indexed)
    BY <2>1 DEF Matches, Store!Increasing, Store!ToSet
  <2> QED
    BY <2>1, <2>2, <2>3, <2>4 DEF IndexHolds
<1> QED
  BY <1>1, <1>2, <1>3 DEF StoreInv

\* An answer has each row once.
LEMMA AnswersHaveNoRepeats ==
  ASSUME NEW new \in Store!Answers
  PROVE  new \in Seq(Entities) /\ NoRepeats(new)
<1>1. PICK S \in SUBSET Entities : new \in Store!SetToSeqs(S)
  BY DEF Store!Answers
<1>2. /\ new \in [1 .. Cardinality(S) -> S]
      /\ \A i, j \in 1 .. Cardinality(S) : i # j => new[i] # new[j]
  BY <1>1, SameCardinality DEF Store!SetToSeqs
<1>3. Cardinality(S) \in Nat
  BY StoreConstants, FS_Subset, FS_CardinalityType
<1>4. new \in Seq(S)
  BY <1>2, <1>3
<1>5. new \in Seq(Entities)
  BY <1>4, WiderSeq
<1> QED
  BY <1>2, <1>5 DEF NoRepeats

\* An answer, or the cache, replaces the rows.
LEMMA ReplacedStand ==
  ASSUME StoreInv, NEW new \in Seq(Entities), Store!Synchronize(new)
  PROVE  /\ RowsStand' /\ rows' = new /\ answered' = new
         /\ journal' \in [Entities -> ChangeRecords \cup {None}]
<1>1. rows' = new /\ answered' = new /\ journal' = Store!Outdated
  BY DEF Store!Synchronize, Store!SameRows
<1>2. /\ journal' \in [Entities -> ChangeRecords \cup {None}]
      /\ \A e \in Entities : journal'[e] = None \/ ~ journal'[e].current
  BY <1>1, RemovalsOutdated DEF StoreInv
<1>3. Store!IsWithin(rows', answered')
  BY <1>1, WithinItself
<1> QED
  BY <1>1, <1>2, <1>3, NothingToTakeBack

LEMMA SetQueryKeeps ==
  ASSUME StoreInv, NEW new \in Store!Answers,
         NEW version \in [Store!ToSet(new) -> Store!Versions], NEW flag \in BOOLEAN,
         Store!SetQuery(new, version, flag)
  PROVE  StoreInv'
<1>1. new \in Seq(Entities) /\ NoRepeats(new)
  BY AnswersHaveNoRepeats
<1>2. /\ fields' = [e \in Entities |->
                      IF e \in Store!ToSet(new) THEN Store!Patched(e, version[e], flag)
                      ELSE fields[e]]
      /\ Store!Synchronize(new)
      /\ IF new = rows THEN Store!SourceDataChanged(fields')
         ELSE Store!SourceChanged(fields', new)
      /\ UNCHANGED <<overlay, cache>>
  BY DEF Store!SetQuery
<1>3. RowsStand' /\ rows' = new /\ answered' = new
      /\ journal' \in [Entities -> ChangeRecords \cup {None}]
  BY <1>1, <1>2, ReplacedStand
<1>4. fields' \in [Entities -> FieldRecords]
  <2>1. ASSUME NEW e \in Entities, e \in Store!ToSet(new)
        PROVE  Store!Patched(e, version[e], flag) \in FieldRecords
    <3>1. fields[e] \in FieldRecords
      BY DEF StoreInv, StoreShape
    <3>2. version[e] \in Nat /\ Titles[version[e]] \in SUBSET Grams
      BY <2>1, StoreConstants
    <3>3. [fields[e] EXCEPT !.flag = flag] \in FieldRecords
      BY <3>1 DEF FieldRecords
    <3>4. [version |-> version[e], title |-> Titles[version[e]], flag |-> flag]
            \in FieldRecords
      BY <3>2 DEF FieldRecords
    <3> QED
      BY <3>3, <3>4 DEF Store!Patched
  <2> QED
    BY <1>2, <2>1 DEF StoreInv, StoreShape
<1>5. IndexHolds'
  <2>1. CASE new = rows
    BY <1>1, <1>2, <1>3, <1>4, <2>1, TitlesOf, SourceDataChangedKeeps DEF StoreInv
  <2>2. CASE new # rows
    BY <1>1, <1>2, <1>3, <1>4, <2>2, TitlesOf, SourceChangedKeeps DEF StoreInv
  <2> QED
    BY <2>1, <2>2
<1>6. StoreShape'
  BY <1>1, <1>2, <1>3, <1>4 DEF StoreInv, StoreShape
<1> QED
  BY <1>3, <1>5, <1>6 DEF StoreInv

\* A flag, by the server or by a commit.
LEMMA FlagKeeps ==
  ASSUME StoreInv, NEW e \in Entities, NEW flag \in BOOLEAN,
         fields' = [fields EXCEPT ![e].flag = flag],
         UNCHANGED <<rows, Store!search>>
  PROVE  IndexHolds' /\ fields' \in [Entities -> FieldRecords]
<1>1. fields'[e] = [fields[e] EXCEPT !.flag = flag]
      /\ \A x \in Entities : x # e => fields'[x] = fields[x]
  BY DEF StoreInv, StoreShape
<1>2. fields'[e] \in FieldRecords /\ fields'[e].title = fields[e].title
  <2>1. fields[e] \in FieldRecords
    BY DEF StoreInv, StoreShape
  <2>2. [fields[e] EXCEPT !.flag = flag] \in FieldRecords
        /\ [fields[e] EXCEPT !.flag = flag].title = fields[e].title
    BY <2>1 DEF FieldRecords
  <2> QED
    BY <1>1, <2>2
<1>3. fields' \in [Entities -> FieldRecords]
  BY <1>1, <1>2 DEF StoreInv, StoreShape
<1>4. \A x \in Entities : fields'[x].title = fields[x].title
  BY <1>1, <1>2
<1> QED
  BY <1>3, <1>4, SameTitles DEF StoreInv, StoreShape

LEMMA PatchFlagKeeps ==
  ASSUME StoreInv, NEW e \in Entities, NEW flag \in BOOLEAN,
         Store!PatchFlag(e, flag)
  PROVE  StoreInv'
<1>1. /\ fields' = [fields EXCEPT ![e].flag = flag]
      /\ UNCHANGED <<overlay, rows, answered, journal, Store!search, cache>>
  BY DEF Store!PatchFlag
<1>2. IndexHolds' /\ fields' \in [Entities -> FieldRecords]
  BY <1>1, FlagKeeps
<1> QED
  BY <1>1, <1>2, RowsAlone DEF StoreInv, StoreShape

LEMMA EditTitleKeeps ==
  ASSUME StoreInv, NEW e \in Entities, NEW title \in SUBSET Grams,
         Store!EditTitle(e, title)
  PROVE  StoreInv'
<1> DEFINE given == IF baseline[e] = None THEN title ELSE fields[e].title
<1>1. /\ fields' = [fields EXCEPT ![e].title = given]
      /\ Store!SourceDataChanged(fields')
      /\ UNCHANGED <<overlay, rows, answered, journal, cache>>
  BY DEF Store!EditTitle
<1>2. fields[e] \in FieldRecords /\ given \in SUBSET Grams
  BY DEF StoreInv, StoreShape, FieldRecords
<1> HIDE DEF given
<1>3. [fields[e] EXCEPT !.title = given] \in FieldRecords
  BY <1>2 DEF FieldRecords
<1>4. fields' \in [Entities -> FieldRecords]
  BY <1>1, <1>3 DEF StoreInv, StoreShape
<1>5. IndexHolds'
  BY <1>1, <1>4, TitlesOf, SourceDataChangedKeeps DEF StoreInv, StoreShape
<1> QED
  BY <1>1, <1>4, <1>5, RowsAlone DEF StoreInv, StoreShape

\* Calls that change none of the fields, rows and removals.
LEMMA StoreQuiet ==
  ASSUME StoreInv,
         UNCHANGED <<fields, overlay, rows, answered, journal, Store!search, cache>>
  PROVE  StoreInv'
<1>1. IndexHolds'
  BY SameTitles DEF StoreInv, StoreShape
<1> QED
  BY <1>1, RowsAlone DEF StoreInv, StoreShape

LEMMA SaveKeeps ==
  ASSUME StoreInv, Store!Save
  PROVE  StoreInv'
<1>1. /\ cache'.rows = rows
      /\ cache'.fields = [e \in Store!ToSet(rows) |-> fields[e]]
      /\ UNCHANGED <<fields, overlay, rows, answered, journal, Store!search>>
  BY DEF Store!Save, Store!table
<1>2. NoRepeats(rows)
  <2>1. PICK at \in [DOMAIN rows -> DOMAIN answered] :
          /\ Store!Increasing(at)
          /\ \A n \in DOMAIN rows : rows[n] = answered[at[n]]
    BY DEF StoreInv, RowsStand, Store!IsWithin
  <2>2. ASSUME NEW i \in DOMAIN rows, NEW j \in DOMAIN rows, i # j
        PROVE  at[i] # at[j]
    <3>1. /\ i \in Nat /\ j \in Nat /\ at[i] \in Nat /\ at[j] \in Nat
      BY <2>1 DEF StoreInv, StoreShape
    <3>2. /\ i < j => at[i] < at[j]
          /\ j < i => at[j] < at[i]
      BY <2>1 DEF Store!Increasing
    <3> QED
      BY <2>2, <3>1, <3>2
  <2> QED
    BY <2>1, <2>2 DEF NoRepeats, StoreInv, StoreShape
<1>3. \A e \in Store!ToSet(rows) : e \in Entities
  BY DEF StoreInv, StoreShape, Store!ToSet
<1>4. StoreShape'
  BY <1>1, <1>2, <1>3 DEF StoreInv, StoreShape
<1>5. IndexHolds'
  BY <1>1, SameTitles DEF StoreInv, StoreShape
<1> QED
  BY <1>1, <1>4, <1>5, RowsAlone DEF StoreInv

\* A row goes.
LEMMA WithoutKeeps ==
  ASSUME StoreInv, NEW e \in Entities, Store!Place(e) # 0, Store!Without(e),
         fields' = fields
  PROVE  /\ Store!Place(e) \in DOMAIN rows /\ rows[Store!Place(e)] = e
         /\ rows' = Store!RemoveAt(rows, Store!Place(e))
         /\ rows' \in Seq(Entities) /\ IndexHolds'
<1>1. rows \in Seq(Entities) /\ fields \in [Entities -> FieldRecords]
  BY DEF StoreInv, StoreShape
<1>2. Store!Place(e) \in DOMAIN rows /\ rows[Store!Place(e)] = e
  BY <1>1, PlaceFacts DEF Store!Place
<1>3. rows' = Store!RemoveAt(rows, Store!Place(e)) /\ Store!SourceChanged(fields, rows')
  BY DEF Store!Without
<1>4. rows' \in Seq(Entities)
  BY <1>1, <1>2, <1>3, RemovedFacts
<1>5. IndexHolds'
  BY <1>1, <1>3, <1>4, TitlesOf, SourceChangedKeeps DEF StoreInv
<1> QED
  BY <1>2, <1>3, <1>4, <1>5

LEMMA BeginMutationKeeps ==
  ASSUME StoreInv, NEW e \in Entities, NEW flag \in BOOLEAN,
         NEW removes \in BOOLEAN, Store!BeginMutation(e, flag, removes)
  PROVE  StoreInv'
<1> DEFINE at == IF removes THEN Store!Place(e) ELSE 0
           opened == [previous |-> overlay[e], at |-> at, current |-> at # 0]
<1>1. /\ overlay' = [overlay EXCEPT ![e] = flag]
      /\ IF at # 0
         THEN Store!Without(e) /\ journal' = [Store!Outdated EXCEPT ![e] = opened]
         ELSE journal' = [journal EXCEPT ![e] = opened]
              /\ UNCHANGED <<rows, Store!search>>
      /\ UNCHANGED <<fields, answered, cache>>
  BY DEF Store!BeginMutation
<1>2. rows \in Seq(Entities) /\ overlay[e] \in BOOLEAN \cup {None}
  BY DEF StoreInv, StoreShape
<1>3. at \in Nat
  <2>1. Store!Place(e) # 0 => Store!Place(e) \in DOMAIN rows
    BY <1>2, PlaceFacts DEF Store!Place
  <2> QED
    BY <1>2, <2>1
<1>4. opened \in ChangeRecords
  BY <1>2, <1>3 DEF ChangeRecords
<1>5. overlay' \in [Entities -> BOOLEAN \cup {None}]
  BY <1>1 DEF StoreInv, StoreShape
<1>6. opened.at = at /\ opened.current = (at # 0)
  OBVIOUS
<1> HIDE DEF opened
<1>7. CASE at = 0
  <2> HIDE DEF at
  <2>1. /\ journal' = [journal EXCEPT ![e] = opened]
        /\ UNCHANGED <<rows, Store!search>>
    BY <1>1, <1>7
  <2>2. journal' \in [Entities -> ChangeRecords \cup {None}]
    BY <1>4, <2>1 DEF StoreInv, StoreShape
  <2>3. /\ ~ journal'[e].current
        /\ \A x \in Entities : x # e => journal'[x] = journal[x]
    BY <1>6, <1>7, <2>1 DEF StoreInv, StoreShape
  <2>4. RowsStand'
    BY <1>1, <2>1, <2>3 DEF StoreInv, RowsStand
  <2>5. IndexHolds'
    BY <1>1, <1>2, <2>1, SameTitles DEF StoreInv
  <2>6. StoreShape'
    BY <1>1, <1>5, <2>1, <2>2 DEF StoreInv, StoreShape
  <2> QED
    BY <2>4, <2>5, <2>6 DEF StoreInv
<1>8. CASE at # 0
  <2>1. at = Store!Place(e) /\ Store!Place(e) # 0
    BY <1>8
  <2>2. /\ at \in DOMAIN rows /\ rows[at] = e
        /\ rows' = Store!RemoveAt(rows, at) /\ rows' \in Seq(Entities) /\ IndexHolds'
    BY <1>1, <1>8, <2>1, WithoutKeeps
  <2> HIDE DEF at
  <2>3. journal' = [Store!Outdated EXCEPT ![e] = opened]
    BY <1>1, <1>8
  <2>4. /\ journal' \in [Entities -> ChangeRecords \cup {None}]
        /\ journal'[e] = opened
        /\ \A x \in Entities : x # e => journal'[x] = None \/ ~ journal'[x].current
    BY <1>4, <2>3, RemovalsOutdated DEF StoreInv
  <2>5. Store!IsWithin(rows, answered) /\ answered \in Seq(Entities)
    BY DEF StoreInv, StoreShape, RowsStand
  <2>6. Store!IsWithin(rows', answered)
    BY <1>2, <2>2, <2>5, WithinLess
  <2>7. /\ at \in 1 .. Len(rows') + 1
        /\ Store!InsertAt(rows', at, e) = rows
    BY <1>2, <2>2, PutBack
  <2>8. RowsStand'
    <3> SUFFICES ASSUME NEW x \in Entities, journal'[x] # None, journal'[x].current
                 PROVE  /\ journal'[x].at \in 1 .. Len(rows') + 1
                        /\ Store!IsWithin(Store!InsertAt(rows', journal'[x].at, x), answered')
      BY <1>1, <2>6 DEF RowsStand
    <3>1. x = e /\ journal'[x].at = at
      BY <1>6, <2>4
    <3> QED
      BY <1>1, <2>5, <2>7, <3>1
  <2>9. StoreShape'
    BY <1>1, <1>5, <2>2, <2>4 DEF StoreInv, StoreShape
  <2> QED
    BY <2>2, <2>8, <2>9 DEF StoreInv
<1> QED
  BY <1>7, <1>8

LEMMA CommitKeeps ==
  ASSUME StoreInv, NEW e \in Entities, Store!Commit(e)
  PROVE  StoreInv'
<1>1. /\ fields' = [fields EXCEPT ![e].flag = Store!Shown(e)]
      /\ overlay' = [overlay EXCEPT ![e] = None]
      /\ journal' = [journal EXCEPT ![e] = None]
      /\ UNCHANGED <<rows, answered, Store!search, cache>>
  BY DEF Store!Commit
<1>2. Store!Shown(e) \in BOOLEAN
  BY DEF Store!Shown, StoreInv, StoreShape, FieldRecords
<1>3. IndexHolds' /\ fields' \in [Entities -> FieldRecords]
  BY <1>1, <1>2, FlagKeeps
<1>4. /\ journal' \in [Entities -> ChangeRecords \cup {None}]
      /\ overlay' \in [Entities -> BOOLEAN \cup {None}]
      /\ \A x \in Entities : journal'[x] = None \/ journal'[x] = journal[x]
  BY <1>1 DEF StoreInv, StoreShape
<1>5. RowsStand'
  BY <1>1, <1>4 DEF StoreInv, RowsStand
<1> QED
  BY <1>1, <1>3, <1>4, <1>5 DEF StoreInv, StoreShape

\* A removal that is taken back before the rows changed returns its row.
LEMMA RollbackKeeps ==
  ASSUME StoreInv, NEW e \in Entities, Store!Rollback(e)
  PROVE  StoreInv'
<1> DEFINE old_ == journal[e]
           at == IF old_.at > Len(rows) THEN Len(rows) + 1 ELSE old_.at
<1>1. /\ old_ # None
      /\ overlay' = [overlay EXCEPT ![e] = old_.previous]
      /\ \/ /\ old_.current
            /\ rows' = Store!InsertAt(rows, at, e)
            /\ journal' = [Store!Outdated EXCEPT ![e] = None]
            /\ Store!SourceChanged(fields, rows')
         \/ journal' = [journal EXCEPT ![e] = None] /\ UNCHANGED <<rows, Store!search>>
      /\ UNCHANGED <<fields, answered, cache>>
  BY DEF Store!Rollback
<1>2. /\ old_ \in ChangeRecords /\ rows \in Seq(Entities) /\ Len(rows) \in Nat
      /\ fields \in [Entities -> FieldRecords]
  BY <1>1 DEF StoreInv, StoreShape
<1>3. overlay' \in [Entities -> BOOLEAN \cup {None}]
  BY <1>1, <1>2 DEF StoreInv, StoreShape, ChangeRecords
<1>4. CASE /\ old_.current
           /\ rows' = Store!InsertAt(rows, at, e)
           /\ journal' = [Store!Outdated EXCEPT ![e] = None]
           /\ Store!SourceChanged(fields, rows')
  <2>1. old_.at \in 1 .. Len(rows) + 1
        /\ Store!IsWithin(Store!InsertAt(rows, old_.at, e), answered)
    BY <1>1, <1>4 DEF StoreInv, RowsStand
  <2>2. at = old_.at
    BY <1>2, <2>1
  <2> HIDE DEF at, old_
  <2>3. rows' \in Seq(Entities) /\ Store!IsWithin(rows', answered)
    BY <1>2, <1>4, <2>1, <2>2, InsertedFacts
  <2>4. /\ journal' \in [Entities -> ChangeRecords \cup {None}]
        /\ \A x \in Entities : journal'[x] = None \/ ~ journal'[x].current
    BY <1>4, RemovalsOutdated DEF StoreInv
  <2>5. RowsStand'
    BY <1>1, <2>3, <2>4, NothingToTakeBack
  <2>6. IndexHolds'
    BY <1>1, <1>2, <1>4, <2>3, TitlesOf, SourceChangedKeeps DEF StoreInv
  <2>7. StoreShape'
    BY <1>1, <1>3, <2>3, <2>4 DEF StoreInv, StoreShape
  <2> QED
    BY <2>5, <2>6, <2>7 DEF StoreInv
<1>5. CASE journal' = [journal EXCEPT ![e] = None] /\ UNCHANGED <<rows, Store!search>>
  <2>1. /\ journal' \in [Entities -> ChangeRecords \cup {None}]
        /\ \A x \in Entities : journal'[x] = None \/ journal'[x] = journal[x]
    BY <1>5 DEF StoreInv, StoreShape
  <2>2. RowsStand'
    BY <1>1, <1>5, <2>1 DEF StoreInv, RowsStand
  <2>3. IndexHolds'
    BY <1>1, <1>2, <1>5, SameTitles DEF StoreInv
  <2>4. StoreShape'
    BY <1>1, <1>3, <1>5, <2>1 DEF StoreInv, StoreShape
  <2> QED
    BY <2>2, <2>3, <2>4 DEF StoreInv
<1> QED
  BY <1>1, <1>4, <1>5

\* A row that a container loses goes from the answer too.
LEMMA RemoveRowKeeps ==
  ASSUME StoreInv, NEW e \in Entities, Store!RemoveRow(e)
  PROVE  StoreInv'
<1> DEFINE q == Store!SelectInSeq(answered, LAMBDA x : x = e)
           p == Store!Place(e)
<1>1. /\ Store!Contains(rows, e) /\ Store!Without(e) /\ journal' = Store!Outdated
      /\ answered' = Store!RemoveAt(answered, q)
      /\ UNCHANGED <<fields, overlay, cache>>
  BY DEF Store!RemoveRow
<1>2. /\ rows \in Seq(Entities) /\ answered \in Seq(Entities) /\ NoRepeats(answered)
      /\ Store!IsWithin(rows, answered)
  BY DEF StoreInv, StoreShape, RowsStand
<1>3. p # 0
  BY <1>1, <1>2, PlaceFacts DEF Store!Place
<1>4. /\ p \in DOMAIN rows /\ rows[p] = e /\ rows' = Store!RemoveAt(rows, p)
      /\ rows' \in Seq(Entities) /\ IndexHolds'
  BY <1>1, <1>3, WithoutKeeps
<1>5. q \in DOMAIN answered /\ answered[q] = e
  <2>1. PICK at \in [DOMAIN rows -> DOMAIN answered] :
          \A n \in DOMAIN rows : rows[n] = answered[at[n]]
    BY <1>2 DEF Store!IsWithin
  <2>2. Store!Contains(answered, e)
    <3>1. at[p] \in 1 .. Len(answered) /\ answered[at[p]] = e
      BY <1>2, <1>4, <2>1
    <3> QED
      BY <3>1 DEF Store!Contains
  <2> QED
    BY <1>2, <2>2, PlaceFacts
<1> HIDE DEF p, q
<1>6. Store!IsWithin(rows', answered')
  BY <1>1, <1>2, <1>4, <1>5, WithinBoth
<1>7. answered' \in Seq(Entities) /\ NoRepeats(answered')
  BY <1>1, <1>2, <1>5, RemovedFacts, LessRepeats
<1>8. /\ journal' \in [Entities -> ChangeRecords \cup {None}]
      /\ \A x \in Entities : journal'[x] = None \/ ~ journal'[x].current
  BY <1>1, RemovalsOutdated DEF StoreInv
<1>9. RowsStand'
  BY <1>6, <1>8, NothingToTakeBack
<1>10. StoreShape'
  BY <1>1, <1>4, <1>7, <1>8 DEF StoreInv, StoreShape
<1> QED
  BY <1>4, <1>9, <1>10 DEF StoreInv

LEMMA ClearKeeps ==
  ASSUME StoreInv, Store!Clear
  PROVE  StoreInv'
<1>1. /\ fields' = [e \in Entities |-> Store!Unknown]
      /\ overlay' = [e \in Entities |-> None] /\ journal' = [e \in Entities |-> None]
      /\ rows' = <<>> /\ answered' = <<>> /\ Store!SourceChanged(fields', rows')
      /\ cache' = cache
  BY DEF Store!Clear
<1>2. fields' \in [Entities -> FieldRecords]
  BY <1>1 DEF Store!Unknown, FieldRecords
<1>3. rows' \in Seq(Entities) /\ NoRepeats(answered')
  BY <1>1 DEF NoRepeats
<1>4. RowsStand'
  <2>1. Store!IsWithin(rows', answered')
    BY <1>1, <1>3, WithinItself
  <2> QED
    BY <1>1, <2>1, NothingToTakeBack
<1>5. IndexHolds'
  BY <1>1, <1>2, <1>3, TitlesOf, SourceChangedKeeps DEF StoreInv
<1>6. StoreShape'
  BY <1>1, <1>2, <1>3 DEF StoreInv, StoreShape
<1> QED
  BY <1>4, <1>5, <1>6 DEF StoreInv

LEMMA RestoreKeeps ==
  ASSUME StoreInv, Store!Restore
  PROVE  StoreInv'
<1>1. /\ cache # None
      /\ fields' = [e \in Entities |-> IF e \in Store!ToSet(cache.rows)
                                       THEN cache.fields[e] ELSE Store!Unknown]
      /\ Store!Synchronize(cache.rows)
      /\ Store!SourceChanged(fields', rows')
      /\ UNCHANGED <<overlay, cache>>
  BY DEF Store!Restore
<1>2. /\ cache.rows \in Seq(Entities) /\ NoRepeats(cache.rows)
      /\ \A e \in Store!ToSet(cache.rows) : cache.fields[e] \in FieldRecords
  BY <1>1 DEF StoreInv, StoreShape
<1>3. /\ RowsStand' /\ rows' = cache.rows /\ answered' = cache.rows
      /\ journal' \in [Entities -> ChangeRecords \cup {None}]
  BY <1>1, <1>2, ReplacedStand
<1>4. fields' \in [Entities -> FieldRecords]
  <2>1. Store!Unknown \in FieldRecords
    BY DEF Store!Unknown, FieldRecords
  <2> QED
    BY <1>1, <1>2, <2>1
<1>5. IndexHolds'
  BY <1>1, <1>2, <1>3, <1>4, TitlesOf, SourceChangedKeeps DEF StoreInv
<1>6. StoreShape'
  BY <1>1, <1>2, <1>3, <1>4 DEF StoreInv, StoreShape
<1> QED
  BY <1>3, <1>5, <1>6 DEF StoreInv

LEMMA SetSearchTextKeeps ==
  ASSUME StoreInv, NEW text \in SUBSET Grams, Store!SetSearchText(text)
  PROVE  StoreInv'
<1>1. /\ needle' = text /\ results' = Store!Rebuild(text, indexed, postings, unsorted)
      /\ UNCHANGED <<fields, overlay, rows, answered, journal, indexed, postings,
                     unsorted, cache>>
  BY DEF Store!SetSearchText, Store!table
<1>2. /\ indexed \in Texts /\ unsorted \in BOOLEAN
      /\ Covers(postings, indexed, unsorted)
      /\ indexed = Store!Indexed(fields, rows)
  BY DEF StoreInv, IndexHolds
<1>3. Matches(results', needle', indexed')
  BY <1>1, <1>2, RebuildFacts
<1>4. IndexHolds'
  BY <1>1, <1>2, <1>3 DEF IndexHolds
<1> QED
  BY <1>1, <1>4, RowsAlone DEF StoreInv, StoreShape

LEMMA StoreKeeps ==
  ASSUME StoreInv, [Store!Next]_(Store!storeVars)
  PROVE  StoreInv'
<1>1. CASE UNCHANGED Store!storeVars
  BY <1>1, StoreQuiet DEF Store!storeVars, Store!search
<1>2. ASSUME NEW new \in Store!Answers, NEW flag \in BOOLEAN,
             NEW version \in [Store!ToSet(new) -> Store!Versions],
             Store!SetQuery(new, version, flag)
      PROVE  StoreInv'
  BY <1>2, SetQueryKeeps
<1>3. ASSUME NEW e \in Entities,
             \/ \E flag \in BOOLEAN :
                  \/ Store!PatchFlag(e, flag)
                  \/ \E removes \in BOOLEAN : Store!BeginMutation(e, flag, removes)
             \/ \E title \in Store!ToSet(Titles) : Store!EditTitle(e, title)
             \/ Store!Commit(e) \/ Store!Rollback(e) \/ Store!RemoveRow(e)
      PROVE  StoreInv'
  BY <1>3, StoreConstants, PatchFlagKeeps, BeginMutationKeeps, EditTitleKeeps,
     CommitKeeps, RollbackKeeps, RemoveRowKeeps
<1>4. ASSUME NEW e \in Entities,
             \/ Store!BeginProtection(e) \/ Store!EndProtection(e)
             \/ Store!ServerChanges(e)
      PROVE  StoreInv'
  <2>1. UNCHANGED <<fields, overlay, rows, answered, journal, Store!search, cache>>
    BY <1>4 DEF Store!BeginProtection, Store!EndProtection, Store!ServerChanges
  <2> QED
    BY <2>1, StoreQuiet
<1>5. CASE Store!Save \/ Store!Clear \/ Store!Restore
  BY <1>5, SaveKeeps, ClearKeeps, RestoreKeeps
<1>6. ASSUME NEW text \in SUBSET Grams, Store!SetSearchText(text)
      PROVE  StoreInv'
  BY <1>6, SetSearchTextKeeps
<1> QED
  BY <1>1, <1>2, <1>3, <1>4, <1>5, <1>6 DEF Store!Next

LEMMA StoreAlways == Spec => []StoreInv
<1>1. Init => StoreInv
  BY StoreInit DEF Init
<1>2. StoreInv /\ [Next]_vars => StoreInv'
  BY StoreKeeps, ServiceSteps
<1> QED
  BY <1>1, <1>2, PTL DEF Spec

\* The rows that are shown are those of the last answer, in its order, less
\* those that an open or committed change took out: a change that is taken
\* back never returns a row the server left out of an answer given since.
THEOREM AnswersAlwaysStand == Spec => []ServerAnswersStand
<1>1. StoreInv => ServerAnswersStand
  BY DEF StoreInv, RowsStand, ServerAnswersStand, Store!ServerAnswersStand
<1> QED
  BY <1>1, StoreAlways, PTL

\* A search shows exactly the rows whose titles match, each once and in order,
\* whether the gram index was built anew or brought up to date, with lists that
\* are stale, out of order and repeat rows.
THEOREM ResultsAlwaysMatch == Spec => []ResultsMatchFilter
<1>1. ASSUME StoreInv PROVE ResultsMatchFilter
  <2>1. DOMAIN indexed = DOMAIN rows
        /\ \A i \in DOMAIN rows : indexed[i] = Store!Title(fields, rows[i])
    BY <1>1 DEF StoreInv, IndexHolds, Store!Indexed
  <2> QED
    BY <1>1, <2>1
    DEF StoreInv, IndexHolds, Matches, ResultsMatchFilter, Store!ResultsMatchFilter
<1>2. StoreInv => ResultsMatchFilter
  BY <1>1
<1> QED
  BY <1>2, StoreAlways, PTL
-----------------------------------------------------------------------------
\* RefreshTracking.

\* Behind the fence no timer runs and no operation is answered.
TrackingShape ==
  /\ op \in [Items -> {"none", "scan", "refresh"}]
  /\ refreshSession \in {"open", "fenced", "shut"}
  /\ timer \in BOOLEAN
  /\ refreshSession # "open" => ~ timer /\ \A i \in Items : op[i] = "none"

\* What is over is among what is tracked; a completion is kept as a recent one
\* only when nobody tracked its item.
MarksFit ==
  /\ aged \subseteq metadata /\ due \subseteq release
  /\ hidden \subseteq scans
  /\ recent \cap metadata = {}

TrackingInv == TrackingShape /\ MarksFit /\ Refresh!TrackingIsExact

LEMMA TrackingInit == Refresh!Init => TrackingInv
  BY DEF Refresh!Init, TrackingInv, TrackingShape, MarksFit, Refresh!TrackingIsExact

\* The messages of a poll: what is done passes from the tracked refreshes to
\* the releases that wait, so what is protected stays.
LEMMA ApplyKeeps ==
  ASSUME TrackingInv, NEW done, NEW seen, Refresh!Apply(done, seen),
         seen \subseteq scans \ done,
         refreshSession' = "open", op' = op
  PROVE  TrackingInv'
<1> USE DEF TrackingInv, Refresh!Apply, Refresh!TimerNeeded
<1>1. timer' \in BOOLEAN
  OBVIOUS
<1>2. TrackingShape'
  BY <1>1 DEF TrackingShape
<1>3. MarksFit'
  BY DEF MarksFit
<1>4. protected' = metadata' \cup release' /\ metadata' \cap release' = {}
  BY DEF MarksFit, Refresh!TrackingIsExact
<1>5. timer' <=> protected' # {}
  BY <1>4
<1>6. shown' = scans' \ hidden'
  BY DEF MarksFit, Refresh!TrackingIsExact
<1> QED
  BY <1>2, <1>3, <1>4, <1>5, <1>6 DEF Refresh!TrackingIsExact

LEMMA DeliveryKeeps ==
  ASSUME TrackingInv, Refresh!PollDelivered
  PROVE  TrackingInv'
<1> USE DEF Refresh!PollDelivered
<1>1. CASE UNCHANGED <<refreshSession, op>> /\ UNCHANGED Refresh!asked
  BY <1>1 DEF TrackingInv, TrackingShape, MarksFit, Refresh!TrackingIsExact,
              Refresh!asked
<1>2. CASE refreshSession = "open" /\
           \E seen \in SUBSET (scans \cap jobs) : Refresh!Apply(taken, seen \ taken)
  BY <1>2, ApplyKeeps
<1> QED
  BY <1>1, <1>2

LEMMA AbortKeeps ==
  ASSUME TrackingInv, Refresh!Abort
  PROVE  TrackingInv'
<1> USE DEF Refresh!Abort
<1>1. CASE buffered # None
  BY <1>1, ApplyKeeps
<1>2. CASE buffered = None
  BY <1>2 DEF TrackingInv, TrackingShape, MarksFit, Refresh!TrackingIsExact,
              Refresh!TimerNeeded
<1> QED
  BY <1>1, <1>2

\* A refresh that begins takes the place of the release that waits.
LEMMA AnswerKeeps ==
  ASSUME TrackingInv, NEW i \in Items, Refresh!Answered(i)
  PROVE  TrackingInv'
<1> USE DEF Refresh!Answered, TrackingInv
<1>1. refreshSession = "open" /\ refreshSession' = "open"
  BY DEF TrackingShape
<1>2. op' \in [Items -> {"none", "scan", "refresh"}]
  BY DEF TrackingShape
<1>3. CASE UNCHANGED Refresh!asked
  BY <1>1, <1>2, <1>3
  DEF TrackingShape, MarksFit, Refresh!TrackingIsExact, Refresh!asked
<1>4. CASE Refresh!TrackScan(i)
  <2>1. TrackingShape' /\ MarksFit'
    BY <1>1, <1>2, <1>4 DEF TrackingShape, MarksFit, Refresh!TrackScan
  <2>2. shown' = scans' \ hidden'
    BY <1>4 DEF MarksFit, Refresh!TrackScan, Refresh!TrackingIsExact
  <2> QED
    BY <1>1, <1>4, <2>1, <2>2 DEF Refresh!TrackScan, Refresh!TrackingIsExact
<1>5. CASE Refresh!TrackMetadata(i)
  <2> USE <1>5 DEF Refresh!TrackMetadata, Refresh!OtherReleases
  <2>1. TrackingShape' /\ MarksFit'
    BY <1>1, <1>2 DEF TrackingShape, MarksFit
  <2>2. protected' = metadata' \cup release' /\ metadata' \cap release' = {}
    BY DEF MarksFit, Refresh!TrackingIsExact
  <2>3. timer' /\ protected' # {}
    OBVIOUS
  <2> QED
    BY <2>1, <2>2, <2>3 DEF Refresh!TrackingIsExact
<1> QED
  BY <1>3, <1>4, <1>5

LEMMA FallbackKeeps ==
  ASSUME TrackingInv, Refresh!Fallback
  PROVE  TrackingInv'
<1> USE DEF Refresh!Fallback, TrackingInv
<1>1. refreshSession = "open" /\ timer' \in BOOLEAN
  BY DEF TrackingShape, Refresh!TimerNeeded
<1>2. TrackingShape' /\ MarksFit'
  BY <1>1 DEF TrackingShape, MarksFit
<1>3. protected' = metadata' \cup release' /\ metadata' \cap release' = {}
  BY <1>1 DEF MarksFit, Refresh!TrackingIsExact
<1> QED
  BY <1>1, <1>2, <1>3 DEF Refresh!TrackingIsExact, Refresh!TimerNeeded

LEMMA TrackingKeeps ==
  ASSUME TrackingInv, [Refresh!Next]_(Refresh!refreshVars)
  PROVE  TrackingInv'
<1> USE DEF TrackingInv, TrackingShape, MarksFit, Refresh!TrackingIsExact
<1>1. CASE UNCHANGED Refresh!refreshVars
  BY <1>1 DEF Refresh!refreshVars, Refresh!asked
<1>2. CASE Refresh!Ages
  BY <1>2 DEF Refresh!Ages
<1>3. CASE Refresh!Commit
  BY <1>3 DEF Refresh!Commit, Refresh!Reset
<1>4. CASE Refresh!PollTick \/ Refresh!PollReturns
  BY <1>4 DEF Refresh!PollTick, Refresh!PollReturns, Refresh!asked
<1>5. ASSUME NEW i \in Items, NEW kind \in {"scan", "refresh"},
             Refresh!Request(i, kind)
      PROVE  TrackingInv'
  BY <1>5 DEF Refresh!Request
<1>6. ASSUME NEW i \in Items, Refresh!Begins(i) \/ Refresh!Ends(i)
      PROVE  TrackingInv'
  BY <1>6 DEF Refresh!Begins, Refresh!Ends, Refresh!asked
<1>7. ASSUME NEW i \in Items, Refresh!Forget(i)
      PROVE  TrackingInv'
  BY <1>7 DEF Refresh!Forget
<1>8. CASE Refresh!Fence
  BY <1>8 DEF Refresh!Fence
<1>9. CASE Refresh!Shutdown
  BY <1>9 DEF Refresh!Shutdown, Refresh!Reset
<1> QED
  BY <1>1, <1>2, <1>3, <1>4, <1>5, <1>6, <1>7, <1>8, <1>9, DeliveryKeeps,
     AbortKeeps, AnswerKeeps, FallbackKeeps
  DEF Refresh!Next, Refresh!Progress

\* The tracking of scans and metadata refreshes, for any items and however
\* requests, messages, polls, limits and transitions cross: an item is protected
\* exactly while its refresh is tracked or its release waits, never both, the
\* timer that lifts the protection runs, and no indicator outlives its scan.
THEOREM TrackingAlwaysExact == Spec => []TrackingIsExact
<1>1. Init => TrackingInv
  BY TrackingInit DEF Init
<1>2. TrackingInv /\ [Next]_vars => TrackingInv'
  BY ServiceSteps, TrackingKeeps
<1>3. TrackingInv => TrackingIsExact
  BY DEF TrackingInv, TrackingIsExact
<1> QED
  BY <1>1, <1>2, <1>3, PTL DEF Spec
=============================================================================
