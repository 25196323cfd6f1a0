------------------------------ MODULE PlanView ------------------------------
(***************************************************************************)
(* The planning view of App in one page, composed with the anonymous       *)
(* session: searches, the routes they show, the map they are drawn on, and *)
(* the saves, removals and erasures that run beside them through the       *)
(* session's coordinator.                                                  *)
(***************************************************************************)
EXTENDS WebSession

CONSTANTS
    Page,         \* the tab
    MaxSearches,  \* bound: searches submitted
    RoutesEach    \* routes a search finds, at most

ASSUME ViewAssumption == Ops \subseteq Nat /\ Page \in Tabs /\ {MaxSearches, RoutesEach} \subseteq Nat \ {0}

VARIABLES
    submitted,  \* searches submitted so far; the last is lastRequest's
    active,     \* activeRequest: the search whose controller it is, 0 for none
    screen,     \* the search's status ("none": idle or an error), and the routes found
    selected,   \* selectedRouteId, {} or one route, which need not be on the screen
    map,        \* the AMap base map: its configuration or script pending, ready, or
                \* replaced by the SVG preview
    drawn,      \* the routes of the overlays on the map (overlaysRef)
    marked,     \* savedByResultRoute: the routes marked as saved, each with the save
                \* whose record it has
    saving,     \* savingRoutes: the routes being saved
    accepted,   \* legalAccepted
    holds       \* per operation: the route it saves

search   == <<submitted, active, screen, selected>>
basemap  == <<map, drawn>>
marks    == <<marked, saving, accepted, holds>>
viewVars == <<vars, search, basemap, marks>>

\* A route's identifier contains that of its request.
Routes == (1 .. MaxSearches) \X (1 .. RoutesEach)
NoRoute == <<0, 0>>
Idle == [status |-> "none", found |-> {}]

ViewTypeOK ==
    /\ TypeOK
    /\ {submitted, active} \subseteq 0 .. MaxSearches
    /\ screen \in [status : {"none", "loading", "success"}, found : SUBSET Routes]
    /\ selected \subseteq Routes /\ drawn \subseteq Routes
    /\ map \in {"pending", "ready", "preview"}
    /\ marked \subseteq Routes \X Ops /\ saving \subseteq Routes /\ accepted \in BOOLEAN
    /\ holds \in [Ops -> Routes \cup {NoRoute}]

ViewInit ==
    /\ Init
    /\ submitted = 0 /\ active = 0 /\ screen = Idle /\ selected = {}
    /\ map = "pending" /\ drawn = {}
    /\ marked = {} /\ saving = {} /\ accepted = FALSE
    /\ holds = [o \in Ops |-> NoRoute]

-----------------------------------------------------------------------------
(* The map. *)

\* The draw effect follows every change; without routes it leaves the overlays alone.
Draw ==
    drawn' = IF map' # "ready" THEN {} ELSE IF screen'.found = {} THEN drawn ELSE screen'.found

\* loadWebMapConfig: anything but a complete answer disables the map.
Unconfigured ==
    /\ map = "pending" /\ map' = "preview"
    /\ UNCHANGED <<vars, search, drawn, marks>>

\* The configuration came, and the script calls back: the map is created.
MapLoads ==
    /\ map = "pending" /\ map' = "ready"
    /\ UNCHANGED <<vars, search, marks>>
    /\ Draw

\* The script does not load or brings no AMap, or a layer that is switched on cannot be set.
MapFails ==
    /\ map \in {"pending", "ready"} /\ map' = "preview"
    /\ UNCHANGED <<vars, search, marks>>
    /\ Draw

\* A click on an overlay selects its route, on the screen or not.
ClickOverlay ==
    /\ \E r \in drawn \ selected : selected' = {r}
    /\ UNCHANGED <<vars, submitted, active, screen, basemap, marks>>

-----------------------------------------------------------------------------
(* Searches. *)

\* The consent box is ticked, or un-ticked.
Accept ==
    /\ accepted' = ~ accepted
    /\ UNCHANGED <<vars, search, basemap, marked, saving, holds>>

\* submit: the button is disabled while a search is loading and without consent.
Submit ==
    /\ screen.status # "loading" /\ accepted /\ submitted < MaxSearches
    /\ submitted' = submitted + 1 /\ active' = submitted'
    /\ screen' = [status |-> "loading", found |-> {}]
    /\ selected' = {} /\ marked' = {}
    /\ UNCHANGED <<vars, map, saving, accepted, holds>>
    /\ Draw

\* planRoutes: a plan, the first route of which is selected, or any failure.
SearchAnswers ==
    /\ active # 0 /\ active' = 0
    /\ \/ \E n \in 1 .. RoutesEach :
             /\ screen' = [status |-> "success", found |-> {active} \X (1 .. n)]
             /\ selected' = {<<active, 1>>}
       \/ screen' = Idle /\ UNCHANGED selected
    /\ UNCHANGED <<vars, submitted, map, marks>>
    /\ Draw

\* A card, the map's legend or a line of the preview.
Select ==
    /\ \E r \in screen.found \ selected : selected' = {r}
    /\ UNCHANGED <<vars, submitted, active, screen, basemap, marks>>

-----------------------------------------------------------------------------
(* Operations of the session, as the view sees them. *)

\* Operations are numbered as the user begins them.
Turn(o) == \A p \in Ops : p < o => op[p].pc # "idle"

SelectedRoute == selected \cap screen.found

MarkedRoutes == {m[1] : m \in marked}

SaveFromMap(o) ==  \* mutant: the route is not looked up among those of the screen
    \E r \in selected \ (MarkedRoutes \cup saving) :
        /\ Save(o, Page)
        /\ holds' = [holds EXCEPT ![o] = r] /\ saving' = saving \cup {r}
        /\ UNCHANGED <<search, basemap, marked, accepted>>

\* saveSelectedRoute, with an idempotency key of this call: unless the route is marked,
\* or is being saved.
SaveSelectedRoute(o) ==
    \E r \in SelectedRoute \ (MarkedRoutes \cup saving) :
        /\ Save(o, Page)
        /\ holds' = [holds EXCEPT ![o] = r] /\ saving' = saving \cup {r}
        /\ UNCHANGED <<search, basemap, marked, accepted>>

\* The page is opened anew and lists the saved routes.
Reload(o) ==
    /\ List(o, Page)
    /\ active' = 0 /\ screen' = Idle /\ selected' = {} /\ marked' = {} /\ saving' = {}
    /\ map' = "pending" /\ Draw
    /\ UNCHANGED <<submitted, accepted, holds>>

\* What the ends of operations do to the marks: a save sets that of its route, and a
\* removal takes the record away from whichever route has it.
Follow ==
    LET ended(kind, statuses) == {o \in Ops : op[o].pc # "done" /\ op'[o].pc = "done"
                                    /\ op'[o].kind = kind /\ op'[o].status \in statuses}
        stays(m) == /\ \A o \in ended("save", {200}) : m[1] # holds[o]
                    /\ \A o \in ended("remove", {200}) : m[2] \notin op[o].target
        erased == ended("erase", {200, 401}) # {}
    IN  /\ saving' = saving \ {holds[o] : o \in ended("save", {0, 200, 401, 404})}
        /\ marked' = IF erased THEN {}
                     ELSE {m \in marked : stays(m)} \cup {<<holds[o], o>> : o \in ended("save", {200})}
        /\ accepted' = (accepted /\ ~ erased)
        /\ UNCHANGED <<search, basemap, holds>>

-----------------------------------------------------------------------------
ViewProgress == Progress /\ Follow

RemoveOrErase(o) == (RemoveSavedRoute(o, Page) \/ RemoveAllUserData(o, Page)) /\ Follow

ViewNext ==
    \/ Accept \/ Submit \/ SearchAnswers \/ Select
    \/ Unconfigured \/ MapLoads \/ MapFails \/ ClickOverlay
    \/ \E o \in Ops : Turn(o) /\ (SaveSelectedRoute(o) \/ Reload(o) \/ RemoveOrErase(o))
    \/ (\E o \in Ops : Lose(o)) /\ Follow
    \/ (\E u \in accounts : EndSession(u)) /\ Follow
    \/ ViewProgress
    \/ AllDone /\ UNCHANGED <<search, basemap, marks>>

ViewSpec == ViewInit /\ [][ViewNext]_viewVars /\ WF_viewVars(ViewProgress)
-----------------------------------------------------------------------------
(* Properties. *)

\* A route is recorded once per account, although each save has a new idempotency key:
\* the marks and the saves in progress keep the user from saving it again.  Excused: a
\* lost answer, after which the user may well repeat a save that has succeeded.
OneRecordPerRoute ==
    lost = 0 => \A x, y \in saved :
                    x.user = y.user /\ holds[x.op] = holds[y.op] => x = y

\* Only a route of the list is marked as saved, unless operations overlap: then the list
\* of saved routes may be replaced by an older one.
MarkedIsListed ==
    ~ overlapped => \A m \in marked : m[2] \in shown[Page]

\* What the view shows, and of saved routes in particular, is true: the two above, every
\* variable of its type, the routes on the screen those of the last search, whose
\* controller a loading one has, and drawn on the map once that is ready.
MarksSound ==
    /\ ViewTypeOK
    /\ OneRecordPerRoute
    /\ MarkedIsListed
    /\ \A r \in screen.found : r[1] = submitted
    /\ screen.status = "loading" <=> active # 0 /\ active = submitted
    /\ map = "ready" /\ screen.found # {} => drawn = screen.found
=============================================================================
