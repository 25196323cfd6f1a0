----------------------------- MODULE WebSession -----------------------------
(***************************************************************************)
(* The anonymous session of a browser: the session coordinator of each tab,*)
(* the session they share in localStorage, the operations of App that use  *)
(* it and the requests in flight.  The server is reduced to its accounts   *)
(* and their saved routes (module UserData has the rest); it may end a     *)
(* session by expiry, which the browser sees too, or lose it.              *)
(***************************************************************************)
EXTENDS Integers, FiniteSets

CONSTANTS
    Tabs,      \* open pages of the application
    Ops,       \* what the user does, each at most once
    MaxUsers,  \* bound: sessions ever issued to this browser
    MaxEnds,   \* bound: sessions that end on the server
    MaxLost    \* bound: requests that fail in the network

ASSUME ConstantsAssumption ==
    /\ IsFiniteSet(Tabs) /\ Tabs # {} /\ IsFiniteSet(Ops)
    /\ {MaxUsers, MaxEnds, MaxLost} \subseteq Nat

VARIABLES
    accounts,   \* server: live sessions
    saved,      \* server: rows, a user and the operation that saved the route
    lastUser,   \* server: users so far
    expired,    \* sessions whose expiry has passed
    stored,     \* localStorage: the session's user, 0 for none
    creation,   \* per tab: the creation in flight
    op,         \* the operations
    shown,      \* per tab: the saved routes listed
    ends, lost, \* bounded counts
    overlapped  \* history: an operation began while another was in flight

server  == <<accounts, saved, lastUser, expired>>
browser == <<stored, creation, shown>>
vars    == <<server, browser, op, ends, lost, overlapped>>

Users == 1 .. MaxUsers
Row   == [user : Users, op : Ops]
Kinds == {"save", "list", "remove", "erase"}
NoCreation == [pc |-> "none", user |-> 0]
NoOp  == [pc |-> "idle", kind |-> "save", tab |-> CHOOSE t \in Tabs : TRUE, token |-> 0,
          attempt |-> 1, status |-> 0, target |-> {}]

(***************************************************************************)
(* The type invariant.                                                     *)
(***************************************************************************)
TypeOK ==
    /\ accounts \subseteq Users /\ saved \subseteq Row /\ expired \subseteq Users
    /\ {lastUser, stored} \subseteq 0 .. MaxUsers
    /\ creation \in [Tabs -> [pc : {"none", "sent", "issued", "failed"}, user : 0 .. MaxUsers]]
    /\ op \in [Ops -> [pc : {"idle", "creating", "sent", "answered", "done"}, kind : Kinds,
                       tab : Tabs, token : 0 .. MaxUsers, attempt : {1, 2},
                       status : {0, 200, 401, 404}, target : SUBSET Ops]]
    /\ shown \in [Tabs -> SUBSET Ops]
    /\ ends \in 0 .. MaxEnds /\ lost \in 0 .. MaxLost
    /\ overlapped \in BOOLEAN

Init ==
    /\ accounts = {} /\ saved = {} /\ lastUser = 0 /\ expired = {}
    /\ stored = 0
    /\ creation = [t \in Tabs |-> NoCreation]
    /\ op = [o \in Ops |-> NoOp]
    /\ shown = [t \in Tabs |-> {}]
    /\ ends = 0 /\ lost = 0
    /\ overlapped = FALSE

-----------------------------------------------------------------------------
(* The coordinator. *)

InFlight(o) == op[o].pc \notin {"idle", "done"}

\* storedSession: an expired session counts as none, and is removed.
Read == IF stored \in expired THEN 0 ELSE stored

AcquireUnshared(o, q, token) ==  \* mutant: the creation in flight is dropped
    IF token # 0
    THEN /\ op' = [op EXCEPT ![o] = [q EXCEPT !.pc = "sent", !.token = token]]
         /\ UNCHANGED creation
    ELSE /\ op' = [op EXCEPT ![o] = [q EXCEPT !.pc = "creating"]]
         /\ creation' = [creation EXCEPT ![q.tab] = [pc |-> "sent", user |-> 0]]

\* token(): the stored session's, unless a new one is forced; else the creation in
\* flight is shared or a new one begins.
Acquire(o, q, token) ==
    IF token # 0
    THEN /\ op' = [op EXCEPT ![o] = [q EXCEPT !.pc = "sent", !.token = token]]
         /\ UNCHANGED creation
    ELSE /\ op' = [op EXCEPT ![o] = [q EXCEPT !.pc = "creating"]]
         /\ creation' = IF creation[q.tab] = NoCreation
                        THEN [creation EXCEPT ![q.tab].pc = "sent"] ELSE creation

ResumeOne(t, q) ==  \* mutant: only the operation that began the creation goes on
    LET waiting == {o \in Ops : op[o].pc = "creating" /\ op[o].tab = t}
        first == CHOOSE o \in waiting : TRUE
    IN  [o \in Ops |-> IF waiting # {} /\ o = first THEN q[o] ELSE op[o]]

\* The operations of tab t that await its creation go on with its result.
Resume(t, q) == [o \in Ops |->
    IF op[o].pc = "creating" /\ op[o].tab = t THEN q[o] ELSE op[o]]

SessionCreated(t) ==
    /\ creation[t].pc = "issued"
    /\ stored' = creation[t].user
    /\ creation' = [creation EXCEPT ![t] = NoCreation]
    /\ op' = Resume(t, [o \in Ops |-> [op[o] EXCEPT !.pc = "sent", !.token = creation[t].user]])
    /\ UNCHANGED <<server, shown, ends, lost, overlapped>>

CreationFailed(t) ==
    /\ creation[t].pc = "failed"
    /\ creation' = [creation EXCEPT ![t] = NoCreation]
    /\ op' = Resume(t, [o \in Ops |-> [op[o] EXCEPT !.pc = "done"]])
    /\ UNCHANGED <<server, stored, shown, ends, lost, overlapped>>

-----------------------------------------------------------------------------
(* The user. *)

Begin(o) ==
    /\ op[o].pc = "idle"
    /\ overlapped' = (overlapped \/ \E p \in Ops : InFlight(p))
    /\ stored' = Read
    /\ UNCHANGED <<server, ends, lost>>

\* saveSelectedRoute, with an idempotency key of its own.
Save(o, t) ==
    /\ Begin(o) /\ Acquire(o, [NoOp EXCEPT !.tab = t], Read)
    /\ UNCHANGED shown

\* On opening the page, when it finds a session.
List(o, t) ==
    LET q == [NoOp EXCEPT !.kind = "list", !.tab = t] IN
    /\ Read # 0
    /\ \A p \in Ops : InFlight(p) => op[p].tab # t
    /\ Begin(o) /\ Acquire(o, q, Read)
    /\ shown' = [shown EXCEPT ![t] = {}]

RemoveSavedRoute(o, t) ==
    \E target \in shown[t] :
        LET q == [NoOp EXCEPT !.kind = "remove", !.tab = t, !.target = {target}]
        IN  Begin(o) /\ Acquire(o, q, Read) /\ UNCHANGED shown

\* The saves the user has been told of.
Reported == {o \in Ops : op[o].kind = "save" /\ op[o].pc = "done" /\ op[o].status = 200}

\* removeAllUserData: no coordinator, no new session; the button is locked meanwhile.
\* target is history here: what the user knows to be saved when asking.
RemoveAllUserData(o, t) ==
    LET q == [NoOp EXCEPT !.kind = "erase", !.tab = t, !.token = Read, !.target = Reported] IN
    /\ \A p \in Ops : InFlight(p) => op[p].kind # "erase" \/ op[p].tab # t
    /\ Begin(o)
    /\ \/ /\ Read # 0
          /\ op' = [op EXCEPT ![o] = [q EXCEPT !.pc = "sent"]]
          /\ UNCHANGED shown
       \/ /\ Read = 0  \* nothing to await: done at once
          /\ op' = [op EXCEPT ![o] = [q EXCEPT !.pc = "done", !.status = 200]]
          /\ shown' = [shown EXCEPT ![t] = {}]
    /\ UNCHANGED creation

-----------------------------------------------------------------------------
(* The network and the server. *)

Replied(o, status) == [op EXCEPT ![o].pc = "answered", ![o].status = status]

RowsOf(u) == {x \in saved : x.user = u}

\* A request with a token the server does not know, or of an account that is gone.
Refuse(o) ==
    /\ op[o].token \notin accounts
    /\ op' = Replied(o, 401)
    /\ UNCHANGED server

Perform(o) ==
    LET q == op[o]
        mine == {x \in RowsOf(q.token) : x.op \in q.target} IN
    /\ q.token \in accounts
    /\ CASE q.kind = "save" -> /\ saved' = saved \cup {[user |-> q.token, op |-> o]}
                               /\ op' = Replied(o, 200) /\ UNCHANGED accounts
         [] q.kind = "list" -> /\ op' = [Replied(o, 200) EXCEPT ![o].target =
                                           {x.op : x \in RowsOf(q.token)}]
                               /\ UNCHANGED <<saved, accounts>>
         [] q.kind = "remove" -> /\ saved' = saved \ mine
                                 /\ op' = Replied(o, IF mine = {} THEN 404 ELSE 200)
                                 /\ UNCHANGED accounts
         [] q.kind = "erase" -> /\ accounts' = accounts \ {q.token}
                                /\ saved' = saved \ RowsOf(q.token)
                                /\ op' = Replied(o, 200)
    /\ UNCHANGED <<lastUser, expired>>

Serve(o) ==
    /\ op[o].pc = "sent"
    /\ Refuse(o) \/ Perform(o)
    /\ UNCHANGED <<browser, ends, lost, overlapped>>

\* The request or its answer is lost: NETWORK_ERROR, status 0.
LoseRequest(o) ==
    /\ lost < MaxLost /\ lost' = lost + 1
    /\ op[o].pc = "sent"
    /\ op' = Replied(o, 0)
    /\ UNCHANGED <<server, browser, ends, overlapped>>

LoseAnswer(o) ==
    /\ lost < MaxLost /\ lost' = lost + 1
    /\ op[o].pc = "answered" /\ op[o].status # 0
    /\ op' = Replied(o, 0)
    /\ UNCHANGED <<server, browser, ends, overlapped>>

\* POST /session.
Issue(t) ==
    /\ creation[t].pc = "sent" /\ lastUser < MaxUsers
    /\ lastUser' = lastUser + 1
    /\ accounts' = accounts \cup {lastUser'}
    /\ creation' = [creation EXCEPT ![t] = [pc |-> "issued", user |-> lastUser']]
    /\ UNCHANGED <<saved, expired, stored, op, shown, ends, lost, overlapped>>

\* It fails, or its answer is lost, or it is rate limited.
LoseCreation(t) ==
    /\ creation[t].pc \in {"sent", "issued"}
    /\ lost < MaxLost \/ lastUser = MaxUsers
    /\ lost' = IF lost < MaxLost THEN lost + 1 ELSE lost
    /\ creation' = [creation EXCEPT ![t] = [pc |-> "failed", user |-> 0]]
    /\ UNCHANGED <<server, stored, op, shown, ends, overlapped>>

\* The session expires, which localStorage records as well, or only the server loses it.
EndSession(u) ==
    /\ ends < MaxEnds /\ ends' = ends + 1
    /\ u \in accounts
    /\ accounts' = accounts \ {u}
    /\ saved' = saved \ RowsOf(u)
    /\ expired' \in {expired, expired \cup {u}}
    /\ UNCHANGED <<lastUser, browser, op, lost, overlapped>>

-----------------------------------------------------------------------------
(* Answers. *)

ForgetsOnFailure(q) == q.status # 200  \* mutant: any failure forgets the session

Forgets(q) ==
    \/ q.kind = "erase" /\ q.status \in {200, 401}
    \/ q.kind = "list" /\ q.status = 401

Finish(o) == op' = [op EXCEPT ![o].pc = "done"] /\ UNCHANGED creation

RecoverAlways(o) ==  \* mutant: a network error is repeated with a new session as well
    LET q == op[o] IN
    /\ q.pc = "answered" /\ q.status \in {0, 401} /\ q.kind # "erase" /\ q.attempt = 1
    /\ stored' = 0
    /\ Acquire(o, [q EXCEPT !.attempt = 2, !.status = 0], 0)
    /\ UNCHANGED <<server, shown, ends, lost, overlapped>>

\* run(): a 401 of the first attempt clears the session, whichever is stored by now,
\* and the operation is repeated once with a new one.
Recover(o) ==
    LET q == op[o] IN
    /\ q.pc = "answered" /\ q.status = 401 /\ q.kind # "erase" /\ q.attempt = 1
    /\ stored' = 0
    /\ Acquire(o, [q EXCEPT !.attempt = 2, !.status = 0], 0)
    /\ UNCHANGED <<server, shown, ends, lost, overlapped>>

\* Any other answer is final.
Conclude(o) ==
    LET q == op[o]
        ok == q.status = 200
        retried == q.status = 401 /\ q.attempt = 1 /\ q.kind # "erase"
    IN  /\ q.pc = "answered" /\ ~ retried
        /\ Finish(o)
        /\ stored' = IF Forgets(q) THEN 0 ELSE stored
        /\ shown' = [shown EXCEPT ![q.tab] =
              CASE ok /\ q.kind = "save" -> @ \cup {o}
                [] ok /\ q.kind = "list" -> q.target
                [] ok /\ q.kind = "remove" -> @ \ q.target
                [] q.kind = "erase" /\ q.status \in {200, 401} -> {}
                [] OTHER -> @]
        /\ UNCHANGED <<server, ends, lost, overlapped>>

-----------------------------------------------------------------------------
Act(o, t) == Save(o, t) \/ List(o, t) \/ RemoveSavedRoute(o, t) \/ RemoveAllUserData(o, t)

Lose(o) == LoseRequest(o) \/ LoseAnswer(o)

\* What the server and the pages do without the user.
Progress ==
    \/ \E o \in Ops : Serve(o) \/ Recover(o) \/ Conclude(o)
    \/ \E t \in Tabs : SessionCreated(t) \/ CreationFailed(t) \/ Issue(t) \/ LoseCreation(t)

AllDone == (\A o \in Ops : op[o].pc = "done") /\ UNCHANGED vars

Next ==
    \/ \E o \in Ops : (\E t \in Tabs : Act(o, t)) \/ Lose(o)
    \/ \E u \in accounts : EndSession(u)
    \/ Progress
    \/ AllDone

\* Requests are answered or fail, and the event loop runs their continuations.
Fairness == WF_vars(Progress)

Spec == Init /\ [][Next]_vars /\ Fairness
-----------------------------------------------------------------------------
(* Properties. *)

\* A save is stored at most once, although it may be sent twice, under two sessions.
SavedOnce == \A x, y \in saved : x.op = y.op => x = y

\* While the user's actions do not overlap, every route that was reported as saved
\* and still exists belongs to the session the browser holds, through expiry, lost
\* answers and renewals: it can be listed and deleted.
HeldUnlessOverlapped ==
    ~ overlapped => \A x \in saved : x.op \in Reported => stored = x.user

\* Operations that start together share one new session: each tab creates one at first,
\* and another only after an operation was repeated or has ended by forgetting the
\* session, a session has ended or a request was lost.
SharedCreation ==
    LET repeated == {o \in Ops : op[o].attempt = 2}
        cleared  == {o \in Ops : op[o].pc = "done" /\ Forgets(op[o])}
    IN  lastUser <= Cardinality(Tabs)
                      * (1 + Cardinality(repeated) + Cardinality(cleared) + ends + lost)

\* Every operation comes to an end, also when it waits for another one's creation.
OperationsEnd == \A o \in Ops : InFlight(o) ~> op[o].pc = "done"

\* What the page promises of "delete all": "the session, all saved routes and all
\* feedback" of this browser (App.tsx).  When it reports success, no route remains
\* that had been reported as saved before the user asked.
EraseCoversReportedRoutes ==
    [][\A o \in Ops :
          op'[o].kind = "erase" /\ op'[o].status = 200 /\ op[o].pc # "done" /\ op'[o].pc = "done"
          => \A x \in saved : x.op \notin op'[o].target]_vars
=============================================================================
