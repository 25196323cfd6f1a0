--------------------------- MODULE PlanViewProofs ---------------------------
(***************************************************************************)
(* The browser, for every set of tabs and of operations and every number   *)
(* of sessions, ends, losses and searches.  First the session: what is     *)
(* saved is saved once, belongs to the session the browser holds unless    *)
(* operations overlap, and no more sessions are created than the tabs need. *)
(* Then the view of one page: it is an implementation of the session, and   *)
(* what it marks as saved is.                                              *)
(***************************************************************************)
EXTENDS PlanView, FiniteSetTheorems, TLAPS

(* The inductive invariant of the session. *)

\* A save whose first request has been answered is never sent again unless it was refused.
Settled(q) ==
    /\ q.kind = "save"
    /\ q.pc = "done" \/ (q.pc = "answered" /\ q.status \in {0, 200})

\* The answer of a request says that its account is gone.
Refused(q) ==
    q.pc = "answered" /\ (q.status = 401 \/ (q.kind = "erase" /\ q.status = 200))

\* Users are numbered as they are issued; a session that has expired is no account.
UsersInv ==
    /\ accounts \subseteq 1 .. lastUser /\ expired \subseteq 1 .. lastUser
    /\ accounts \cap expired = {}
    /\ stored <= lastUser
    /\ \A o \in Ops : op[o].token <= lastUser

\* A row belongs to the account whose token its save was sent with.
RowsInv == \A x \in saved : Settled(op[x.op]) /\ x.user = op[x.op].token /\ x.user \in accounts

\* Only settled saves are listed, and what a refusal, a removal and an erasure say is true.
OpsInv ==
    /\ \A t \in Tabs : \A s \in shown[t] : Settled(op[s])
    /\ \A o \in Ops :
         /\ op[o].pc = "idle" => op[o] = NoOp
         /\ op[o].pc \in {"creating", "sent"} => op[o].status = 0
         /\ op[o].pc = "creating" => op[o].kind # "erase" /\ creation[op[o].tab].pc # "none"
         /\ Refused(op[o]) => op[o].token \notin accounts
         /\ \A s \in op[o].target : Settled(op[s])
         /\ op[o].kind = "remove" => \A s, u \in op[o].target : s = u
         /\ op[o].kind = "remove" /\ op[o].status = 200 => \A x \in saved : x.op \notin op[o].target

\* A creation has an operation that awaits it, and the user it was issued is its own secret.
CreationsInv ==
    /\ \A t \in Tabs :
         /\ creation[t].pc # "none" => \E o \in Ops : op[o].pc = "creating" /\ op[o].tab = t
         /\ creation[t].pc # "issued" => creation[t].user = 0
         /\ creation[t].pc = "issued" =>
              /\ creation[t].user \in 1 .. lastUser /\ creation[t].user # stored
              /\ \A o \in Ops : op[o].token # creation[t].user
    /\ \A s, t \in Tabs : creation[s].pc = "issued" /\ creation[s].user = creation[t].user => s = t

\* Without overlap the one operation in flight works with the session that is stored, or
\* awaits one while none is.
AloneInv ==
    ~ overlapped =>
      /\ \A o, p \in Ops : InFlight(o) /\ InFlight(p) => o = p
      /\ \A o \in Ops : /\ op[o].pc \in {"sent", "answered"} => op[o].token = stored
                        /\ op[o].pc = "creating" => stored = 0

SessionInv ==
    /\ TypeOK /\ UsersInv /\ RowsInv /\ OpsInv /\ CreationsInv /\ AloneInv
    /\ HeldUnlessOverlapped

(* What SharedCreation counts. *)

Repeated == {o \in Ops : op[o].attempt = 2}
Cleared  == {o \in Ops : op[o].pc = "done" /\ Forgets(op[o])}

\* Tabs that may create a session before another reason to create one arises, and
\* tabs about to store a session that has expired already.
Due  == {t \in Tabs : \/ creation[t].pc = "sent"
                      \/ creation[t].pc \in {"none", "failed"} /\ Read = 0}
Late == {t \in Tabs : creation[t].pc = "issued" /\ creation[t].user \in expired}

Reasons == 1 + Cardinality(Repeated) + Cardinality(Cleared) + ends + lost
Width   == Cardinality(Tabs)

CountInv ==
    /\ lastUser <= Width * Reasons
    /\ lastUser < MaxUsers =>
         lastUser + Cardinality(Due) + Width * Cardinality(Late) <= Width * Reasons

-----------------------------------------------------------------------------
(* The inductive invariant of the view. *)

Saves(o) == op[o].kind = "save" /\ InFlight(o)

PageInv == \A o \in Ops : op[o].pc # "idle" => op[o].tab = Page

\* The routes of a search are those of the last, and none that is saved is of a search
\* in progress.
SearchInv ==
    /\ active \in {0, submitted}
    /\ screen.status = "loading" <=> active # 0
    /\ screen.status # "success" => screen.found = {}
    /\ \A r \in screen.found : r[1] = submitted
    /\ \A o \in Ops : holds[o][1] <= submitted /\ (active # 0 => holds[o][1] < active)
    /\ map = "ready" /\ screen.found # {} => drawn = screen.found

\* Saves in flight are of different routes.
SavingInv ==
    /\ \A o \in Ops : Saves(o) => holds[o] \in saving
    /\ \A o, p \in Ops : Saves(o) /\ Saves(p) /\ holds[o] = holds[p] => o = p

\* Without a loss, what is saved under the stored session is marked or about to be, and
\* no row is in the way of a save in flight.
RecordsInv ==
    lost = 0 =>
      /\ \A x \in saved : op[x.op].status = 200
      /\ \A x \in saved : x.user = stored /\ holds[x.op] \in screen.found =>
            <<holds[x.op], x.op>> \in marked \/ InFlight(x.op)
      /\ \A o \in Ops : \A x \in saved :
            Saves(o) /\ x.op # o /\ holds[x.op] = holds[o] => x.user # op[o].token /\ x.user # stored
      /\ OneRecordPerRoute

ListInv ==
    ~ overlapped => \A o \in Ops : op[o].kind = "list" /\ InFlight(o) => marked = {}

ViewInv ==
    /\ ViewTypeOK /\ SessionInv
    /\ PageInv /\ SearchInv /\ SavingInv /\ RecordsInv /\ ListInv /\ MarkedIsListed

-----------------------------------------------------------------------------
(* How operations change. *)

Operation == [pc : {"idle", "creating", "sent", "answered", "done"}, kind : Kinds,
              tab : Tabs, token : 0 .. MaxUsers, attempt : {1, 2},
              status : {0, 200, 401, 404}, target : SUBSET Ops]
Creation  == [pc : {"none", "sent", "issued", "failed"}, user : 0 .. MaxUsers]

LEMMA Types ==
    ASSUME TypeOK
    PROVE  /\ op \in [Ops -> Operation] /\ creation \in [Tabs -> Creation]
           /\ lastUser \in Nat /\ stored \in Nat /\ ends \in Nat /\ lost \in Nat
           /\ MaxUsers \in Nat /\ MaxEnds \in Nat /\ MaxLost \in Nat
<1>1. op \in [Ops -> Operation] /\ creation \in [Tabs -> Creation]
  BY Zenon DEF TypeOK, Operation, Creation
<1>2. /\ lastUser \in 0 .. MaxUsers /\ stored \in 0 .. MaxUsers
      /\ ends \in 0 .. MaxEnds /\ lost \in 0 .. MaxLost
  BY DEF TypeOK
<1>3. MaxUsers \in Nat /\ MaxEnds \in Nat /\ MaxLost \in Nat
  BY ConstantsAssumption
<1> QED BY <1>1, <1>2, <1>3

\* A session that does not count as stored is either none or expired.
LEMMA Reading ==
    ASSUME SessionInv
    PROVE  /\ Read = 0 \/ Read = stored
           /\ stored \in accounts => Read = stored
BY DEF Read, SessionInv, UsersInv

LEMMA NothingPending ==
    ASSUME SessionInv, NEW t \in Tabs, creation[t].pc = "none"
    PROVE  creation[t] = NoCreation
<1>1. creation[t] \in Creation /\ creation[t].user = 0
  BY Types DEF SessionInv, CreationsInv
<1> QED BY <1>1 DEF Creation, NoCreation

LEMMA IdleOperation ==
    /\ NoOp \in Operation
    /\ NoOp.pc = "idle" /\ NoOp.kind = "save" /\ NoOp.token = 0 /\ NoOp.attempt = 1
    /\ NoOp.status = 0 /\ NoOp.target = {}
<1>1. (CHOOSE t \in Tabs : TRUE) \in Tabs
  BY ConstantsAssumption
<1>2. 0 \in 0 .. MaxUsers
  BY ConstantsAssumption
<1> QED BY <1>1, <1>2 DEF NoOp, Operation, Kinds

LEMMA OpChanges ==
    ASSUME op \in [Ops -> Operation], NEW o \in Ops, NEW r \in Operation,
           op' = [op EXCEPT ![o] = r]
    PROVE  /\ op' \in [Ops -> Operation] /\ op'[o] = r
           /\ \A p \in Ops : p # o => op'[p] = op[p]
<1> HIDE DEF Operation
<1> QED OBVIOUS

\* The user begins operation o as r.
Opens(o, t, r) ==
    /\ op[o].pc = "idle"
    /\ r \in Operation /\ r.tab = t /\ r.attempt = 1
    /\ op' = [op EXCEPT ![o] = r]
    /\ \A s \in r.target : Settled(op[s])
    /\ r.kind = "remove" => \A s, u \in r.target : s = u
    /\ stored' = Read
    /\ overlapped' = (overlapped \/ \E p \in Ops : InFlight(p))
    /\ UNCHANGED <<accounts, saved, lastUser, expired, ends, lost>>
    /\ shown' \in [Tabs -> SUBSET Ops] /\ \A s \in Tabs : shown'[s] \subseteq shown[s]
    /\ \/ /\ r.pc = "sent" /\ r.status = 0 /\ r.token = Read /\ Read # 0
          /\ creation' = creation
       \/ /\ r.pc = "creating" /\ r.status = 0 /\ r.token = 0 /\ r.kind # "erase" /\ Read = 0
          /\ creation' = IF creation[t] = NoCreation
                         THEN [creation EXCEPT ![t].pc = "sent"] ELSE creation
       \/ /\ r.pc = "done" /\ r.kind = "erase" /\ r.token = 0 /\ Read = 0
          /\ creation' = creation

\* A creation begins, unless one is in flight.
LEMMA Creates ==
    ASSUME SessionInv, NEW t \in Tabs,
           creation' = IF creation[t] = NoCreation
                       THEN [creation EXCEPT ![t].pc = "sent"] ELSE creation
    PROVE  /\ creation' \in [Tabs -> Creation] /\ creation'[t].pc # "none"
           /\ \A s \in Tabs : \/ creation'[s] = creation[s]
                              \/ /\ s = t /\ creation[s].pc = "none"
                                 /\ creation'[s].pc = "sent" /\ creation'[s].user = 0
<1>1. creation \in [Tabs -> Creation]
  BY Types DEF SessionInv
<1>2. CASE creation[t] = NoCreation
  <2> DEFINE c == [creation[t] EXCEPT !.pc = "sent"]
  <2>1. c \in Creation /\ c.pc = "sent" /\ c.user = 0
    BY <1>1, <1>2 DEF Creation, NoCreation
  <2>2. creation' = [creation EXCEPT ![t] = c]
    BY <1>2
  <2>3. creation[t].pc = "none"
    BY <1>2 DEF NoCreation
  <2> HIDE DEF c
  <2> QED BY <1>1, <2>1, <2>2, <2>3
<1>3. CASE creation[t] # NoCreation
  BY <1>1, <1>3, NothingPending
<1> QED BY <1>2, <1>3

LEMMA OpensSession ==
    ASSUME SessionInv, NEW o \in Ops, NEW t \in Tabs, NEW r, Opens(o, t, r)
    PROVE  SessionInv'
<1> USE DEF SessionInv
<1>1. /\ op \in [Ops -> Operation] /\ creation \in [Tabs -> Creation] /\ lastUser \in Nat
      /\ stored \in Nat
  BY Types
<1>2. /\ op' \in [Ops -> Operation] /\ op'[o] = r
      /\ \A p \in Ops : p # o => op'[p] = op[p]
  BY <1>1, OpChanges DEF Opens
<1>3. /\ accounts' = accounts /\ saved' = saved /\ lastUser' = lastUser /\ expired' = expired
      /\ ends' = ends /\ lost' = lost
  BY DEF Opens
<1>4. op[o] = NoOp /\ op[o].pc = "idle"
  BY DEF Opens, OpsInv
<1>5. \A s \in Ops : Settled(op[s]) => s # o /\ op'[s] = op[s]
  BY <1>2, <1>4 DEF Settled
<1>6. /\ creation' \in [Tabs -> Creation]
      /\ r.pc = "creating" => creation'[t].pc # "none"
      /\ \A s \in Tabs : \/ creation'[s] = creation[s]
                         \/ /\ s = t /\ creation[s].pc = "none" /\ r.pc = "creating"
                            /\ creation'[s].pc = "sent" /\ creation'[s].user = 0
  <2>1. CASE creation' = creation /\ r.pc # "creating"
    BY <1>1, <2>1
  <2>2. CASE r.pc = "creating"
    BY <2>2, Creates DEF Opens
  <2> QED BY <2>1, <2>2 DEF Opens
<1>7. /\ r \in Operation /\ r.tab = t
      /\ r.pc \in {"sent", "creating", "done"} /\ (r.pc = "done" => r.kind = "erase")
      /\ r.pc \in {"sent", "creating"} => r.status = 0
      /\ r.pc = "creating" => r.kind # "erase" /\ Read = 0
      /\ r.pc = "sent" => r.token = Read
      /\ r.token = Read \/ r.token = 0
      /\ stored' = Read /\ (Read = 0 \/ Read = stored)
  BY Reading DEF Opens
<1>8. TypeOK'
  <2>1. overlapped' \in BOOLEAN /\ shown' \in [Tabs -> SUBSET Ops]
    BY DEF Opens, TypeOK
  <2>2. stored' \in 0 .. MaxUsers
    BY <1>7, ConstantsAssumption DEF TypeOK
  <2> QED BY <1>2, <1>3, <1>6, <2>1, <2>2 DEF TypeOK, Operation, Creation
<1>9. UsersInv'
  <2>1. stored' <= lastUser /\ r.token <= lastUser
    BY <1>1, <1>7 DEF UsersInv
  <2> QED BY <1>2, <1>3, <2>1 DEF UsersInv
<1>10. RowsInv'
  <2>1. \A x \in saved : x.op \in Ops
    BY DEF TypeOK, Row
  <2> QED BY <1>3, <1>5, <2>1 DEF RowsInv
<1>11. OpsInv'
  <2>1. \A s \in Tabs : \A p \in shown'[s] : p \in Ops /\ Settled(op[p])
    BY DEF Opens, OpsInv, TypeOK
  <2>2. \A s \in r.target : s \in Ops /\ Settled(op[s])
    BY <1>7 DEF Opens, Operation
  <2>3. ASSUME NEW p \in Ops, p # o
        PROVE  /\ op'[p].pc = "creating" => op'[p].kind # "erase" /\ creation'[op'[p].tab].pc # "none"
               /\ \A s \in op'[p].target : Settled(op'[s])
    <3>1. op'[p] = op[p] /\ op[p] \in Operation
      BY <1>1, <1>2, <2>3
    <3>2. op[p].tab \in Tabs /\ op[p].target \subseteq Ops
      BY <3>1 DEF Operation
    <3> QED BY <1>5, <1>6, <3>1, <3>2 DEF OpsInv
  <2>4. \A s \in Tabs : \A p \in shown'[s] : Settled(op'[p])
    BY <1>5, <2>1
  <2>5. \A s \in r.target : Settled(op'[s])
    BY <1>5, <2>2
  <2>6. r.kind = "remove" => r.status # 200 /\ \A s, u \in r.target : s = u
    BY <1>7 DEF Opens
  <2>7. ~ Refused(r) /\ r.pc # "idle"
    BY <1>7 DEF Refused
  <2>8. r.pc = "creating" => r.kind # "erase" /\ creation'[r.tab].pc # "none"
    BY <1>6, <1>7
  <2>9. r.pc \in {"creating", "sent"} => r.status = 0
    BY <1>7
  <2> QED BY <1>2, <1>3, <2>3, <2>4, <2>5, <2>6, <2>7, <2>8, <2>9 DEF OpsInv
<1>12. CreationsInv'
  <2>1. ASSUME NEW s \in Tabs, creation'[s].pc # "none"
        PROVE  \E p \in Ops : op'[p].pc = "creating" /\ op'[p].tab = s
    <3>1. CASE creation[s].pc # "none"
      <4>1. PICK p \in Ops : op[p].pc = "creating" /\ op[p].tab = s
        BY <3>1 DEF CreationsInv
      <4> QED BY <1>2, <1>4, <4>1
    <3>2. CASE creation[s].pc = "none"
      BY <1>2, <1>6, <1>7, <2>1, <3>2
    <3> QED BY <3>1, <3>2
  <2>2. \A s \in Tabs : /\ creation'[s].pc # "issued" => creation'[s].user = 0
                        /\ creation'[s].pc = "issued" => creation'[s] = creation[s]
                        /\ creation'[s].user = creation[s].user
    BY <1>6 DEF CreationsInv
  <2>3. \A s \in Tabs : creation'[s].pc = "issued" =>
           creation[s].user # stored' /\ creation[s].user # r.token /\ creation[s].user # 0
    BY <1>7, <2>2 DEF CreationsInv
  <2>4. ASSUME NEW s \in Tabs, creation'[s].pc = "issued", NEW p \in Ops
        PROVE  op'[p].token # creation'[s].user
    BY <1>2, <2>2, <2>3, <2>4 DEF CreationsInv
  <2>5. ASSUME NEW s \in Tabs, creation'[s].pc = "issued"
        PROVE  creation'[s].user \in 1 .. lastUser /\ creation'[s].user # stored'
    BY <2>2, <2>3, <2>5 DEF CreationsInv
  <2>6. \A s, q \in Tabs :
           creation'[s].pc = "issued" /\ creation'[s].user = creation'[q].user => s = q
    BY <2>2 DEF CreationsInv
  <2> QED BY <1>3, <2>1, <2>2, <2>4, <2>5, <2>6 DEF CreationsInv
<1>13. AloneInv'
  <2> SUFFICES ASSUME ~ overlapped' PROVE AloneInv'
    BY DEF AloneInv
  <2>1. \A p \in Ops : ~ InFlight(p)
    BY DEF Opens
  <2>2. \A p \in Ops : op'[p].pc \notin {"idle", "done"} => p = o
    BY <1>2, <2>1 DEF InFlight
  <2> QED BY <1>2, <1>7, <2>2 DEF AloneInv, InFlight
<1>14. HeldUnlessOverlapped'
  <2> SUFFICES ASSUME ~ overlapped', NEW x \in saved', x.op \in Reported' PROVE stored' = x.user
    BY DEF HeldUnlessOverlapped
  <2>1. x \in saved /\ x.op \in Ops /\ Settled(op[x.op]) /\ x.user \in accounts
    BY <1>3 DEF RowsInv, TypeOK, Row
  <2>2. x.op \in Reported
    BY <1>5, <2>1 DEF Reported
  <2>3. stored = x.user
    BY <2>1, <2>2 DEF HeldUnlessOverlapped, Opens
  <2> QED BY <1>7, <2>1, <2>3, Reading
<1> QED BY <1>8, <1>9, <1>10, <1>11, <1>12, <1>13, <1>14

-----------------------------------------------------------------------------
(* Requests and answers. *)

\* A request of o is answered, or its answer replaced: the server keeps what it knows
\* to be saved, adds the row of o or removes some.
Replies(o, r) ==
    /\ op[o].pc \in {"sent", "answered"}
    /\ r \in Operation /\ r.pc = "answered" /\ r.kind = op[o].kind /\ r.tab = op[o].tab
    /\ r.token = op[o].token /\ r.attempt = op[o].attempt
    /\ op' = [op EXCEPT ![o] = r]
    /\ Settled(op[o]) => Settled(r)
    /\ \A s \in r.target : Settled(op[s])
    /\ r.kind # "list" => r.target = op[o].target
    /\ Refused(r) => r.token \notin accounts'
    /\ r.kind = "remove" /\ r.status = 200 => \A x \in saved' : x.op \notin r.target
    /\ accounts' \subseteq accounts /\ saved' \subseteq Row
    /\ \A x \in saved' : /\ x.user \in accounts'
                         /\ \/ x \in saved
                            \/ /\ x.op = o /\ x.user = r.token /\ op[o].pc = "sent"
                               /\ r.kind = "save" /\ r.status = 200
    /\ UNCHANGED <<lastUser, expired, stored, creation, shown, ends, overlapped>>
    /\ lost' \in 0 .. MaxLost /\ lost <= lost'

LEMMA RepliesSession ==
    ASSUME SessionInv, NEW o \in Ops, NEW r, Replies(o, r)
    PROVE  SessionInv'
<1> USE DEF SessionInv
<1>1. op \in [Ops -> Operation] /\ creation \in [Tabs -> Creation]
  BY Types
<1>2. /\ op' \in [Ops -> Operation] /\ op'[o] = r
      /\ \A p \in Ops : p # o => op'[p] = op[p]
  BY <1>1, OpChanges DEF Replies
<1>3. /\ lastUser' = lastUser /\ expired' = expired /\ stored' = stored /\ creation' = creation
      /\ shown' = shown /\ ends' = ends /\ overlapped' = overlapped
  BY DEF Replies
<1>4. /\ op[o].pc \in {"sent", "answered"} /\ op[o].pc # "idle"
      /\ r \in Operation /\ r.pc = "answered" /\ r.kind = op[o].kind /\ r.tab = op[o].tab
      /\ r.token = op[o].token
  BY DEF Replies
<1>5. \A s \in Ops : Settled(op[s]) => Settled(op'[s])
  BY <1>2 DEF Replies
<1>6. /\ accounts' \subseteq accounts /\ saved' \subseteq Row
      /\ \A x \in saved' : /\ x.op \in Ops /\ x.user \in accounts'
                           /\ \/ x \in saved
                              \/ /\ x.op = o /\ x.user = r.token /\ op[o].pc = "sent"
                                 /\ r.kind = "save" /\ r.status = 200
  BY DEF Replies, Row
<1>7. TypeOK'
  <2>1. accounts' \subseteq Users /\ lost' \in 0 .. MaxLost
    BY <1>6 DEF TypeOK, Replies
  <2> QED BY <1>2, <1>3, <1>6, <2>1 DEF TypeOK, Operation
<1>8. UsersInv'
  BY <1>2, <1>3, <1>4, <1>6 DEF UsersInv
<1>9. RowsInv'
  <2>1. ASSUME NEW x \in saved', x \in saved
        PROVE  Settled(op'[x.op]) /\ x.user = op'[x.op].token
    BY <1>2, <1>4, <1>5, <1>6, <2>1 DEF RowsInv
  <2>2. ASSUME NEW x \in saved', x.op = o, x.user = r.token, r.kind = "save", r.status = 200
        PROVE  Settled(op'[x.op]) /\ x.user = op'[x.op].token
    BY <1>2, <1>4, <2>2 DEF Settled
  <2> QED BY <1>6, <2>1, <2>2 DEF RowsInv
<1>10. OpsInv'
  <2>1. \A t \in Tabs : \A s \in shown'[t] : Settled(op'[s])
    BY <1>3, <1>5 DEF OpsInv, TypeOK
  <2>2. /\ \A s \in r.target : Settled(op'[s])
        /\ r.kind = "remove" => \A s, u \in r.target : s = u
        /\ Refused(r) => r.token \notin accounts'
        /\ r.kind = "remove" /\ r.status = 200 => \A x \in saved' : x.op \notin r.target
    BY <1>4, <1>5 DEF Replies, Operation, OpsInv
  <2>3. ASSUME NEW p \in Ops, p # o
        PROVE  /\ Refused(op'[p]) => op'[p].token \notin accounts'
               /\ \A s \in op'[p].target : Settled(op'[s])
               /\ op'[p].kind = "remove" /\ op'[p].status = 200
                    => \A x \in saved' : x.op \notin op'[p].target
    <3>1. op'[p] = op[p] /\ op[p].target \subseteq Ops
      BY <1>1, <1>2, <2>3 DEF Operation
    <3>2. \A s \in op[p].target : Settled(op[s])
      BY DEF OpsInv
    <3>3. op[o].pc = "sent" => o \notin op[p].target
      BY <3>2 DEF Settled
    <3>4. op[p].kind = "remove" /\ op[p].status = 200 => \A x \in saved : x.op \notin op[p].target
      BY DEF OpsInv
    <3>5. Refused(op[p]) => op[p].token \notin accounts
      BY DEF OpsInv
    <3> QED BY <1>5, <1>6, <3>1, <3>2, <3>3, <3>4, <3>5
  <2> QED BY <1>2, <1>3, <1>4, <2>1, <2>2, <2>3 DEF OpsInv
<1>11. CreationsInv'
  <2>1. \A p \in Ops : /\ op'[p].token = op[p].token /\ op'[p].tab = op[p].tab
                       /\ op[p].pc = "creating" => op'[p].pc = "creating"
    BY <1>2, <1>4
  <2> QED BY <1>3, <2>1 DEF CreationsInv
<1>12. AloneInv'
  <2>1. \A p \in Ops : /\ InFlight(p)' => InFlight(p)
                       /\ op'[p].token = op[p].token
                       /\ op'[p].pc = "creating" => op[p].pc = "creating"
                       /\ op'[p].pc \in {"sent", "answered"} => op[p].pc \in {"sent", "answered"}
    BY <1>2, <1>4 DEF InFlight
  <2> QED BY <1>3, <2>1 DEF AloneInv
<1>13. HeldUnlessOverlapped'
  <2>1. \A p \in Ops : p \in Reported' => p \in Reported /\ p # o
    BY <1>2, <1>4 DEF Reported
  <2> QED BY <1>3, <1>6, <2>1 DEF HeldUnlessOverlapped, Reported
<1> QED BY <1>7, <1>8, <1>9, <1>10, <1>11, <1>12, <1>13

\* The record of an operation with an answer.
Answer(o, status, target) ==
    [pc |-> "answered", kind |-> op[o].kind, tab |-> op[o].tab, token |-> op[o].token,
     attempt |-> op[o].attempt, status |-> status, target |-> target]

LEMMA AnswerIs ==
    ASSUME SessionInv, NEW o \in Ops, NEW status \in {0, 200, 401, 404}, NEW target \in SUBSET Ops
    PROVE  /\ Answer(o, status, target) \in Operation
           /\ Answer(o, status, target).pc = "answered"
           /\ Answer(o, status, target).status = status
           /\ Answer(o, status, target).target = target
           /\ Answer(o, status, target).kind = op[o].kind
           /\ Answer(o, status, target).tab = op[o].tab
           /\ Answer(o, status, target).token = op[o].token
           /\ Answer(o, status, target).attempt = op[o].attempt
<1>1. op[o] \in Operation
  BY Types DEF SessionInv
<1> QED BY <1>1 DEF Answer, Operation

LEMMA ReplyUpdates ==
    ASSUME op \in [Ops -> Operation], NEW o \in Ops, NEW status
    PROVE  Replied(o, status) = [op EXCEPT ![o] = [op[o] EXCEPT !.pc = "answered", !.status = status]]
BY DEF Replied

LEMMA TargetUpdates ==
    ASSUME op \in [Ops -> Operation], NEW o \in Ops, NEW status, NEW r, NEW target,
           Replied(o, status) = [op EXCEPT ![o] = r]
    PROVE  [Replied(o, status) EXCEPT ![o].target = target]
                = [op EXCEPT ![o] = [r EXCEPT !.target = target]]
OBVIOUS

LEMMA RepliedIs ==
    ASSUME SessionInv, NEW o \in Ops, NEW status \in {0, 200, 401, 404}
    PROVE  /\ Replied(o, status) = [op EXCEPT ![o] = Answer(o, status, op[o].target)]
           /\ op[o].target \in SUBSET Ops
<1>1. op[o] \in Operation /\ op \in [Ops -> Operation]
  BY Types DEF SessionInv
<1>2. op[o].target \in SUBSET Ops
  BY <1>1 DEF Operation
<1>3. Answer(o, status, op[o].target) = [op[o] EXCEPT !.pc = "answered", !.status = status]
  <2>1. PICK q \in Operation : q = op[o]
    BY <1>1
  <2>2. PICK r : r = [q EXCEPT !.pc = "answered", !.status = status]
    OBVIOUS
  <2>3. r = [pc |-> "answered", kind |-> q.kind, tab |-> q.tab, token |-> q.token,
             attempt |-> q.attempt, status |-> status, target |-> q.target]
    BY ONLY <2>2, q \in Operation DEF Operation
  <2> QED BY <2>1, <2>2, <2>3, Zenon DEF Answer
<1>4. Replied(o, status) = [op EXCEPT ![o] = [op[o] EXCEPT !.pc = "answered", !.status = status]]
  BY <1>1, ReplyUpdates, Zenon
<1> QED BY <1>2, <1>3, <1>4, Zenon

LEMMA ListAnswerIs ==
    ASSUME SessionInv, NEW o \in Ops, NEW target
    PROVE  [Replied(o, 200) EXCEPT ![o].target = target] = [op EXCEPT ![o] = Answer(o, 200, target)]
<1>1. op \in [Ops -> Operation]
  BY Types DEF SessionInv
<1>2. Replied(o, 200) = [op EXCEPT ![o] = Answer(o, 200, op[o].target)]
  BY RepliedIs
<1>3. [Answer(o, 200, op[o].target) EXCEPT !.target = target] = Answer(o, 200, target)
  BY DEF Answer
<1>4. [Replied(o, 200) EXCEPT ![o].target = target]
        = [op EXCEPT ![o] = [Answer(o, 200, op[o].target) EXCEPT !.target = target]]
  <2>1. PICK r : r = Answer(o, 200, op[o].target)
    OBVIOUS
  <2>2. Replied(o, 200) = [op EXCEPT ![o] = r]
    BY <1>2, <2>1
  <2>3. [Replied(o, 200) EXCEPT ![o].target = target] = [op EXCEPT ![o] = [r EXCEPT !.target = target]]
    BY ONLY <1>1, <2>2, TargetUpdates, o \in Ops
  <2> QED BY <2>1, <2>3
<1> QED BY <1>3, <1>4, Zenon


LEMMA RefuseReplies ==
    ASSUME SessionInv, NEW o \in Ops, op[o].pc = "sent", Refuse(o),
           UNCHANGED <<browser, ends, lost, overlapped>>
    PROVE  Replies(o, Answer(o, 401, op[o].target))
<1> DEFINE r == Answer(o, 401, op[o].target)
<1>1. op' = [op EXCEPT ![o] = r] /\ op[o].target \in SUBSET Ops
  BY RepliedIs DEF Refuse
<1>2. /\ r \in Operation /\ r.pc = "answered" /\ r.status = 401 /\ r.target = op[o].target
      /\ r.kind = op[o].kind /\ r.tab = op[o].tab /\ r.token = op[o].token
      /\ r.attempt = op[o].attempt
  BY <1>1, AnswerIs
<1> HIDE DEF r
<1>3. /\ accounts' = accounts /\ saved' = saved /\ lastUser' = lastUser /\ expired' = expired
      /\ stored' = stored /\ creation' = creation /\ shown' = shown
      /\ ends' = ends /\ lost' = lost /\ overlapped' = overlapped
  BY DEF Refuse, server, browser
<1>4. saved \subseteq Row /\ lost \in 0 .. MaxLost /\ lost <= lost
  BY ConstantsAssumption DEF SessionInv, TypeOK
<1>5. op[o].token \notin accounts /\ ~ Settled(op[o])
  BY DEF Refuse, Settled
<1>6. (\A x \in saved : x.user \in accounts) /\ (\A s \in op[o].target : Settled(op[s]))
  BY DEF SessionInv, RowsInv, OpsInv
<1> QED BY <1>1, <1>2, <1>3, <1>4, <1>5, <1>6 DEF Replies, r

LEMMA PerformReplies ==
    ASSUME SessionInv, NEW o \in Ops, op[o].pc = "sent", Perform(o),
           UNCHANGED <<browser, ends, lost, overlapped>>
    PROVE  \E status \in {200, 404}, target \in SUBSET Ops : Replies(o, Answer(o, status, target))
<1> USE DEF SessionInv
<1> DEFINE q == op[o]
<1>1. q \in Operation /\ q.target \in SUBSET Ops
  BY Types, RepliedIs
<1>2. /\ lastUser' = lastUser /\ expired' = expired
      /\ stored' = stored /\ creation' = creation /\ shown' = shown
      /\ ends' = ends /\ lost' = lost /\ overlapped' = overlapped
      /\ lost' \in 0 .. MaxLost /\ lost <= lost'
  BY ConstantsAssumption DEF Perform, browser, TypeOK
<1>3. q.token \in accounts /\ saved \subseteq Row /\ ~ Settled(q)
  BY DEF Perform, Settled, TypeOK
<1>4. \A x \in saved : Settled(op[x.op]) /\ x.user \in accounts
  BY DEF RowsInv
<1>5. \A s \in q.target : Settled(op[s])
  BY DEF OpsInv
<1>6. CASE q.kind = "save"
  <2> DEFINE r == Answer(o, 200, q.target)
  <2>1. op' = [op EXCEPT ![o] = r]
        /\ saved' = saved \cup {[user |-> q.token, op |-> o]} /\ accounts' = accounts
    BY <1>1, <1>6, RepliedIs DEF Perform
  <2>2. /\ r \in Operation /\ r.pc = "answered" /\ r.status = 200 /\ r.target = q.target
        /\ r.kind = q.kind /\ r.tab = q.tab /\ r.token = q.token /\ r.attempt = q.attempt
    BY <1>1, AnswerIs
  <2> HIDE DEF r
  <2>3. [user |-> q.token, op |-> o] \in Row
    BY <1>3 DEF Row, TypeOK
  <2>4. Replies(o, r)
    BY <1>2, <1>3, <1>4, <1>5, <1>6, <2>1, <2>2, <2>3 DEF Replies, Refused
  <2> QED BY <1>1, <2>4 DEF r
<1>7. CASE q.kind = "list"
  <2> DEFINE target == {x.op : x \in RowsOf(q.token)}
             r == Answer(o, 200, target)
  <2>1. \A s \in target : s \in Ops /\ Settled(op[s])
    BY <1>3, <1>4 DEF RowsOf, Row
  <2>2. target \in SUBSET Ops
    BY <2>1
  <2>3. op' = [Replied(o, 200) EXCEPT ![o].target = target]
        /\ saved' = saved /\ accounts' = accounts
    BY <1>7 DEF Perform
  <2> HIDE DEF target
  <2>4. op' = [op EXCEPT ![o] = r]
    BY <2>3, ListAnswerIs
  <2>5. /\ r \in Operation /\ r.pc = "answered" /\ r.status = 200 /\ r.target = target
        /\ r.kind = q.kind /\ r.tab = q.tab /\ r.token = q.token /\ r.attempt = q.attempt
    BY <2>2, AnswerIs
  <2> HIDE DEF r
  <2>6. /\ accounts' \subseteq accounts /\ saved' \subseteq Row
        /\ \A x \in saved' : x \in saved /\ x.user \in accounts'
    BY <1>3, <1>4, <2>3
  <2>7. Replies(o, r)
    BY <1>2, <1>3, <1>7, <2>1, <2>4, <2>5, <2>6 DEF Replies, Refused
  <2> QED BY <2>2, <2>7 DEF r
<1>8. CASE q.kind = "remove"
  <2> DEFINE mine == {x \in RowsOf(q.token) : x.op \in q.target}
             status == IF mine = {} THEN 404 ELSE 200
             r == Answer(o, status, q.target)
  <2>1. op' = [op EXCEPT ![o] = r] /\ saved' = saved \ mine /\ accounts' = accounts
    BY <1>1, <1>8, RepliedIs DEF Perform
  <2>2. /\ r \in Operation /\ r.pc = "answered" /\ r.status = status /\ r.target = q.target
        /\ r.kind = q.kind /\ r.tab = q.tab /\ r.token = q.token /\ r.attempt = q.attempt
    BY <1>1, AnswerIs
  <2> HIDE DEF r
  <2>3. status = 200 => \A x \in saved' : x.op \notin q.target
    <3> SUFFICES ASSUME status = 200, NEW x \in saved', x.op \in q.target PROVE FALSE
      OBVIOUS
    <3>1. PICK y \in saved : y.user = q.token /\ y.op \in q.target
      BY DEF RowsOf
    <3>2. x \in saved /\ x \notin mine
      BY <2>1
    <3>3. x.op = y.op
      BY <1>8, <3>1 DEF OpsInv
    <3>4. x.user = q.token
      BY <3>1, <3>2, <3>3 DEF RowsInv
    <3> QED BY <3>2, <3>4 DEF RowsOf
  <2> HIDE DEF mine, status
  <2>4. status # 401
    BY DEF status
  <2>5. Replies(o, r)
    BY <1>2, <1>3, <1>4, <1>5, <1>8, <2>1, <2>2, <2>3, <2>4 DEF Replies, Refused
  <2> QED BY <1>1, <2>5 DEF r, status
<1>9. CASE q.kind = "erase"
  <2> DEFINE r == Answer(o, 200, q.target)
  <2>1. op' = [op EXCEPT ![o] = r] /\ accounts' = accounts \ {q.token}
        /\ saved' = saved \ RowsOf(q.token)
    BY <1>1, <1>9, RepliedIs DEF Perform
  <2>2. /\ r \in Operation /\ r.pc = "answered" /\ r.status = 200 /\ r.target = q.target
        /\ r.kind = q.kind /\ r.tab = q.tab /\ r.token = q.token /\ r.attempt = q.attempt
    BY <1>1, AnswerIs
  <2> HIDE DEF r
  <2>3. \A x \in saved' : x \in saved /\ x.user # q.token
    BY <2>1 DEF RowsOf
  <2>4. Replies(o, r)
    BY <1>2, <1>3, <1>4, <1>5, <1>9, <2>1, <2>2, <2>3 DEF Replies, Refused
  <2> QED BY <1>1, <2>4 DEF r
<1> QED BY <1>1, <1>6, <1>7, <1>8, <1>9 DEF Operation, Kinds

LEMMA LoseReplies ==
    ASSUME SessionInv, NEW o \in Ops, Lose(o)
    PROVE  Replies(o, Answer(o, 0, op[o].target)) /\ lost' = lost + 1
<1> DEFINE r == Answer(o, 0, op[o].target)
<1>1. op[o].target \in SUBSET Ops /\ op' = [op EXCEPT ![o] = r]
  BY RepliedIs DEF Lose, LoseRequest, LoseAnswer
<1>2. /\ r \in Operation /\ r.pc = "answered" /\ r.status = 0 /\ r.target = op[o].target
      /\ r.kind = op[o].kind /\ r.tab = op[o].tab /\ r.token = op[o].token
      /\ r.attempt = op[o].attempt
  BY <1>1, AnswerIs
<1> HIDE DEF r
<1>3. /\ accounts' = accounts /\ saved' = saved /\ lastUser' = lastUser /\ expired' = expired
      /\ stored' = stored /\ creation' = creation /\ shown' = shown
      /\ ends' = ends /\ overlapped' = overlapped
      /\ op[o].pc \in {"sent", "answered"}
  BY DEF Lose, LoseRequest, LoseAnswer, server, browser
<1>4. saved \subseteq Row /\ lost' \in 0 .. MaxLost /\ lost <= lost' /\ lost' = lost + 1
  BY ConstantsAssumption DEF SessionInv, TypeOK, Lose, LoseRequest, LoseAnswer
<1>5. (\A x \in saved : x.user \in accounts) /\ (\A s \in op[o].target : Settled(op[s]))
  BY DEF SessionInv, RowsInv, OpsInv
<1>6. ~ Refused(r) /\ (Settled(op[o]) => Settled(r))
  BY <1>2 DEF Settled, Refused
<1> QED BY <1>1, <1>2, <1>3, <1>4, <1>5, <1>6 DEF Replies, r
-----------------------------------------------------------------------------
(* The user's actions. *)

Fresh(kind, t, token, target) ==
    [pc |-> "idle", kind |-> kind, tab |-> t, token |-> token, attempt |-> 1, status |-> 0,
     target |-> target]

LEMMA FreshFields ==
    ASSUME NEW kind \in Kinds, NEW t \in Tabs, NEW token \in 0 .. MaxUsers, NEW target \in SUBSET Ops
    PROVE  /\ Fresh(kind, t, token, target) \in Operation
           /\ Fresh(kind, t, token, target).kind = kind
BY DEF Fresh, Operation

LEMMA FreshIs ==
    ASSUME NEW t \in Tabs, NEW target
    PROVE  /\ Fresh("save", t, 0, {}) = [NoOp EXCEPT !.tab = t]
           /\ Fresh("list", t, 0, {}) = [NoOp EXCEPT !.kind = "list", !.tab = t]
           /\ Fresh("remove", t, 0, target)
                = [NoOp EXCEPT !.kind = "remove", !.tab = t, !.target = target]
<1>1. PICK q \in Operation : q = NoOp
  BY IdleOperation
<1>2. /\ q \in Operation /\ q.pc = "idle" /\ q.kind = "save" /\ q.token = 0 /\ q.attempt = 1
      /\ q.status = 0 /\ q.target = {}
  BY <1>1, IdleOperation
<1>3. Fresh("save", t, 0, {}) = [q EXCEPT !.tab = t]
  <2>1. PICK r : r = [q EXCEPT !.tab = t]
    OBVIOUS
  <2>2. r = Fresh("save", t, 0, {})
    BY ONLY <1>2, <2>1 DEF Fresh, Operation
  <2> QED BY <2>1, <2>2
<1>4. Fresh("list", t, 0, {}) = [q EXCEPT !.kind = "list", !.tab = t]
  <2>1. PICK r : r = [q EXCEPT !.kind = "list", !.tab = t]
    OBVIOUS
  <2>2. r = Fresh("list", t, 0, {})
    BY ONLY <1>2, <2>1 DEF Fresh, Operation
  <2> QED BY <2>1, <2>2
<1>5. Fresh("remove", t, 0, target) = [q EXCEPT !.kind = "remove", !.tab = t, !.target = target]
  <2>1. PICK r : r = [q EXCEPT !.kind = "remove", !.tab = t, !.target = target]
    OBVIOUS
  <2>2. r = Fresh("remove", t, 0, target)
    BY ONLY <1>2, <2>1 DEF Fresh, Operation
  <2> QED BY <2>1, <2>2
<1> QED BY <1>1, <1>3, <1>4, <1>5, Zenon

Sent(q, token) == [q EXCEPT !.pc = "sent", !.token = token]
At(q, pc)      == [q EXCEPT !.pc = pc]

LEMMA SentIs ==
    ASSUME NEW q \in Operation, NEW token \in 0 .. MaxUsers
    PROVE  /\ Sent(q, token) \in Operation /\ Sent(q, token).pc = "sent"
           /\ Sent(q, token).token = token /\ Sent(q, token).kind = q.kind
           /\ Sent(q, token).tab = q.tab /\ Sent(q, token).attempt = q.attempt
           /\ Sent(q, token).status = q.status /\ Sent(q, token).target = q.target
<1>1. PICK r : r = [q EXCEPT !.pc = "sent", !.token = token]
  OBVIOUS
<1>2. r = [pc |-> "sent", kind |-> q.kind, tab |-> q.tab, token |-> token,
           attempt |-> q.attempt, status |-> q.status, target |-> q.target]
  BY ONLY <1>1, q \in Operation DEF Operation
<1>3. Sent(q, token) = r
  BY <1>1, Zenon DEF Sent
<1> QED BY <1>2, <1>3 DEF Operation

LEMMA AtIs ==
    ASSUME NEW q \in Operation, NEW pc \in {"idle", "creating", "sent", "answered", "done"}
    PROVE  /\ At(q, pc) \in Operation /\ At(q, pc).pc = pc
           /\ At(q, pc).token = q.token /\ At(q, pc).kind = q.kind
           /\ At(q, pc).tab = q.tab /\ At(q, pc).attempt = q.attempt
           /\ At(q, pc).status = q.status /\ At(q, pc).target = q.target
BY DEF At, Operation

LEMMA AcquireOpens ==
    ASSUME SessionInv, NEW o \in Ops, NEW t \in Tabs, NEW q \in Operation, NEW target,
           q = Fresh(q.kind, t, 0, target), q.kind # "erase", Begin(o), Acquire(o, q, Read),
           \A s \in target : Settled(op[s]),
           q.kind = "remove" => \A s, u \in target : s = u,
           shown' \in [Tabs -> SUBSET Ops], \A s \in Tabs : shown'[s] \subseteq shown[s]
    PROVE  \E r : Opens(o, t, r) /\ r.kind = q.kind /\ r.target = target /\ r.pc # "done"
<1>1. /\ q.tab = t /\ q.token = 0 /\ q.attempt = 1 /\ q.status = 0 /\ q.target = target
  BY DEF Fresh
<1>2. /\ op[o].pc = "idle" /\ overlapped' = (overlapped \/ \E p \in Ops : InFlight(p))
      /\ stored' = Read /\ UNCHANGED <<accounts, saved, lastUser, expired, ends, lost>>
  BY DEF Begin, server
<1>3. Read \in 0 .. MaxUsers
  BY Reading, ConstantsAssumption DEF SessionInv, TypeOK
<1>4. CASE Read # 0
  <2> DEFINE r == Sent(q, Read)
  <2>2. op' = [op EXCEPT ![o] = r] /\ creation' = creation
    BY <1>4, Zenon DEF Acquire, Sent
  <2>3. /\ r \in Operation /\ r.pc = "sent" /\ r.token = Read /\ r.kind = q.kind
        /\ r.tab = t /\ r.attempt = 1 /\ r.status = 0 /\ r.target = target
    BY <1>1, <1>3, SentIs
  <2> HIDE DEF r
  <2>4. Opens(o, t, r)
    BY <1>2, <1>4, <2>2, <2>3 DEF Opens
  <2> QED BY <2>3, <2>4
<1>5. CASE Read = 0
  <2> DEFINE r == At(q, "creating")
  <2>2. /\ op' = [op EXCEPT ![o] = r]
        /\ creation' = IF creation[t] = NoCreation
                       THEN [creation EXCEPT ![t].pc = "sent"] ELSE creation
    BY <1>1, <1>5, Zenon DEF Acquire, At
  <2>3. /\ r \in Operation /\ r.pc = "creating" /\ r.token = 0 /\ r.kind = q.kind
        /\ r.tab = t /\ r.attempt = 1 /\ r.status = 0 /\ r.target = target
    BY <1>1, AtIs
  <2> HIDE DEF r
  <2>4. Opens(o, t, r)
    BY <1>2, <1>5, <2>2, <2>3 DEF Opens
  <2> QED BY <2>3, <2>4
<1> QED BY <1>4, <1>5

LEMMA SaveOpens ==
    ASSUME SessionInv, NEW o \in Ops, NEW t \in Tabs, Save(o, t)
    PROVE  \E r : Opens(o, t, r) /\ r.kind = "save" /\ r.target = {} /\ r.pc # "done"
<1> DEFINE q == Fresh("save", t, 0, {})
<1>1. q \in Operation /\ q.kind = "save"
  BY FreshFields, ConstantsAssumption DEF Kinds
<1>2. [NoOp EXCEPT !.tab = t] = q
  BY FreshIs, Zenon
<1>3. Begin(o) /\ Acquire(o, q, Read) /\ shown' = shown
  BY <1>2 DEF Save
<1>4. q = Fresh(q.kind, t, 0, {})
  BY <1>1
<1> HIDE DEF q
<1>5. shown' \in [Tabs -> SUBSET Ops]
  BY <1>3 DEF SessionInv, TypeOK
<1> QED BY <1>1, <1>3, <1>4, <1>5, AcquireOpens

LEMMA ListOpens ==
    ASSUME SessionInv, NEW o \in Ops, NEW t \in Tabs, List(o, t)
    PROVE  \E r : Opens(o, t, r) /\ r.kind = "list" /\ r.target = {} /\ r.pc # "done"
<1> DEFINE q == Fresh("list", t, 0, {})
<1>1. q \in Operation /\ q.kind = "list"
  BY FreshFields, ConstantsAssumption DEF Kinds
<1>2. [NoOp EXCEPT !.kind = "list", !.tab = t] = q
  BY FreshIs, Zenon
<1>3. Begin(o) /\ Acquire(o, q, Read) /\ shown' = [shown EXCEPT ![t] = {}]
  BY <1>2 DEF List
<1>4. q = Fresh(q.kind, t, 0, {})
  BY <1>1
<1> HIDE DEF q
<1>5. shown' \in [Tabs -> SUBSET Ops] /\ \A s \in Tabs : shown'[s] \subseteq shown[s]
  BY <1>3 DEF SessionInv, TypeOK
<1> QED BY <1>1, <1>3, <1>4, <1>5, AcquireOpens

LEMMA RemoveOpens ==
    ASSUME SessionInv, NEW o \in Ops, NEW t \in Tabs, RemoveSavedRoute(o, t)
    PROVE  \E r : Opens(o, t, r) /\ r.kind = "remove" /\ r.pc # "done"
<1>1. PICK s \in shown[t] :
         /\ Begin(o) /\ UNCHANGED shown
         /\ Acquire(o, [NoOp EXCEPT !.kind = "remove", !.tab = t, !.target = {s}], Read)
  BY Zenon DEF RemoveSavedRoute
<1>2. s \in Ops /\ Settled(op[s])
  BY DEF SessionInv, TypeOK, OpsInv
<1> DEFINE q == Fresh("remove", t, 0, {s})
<1>3. q \in Operation /\ q.kind = "remove"
  BY <1>2, FreshFields, ConstantsAssumption DEF Kinds
<1>4. [NoOp EXCEPT !.kind = "remove", !.tab = t, !.target = {s}] = q
  BY FreshIs, Zenon
<1>5. Begin(o) /\ Acquire(o, q, Read) /\ shown' = shown
  BY <1>1, <1>4
<1>6. q = Fresh(q.kind, t, 0, {s})
  BY <1>3
<1> HIDE DEF q
<1>7. shown' \in [Tabs -> SUBSET Ops]
  BY <1>5 DEF SessionInv, TypeOK
<1>8. \A u \in {s} : Settled(op[u])
  BY <1>2
<1> QED BY <1>3, <1>5, <1>6, <1>7, <1>8, AcquireOpens

LEMMA EraseOpens ==
    ASSUME SessionInv, NEW o \in Ops, NEW t \in Tabs, RemoveAllUserData(o, t)
    PROVE  \E r : Opens(o, t, r) /\ r.kind = "erase" /\ (r.pc = "done" => r.status = 200)
<1> DEFINE q == Fresh("erase", t, Read, Reported)
<1>1. Read \in 0 .. MaxUsers /\ Reported \in SUBSET Ops
  BY Reading, ConstantsAssumption DEF SessionInv, TypeOK, Reported
<1>2. q \in Operation /\ q.kind = "erase"
  BY <1>1, FreshFields DEF Kinds
<1>3. [NoOp EXCEPT !.kind = "erase", !.tab = t, !.token = Read, !.target = Reported] = q
  <2>1. PICK n \in Operation : n = NoOp
    BY IdleOperation
  <2>2. /\ n.pc = "idle" /\ n.kind = "save" /\ n.token = 0 /\ n.attempt = 1
        /\ n.status = 0 /\ n.target = {}
    BY <2>1, IdleOperation
  <2>3. PICK token, target : token = Read /\ target = Reported
    OBVIOUS
  <2>4. PICK r : r = [n EXCEPT !.kind = "erase", !.tab = t, !.token = token, !.target = target]
    OBVIOUS
  <2>5. r = Fresh("erase", t, token, target)
    BY ONLY <2>2, <2>4, n \in Operation DEF Fresh, Operation
  <2> QED BY <2>1, <2>3, <2>4, <2>5
<1>4. /\ q.tab = t /\ q.token = Read /\ q.attempt = 1 /\ q.status = 0 /\ q.target = Reported
  BY DEF Fresh
<1>5. /\ Begin(o) /\ creation' = creation
      /\ \/ Read # 0 /\ op' = [op EXCEPT ![o] = [q EXCEPT !.pc = "sent"]] /\ shown' = shown
         \/ /\ Read = 0 /\ op' = [op EXCEPT ![o] = [q EXCEPT !.pc = "done", !.status = 200]]
            /\ shown' = [shown EXCEPT ![t] = {}]
  BY <1>3, Zenon DEF RemoveAllUserData
<1> HIDE DEF q
<1>6. /\ op[o].pc = "idle" /\ overlapped' = (overlapped \/ \E p \in Ops : InFlight(p))
      /\ stored' = Read /\ UNCHANGED <<accounts, saved, lastUser, expired, ends, lost>>
  BY <1>5 DEF Begin, server
<1>7. \A s \in Reported : Settled(op[s])
  BY DEF Reported, Settled
<1>8. CASE Read # 0 /\ op' = [op EXCEPT ![o] = [q EXCEPT !.pc = "sent"]] /\ shown' = shown
  <2> DEFINE r == At(q, "sent")
  <2>1. op' = [op EXCEPT ![o] = r] /\ shown' \in [Tabs -> SUBSET Ops]
    BY <1>8 DEF At, SessionInv, TypeOK
  <2>2. /\ r \in Operation /\ r.pc = "sent" /\ r.token = Read /\ r.kind = "erase"
        /\ r.tab = t /\ r.attempt = 1 /\ r.status = 0 /\ r.target = Reported
    BY <1>2, <1>4, AtIs
  <2> HIDE DEF r
  <2>3. Opens(o, t, r)
    BY <1>5, <1>6, <1>7, <1>8, <2>1, <2>2 DEF Opens
  <2> QED BY <2>2, <2>3
<1>9. CASE /\ Read = 0 /\ op' = [op EXCEPT ![o] = [q EXCEPT !.pc = "done", !.status = 200]]
           /\ shown' = [shown EXCEPT ![t] = {}]
  <2>1. PICK r : r = [q EXCEPT !.pc = "done", !.status = 200]
    OBVIOUS
  <2>2. op' = [op EXCEPT ![o] = r]
    BY <1>9, <2>1, Zenon
  <2>3. r = [pc |-> "done", kind |-> q.kind, tab |-> q.tab, token |-> q.token,
             attempt |-> q.attempt, status |-> 200, target |-> q.target]
    BY ONLY <2>1, <1>2 DEF Operation
  <2>4. /\ r \in Operation /\ r.pc = "done" /\ r.token = 0 /\ r.kind = "erase"
        /\ r.tab = t /\ r.attempt = 1 /\ r.status = 200 /\ r.target = Reported
    BY <1>2, <1>4, <1>9, <2>3 DEF Operation
  <2>5. shown' \in [Tabs -> SUBSET Ops] /\ \A s \in Tabs : shown'[s] \subseteq shown[s]
    BY <1>9 DEF SessionInv, TypeOK
  <2>6. Opens(o, t, r)
    BY <1>5, <1>6, <1>7, <1>9, <2>2, <2>4, <2>5 DEF Opens
  <2> QED BY <2>4, <2>6
<1> QED BY <1>5, <1>8, <1>9

LEMMA ActOpens ==
    ASSUME SessionInv, NEW o \in Ops, NEW t \in Tabs, Act(o, t)
    PROVE  \E r : Opens(o, t, r)
BY SaveOpens, ListOpens, RemoveOpens, EraseOpens DEF Act

-----------------------------------------------------------------------------
(* Answers. *)

\* An operation that was refused is repeated as r.
Repeats(o, r) ==
    /\ op[o].pc = "answered" /\ op[o].status = 401 /\ op[o].kind # "erase" /\ op[o].attempt = 1
    /\ r \in Operation /\ r.pc = "creating" /\ r.status = 0 /\ r.attempt = 2
    /\ r.kind = op[o].kind /\ r.tab = op[o].tab /\ r.token = op[o].token
    /\ r.target = op[o].target
    /\ op' = [op EXCEPT ![o] = r]
    /\ stored' = 0
    /\ creation' = IF creation[r.tab] = NoCreation
                   THEN [creation EXCEPT ![r.tab].pc = "sent"] ELSE creation
    /\ UNCHANGED <<accounts, saved, lastUser, expired, shown, ends, lost, overlapped>>

LEMMA RecoverRepeats ==
    ASSUME SessionInv, NEW o \in Ops, Recover(o)
    PROVE  \E r : Repeats(o, r)
<1>1. op[o] \in Operation
  BY Types DEF SessionInv
<1>2. PICK q \in Operation : q = op[o]
  BY <1>1
<1>3. PICK n : n = [q EXCEPT !.attempt = 2, !.status = 0]
  OBVIOUS
<1>4. n = [pc |-> q.pc, kind |-> q.kind, tab |-> q.tab, token |-> q.token,
           attempt |-> 2, status |-> 0, target |-> q.target]
  BY ONLY <1>3, q \in Operation DEF Operation
<1>5. /\ n \in Operation /\ n.status = 0 /\ n.attempt = 2 /\ n.kind = q.kind /\ n.tab = q.tab
      /\ n.token = q.token /\ n.target = q.target
  BY <1>4 DEF Operation
<1>6. /\ q.pc = "answered" /\ q.status = 401 /\ q.kind # "erase" /\ q.attempt = 1
      /\ stored' = 0 /\ Acquire(o, n, 0)
      /\ UNCHANGED <<server, shown, ends, lost, overlapped>>
  BY <1>2, <1>3, Zenon DEF Recover
<1> DEFINE r == At(n, "creating")
<1>7. /\ op' = [op EXCEPT ![o] = r]
      /\ creation' = IF creation[n.tab] = NoCreation
                     THEN [creation EXCEPT ![n.tab].pc = "sent"] ELSE creation
  BY <1>6 DEF Acquire, At
<1>8. /\ r \in Operation /\ r.pc = "creating" /\ r.status = 0 /\ r.attempt = 2
      /\ r.kind = q.kind /\ r.tab = n.tab /\ r.token = q.token /\ r.target = q.target
  BY <1>5, AtIs
<1> HIDE DEF r
<1>9. Repeats(o, r)
  BY <1>2, <1>5, <1>6, <1>7, <1>8 DEF Repeats, server
<1> QED BY <1>9

LEMMA RepeatsSession ==
    ASSUME SessionInv, NEW o \in Ops, NEW r, Repeats(o, r)
    PROVE  SessionInv'
<1> USE DEF SessionInv
<1>1. op \in [Ops -> Operation] /\ creation \in [Tabs -> Creation]
  BY Types
<1>2. /\ op' \in [Ops -> Operation] /\ op'[o] = r
      /\ \A p \in Ops : p # o => op'[p] = op[p]
  BY <1>1, OpChanges DEF Repeats
<1>3. /\ accounts' = accounts /\ saved' = saved /\ lastUser' = lastUser /\ expired' = expired
      /\ shown' = shown /\ ends' = ends /\ lost' = lost /\ overlapped' = overlapped
      /\ stored' = 0
  BY DEF Repeats
<1>4. /\ op[o].pc = "answered" /\ op[o].status = 401 /\ op[o].kind # "erase"
      /\ r \in Operation /\ r.pc = "creating" /\ r.status = 0 /\ r.kind = op[o].kind
      /\ r.tab = op[o].tab /\ r.token = op[o].token /\ r.target = op[o].target /\ r.tab \in Tabs
  BY DEF Repeats, Operation
<1>5. /\ creation' \in [Tabs -> Creation] /\ creation'[r.tab].pc # "none"
      /\ \A s \in Tabs : \/ creation'[s] = creation[s]
                         \/ /\ s = r.tab /\ creation[s].pc = "none"
                            /\ creation'[s].pc = "sent" /\ creation'[s].user = 0
  BY <1>4, Creates DEF Repeats
<1>6. \A s \in Ops : Settled(op[s]) => s # o /\ op'[s] = op[s]
  BY <1>2, <1>4 DEF Settled
<1>7. TypeOK'
  BY <1>2, <1>3, <1>5, ConstantsAssumption DEF TypeOK, Operation, Creation
<1>8. UsersInv'
  BY <1>2, <1>3, <1>4, Types DEF UsersInv
<1>9. RowsInv'
  <2>1. \A x \in saved : x.op \in Ops
    BY DEF TypeOK, Row
  <2> QED BY <1>3, <1>6, <2>1 DEF RowsInv
<1>10. OpsInv'
  <2>1. \A s \in Tabs : \A p \in shown'[s] : Settled(op'[p])
    BY <1>3, <1>6 DEF OpsInv, TypeOK
  <2>2. \A s \in r.target : Settled(op'[s])
    BY <1>4, <1>6 DEF OpsInv, Operation
  <2>3. ASSUME NEW p \in Ops, p # o
        PROVE  /\ op'[p].pc = "creating" => op'[p].kind # "erase" /\ creation'[op'[p].tab].pc # "none"
               /\ \A s \in op'[p].target : Settled(op'[s])
    <3>1. op'[p] = op[p] /\ op[p].tab \in Tabs /\ op[p].target \subseteq Ops
      BY <1>1, <1>2, <2>3 DEF Operation
    <3> QED BY <1>5, <1>6, <3>1 DEF OpsInv
  <2>4. /\ ~ Refused(r) /\ r.pc # "idle" /\ r.status # 200
        /\ r.kind = "remove" => \A s, u \in r.target : s = u
    BY <1>4 DEF Refused, OpsInv
  <2> QED BY <1>2, <1>3, <1>4, <1>5, <2>1, <2>2, <2>3, <2>4 DEF OpsInv
<1>11. CreationsInv'
  <2>1. ASSUME NEW s \in Tabs, creation'[s].pc # "none"
        PROVE  \E p \in Ops : op'[p].pc = "creating" /\ op'[p].tab = s
    <3>1. CASE creation[s].pc # "none"
      <4>1. PICK p \in Ops : op[p].pc = "creating" /\ op[p].tab = s
        BY <3>1 DEF CreationsInv
      <4> QED BY <1>2, <1>4, <4>1
    <3>2. CASE creation[s].pc = "none"
      BY <1>2, <1>4, <1>5, <2>1, <3>2
    <3> QED BY <3>1, <3>2
  <2>2. \A s \in Tabs : /\ creation'[s].pc # "issued" => creation'[s].user = 0
                        /\ creation'[s].pc = "issued" => creation'[s] = creation[s]
                        /\ creation'[s].user = creation[s].user
    BY <1>5 DEF CreationsInv
  <2>3. \A p \in Ops : op'[p].token = op[p].token
    BY <1>2, <1>4
  <2>4. ASSUME NEW s \in Tabs, creation'[s].pc = "issued"
        PROVE  /\ creation'[s].user \in 1 .. lastUser /\ creation'[s].user # 0
               /\ \A p \in Ops : op'[p].token # creation'[s].user
    BY <2>2, <2>3, <2>4 DEF CreationsInv
  <2>5. \A s, q \in Tabs :
           creation'[s].pc = "issued" /\ creation'[s].user = creation'[q].user => s = q
    BY <2>2 DEF CreationsInv
  <2> QED BY <1>3, <2>1, <2>2, <2>4, <2>5 DEF CreationsInv
<1>12. ~ overlapped => /\ \A p \in Ops : InFlight(p) => p = o
                       /\ op[o].token = stored /\ stored \notin accounts
  <2>1. InFlight(o) /\ Refused(op[o])
    BY <1>4 DEF InFlight, Refused
  <2> QED BY <1>4, <2>1 DEF AloneInv, OpsInv
<1>13. AloneInv'
  <2> SUFFICES ASSUME ~ overlapped' PROVE AloneInv'
    BY DEF AloneInv
  <2>1. \A p \in Ops : op'[p].pc \notin {"idle", "done"} => p = o
    BY <1>2, <1>3, <1>12 DEF InFlight
  <2> QED BY <1>2, <1>3, <1>4, <2>1 DEF AloneInv, InFlight
<1>14. HeldUnlessOverlapped'
  <2> SUFFICES ASSUME ~ overlapped', NEW x \in saved', x.op \in Reported' PROVE FALSE
    BY DEF HeldUnlessOverlapped
  <2>1. x \in saved /\ x.op \in Ops /\ Settled(op[x.op]) /\ x.user \in accounts
    BY <1>3 DEF RowsInv, TypeOK, Row
  <2>2. x.op \in Reported
    BY <1>6, <2>1 DEF Reported
  <2> QED BY <1>3, <1>12, <2>1, <2>2 DEF HeldUnlessOverlapped
<1> QED BY <1>7, <1>8, <1>9, <1>10, <1>11, <1>13, <1>14

\* The answer of o is final.
Ends(o) ==
    /\ op[o].pc = "answered" /\ (op[o].status = 401 => op[o].attempt # 1 \/ op[o].kind = "erase")
    /\ op' = [op EXCEPT ![o] = At(op[o], "done")]
    /\ stored' = IF Forgets(op[o]) THEN 0 ELSE stored
    /\ shown' \in [Tabs -> SUBSET Ops]
    /\ \A t \in Tabs : \A s \in shown'[t] :
          \/ s \in shown[t]
          \/ s = o /\ op[o].kind = "save" /\ op[o].status = 200
          \/ s \in op[o].target
    /\ UNCHANGED <<accounts, saved, lastUser, expired, creation, ends, lost, overlapped>>

LEMMA ConcludeEnds ==
    ASSUME SessionInv, NEW o \in Ops, Conclude(o)
    PROVE  Ends(o)
<1>1. op \in [Ops -> Operation] /\ op[o] \in Operation
  BY Types DEF SessionInv
<1>2. op[o].tab \in Tabs /\ op[o].target \subseteq Ops
  BY <1>1 DEF Operation
<1>3. shown \in [Tabs -> SUBSET Ops]
  BY DEF SessionInv, TypeOK
<1>4. /\ op[o].pc = "answered" /\ (op[o].status = 401 => op[o].attempt # 1 \/ op[o].kind = "erase")
      /\ stored' = IF Forgets(op[o]) THEN 0 ELSE stored
      /\ UNCHANGED <<accounts, saved, lastUser, expired, creation, ends, lost, overlapped>>
  BY DEF Conclude, Finish, server
<1>5. op' = [op EXCEPT ![o].pc = "done"]
  BY Zenon DEF Conclude, Finish
<1>6. op' = [op EXCEPT ![o] = At(op[o], "done")]
  BY <1>1, <1>5 DEF At
<1> DEFINE list == CASE op[o].status = 200 /\ op[o].kind = "save" -> shown[op[o].tab] \cup {o}
                     [] op[o].status = 200 /\ op[o].kind = "list" -> op[o].target
                     [] op[o].status = 200 /\ op[o].kind = "remove" -> shown[op[o].tab] \ op[o].target
                     [] op[o].kind = "erase" /\ op[o].status \in {200, 401} -> {}
                     [] OTHER -> shown[op[o].tab]
<1>7. shown' = [shown EXCEPT ![op[o].tab] = list]
  BY DEF Conclude
<1>8. /\ list \subseteq Ops
      /\ \A s \in list : \/ s \in shown[op[o].tab]
                         \/ s = o /\ op[o].kind = "save" /\ op[o].status = 200
                         \/ s \in op[o].target
  BY <1>2, <1>3
<1> HIDE DEF list
<1>9. /\ shown' \in [Tabs -> SUBSET Ops]
      /\ \A t \in Tabs : \A s \in shown'[t] :
            \/ s \in shown[t]
            \/ s = o /\ op[o].kind = "save" /\ op[o].status = 200
            \/ s \in op[o].target
  BY <1>2, <1>3, <1>7, <1>8
<1> QED BY <1>4, <1>6, <1>9 DEF Ends

LEMMA EndsSession ==
    ASSUME SessionInv, NEW o \in Ops, Ends(o)
    PROVE  SessionInv'
<1> USE DEF SessionInv
<1> DEFINE r == At(op[o], "done")
<1>1. op \in [Ops -> Operation] /\ creation \in [Tabs -> Creation] /\ op[o] \in Operation
  BY Types
<1>2. /\ r \in Operation /\ r.pc = "done" /\ r.token = op[o].token /\ r.kind = op[o].kind
      /\ r.tab = op[o].tab /\ r.attempt = op[o].attempt /\ r.status = op[o].status
      /\ r.target = op[o].target /\ op' = [op EXCEPT ![o] = r]
  BY <1>1, AtIs DEF Ends
<1> HIDE DEF r
<1>3. /\ op' \in [Ops -> Operation] /\ op'[o] = r
      /\ \A p \in Ops : p # o => op'[p] = op[p]
  BY <1>1, <1>2, OpChanges
<1>4. /\ accounts' = accounts /\ saved' = saved /\ lastUser' = lastUser /\ expired' = expired
      /\ creation' = creation /\ ends' = ends /\ lost' = lost /\ overlapped' = overlapped
      /\ stored' = 0 \/ (stored' = stored /\ ~ Forgets(op[o]))
      /\ op[o].pc = "answered"
  BY DEF Ends
<1>5. \A s \in Ops : Settled(op[s]) => Settled(op'[s])
  BY <1>2, <1>3 DEF Settled
<1>6. TypeOK'
  <2>1. stored' \in 0 .. MaxUsers /\ shown' \in [Tabs -> SUBSET Ops]
    BY <1>4, ConstantsAssumption DEF TypeOK, Ends
  <2> QED BY <1>3, <1>4, <2>1 DEF TypeOK, Operation
<1>7. UsersInv'
  BY <1>2, <1>3, <1>4, Types DEF UsersInv
<1>8. RowsInv'
  <2>1. \A x \in saved : x.op \in Ops
    BY DEF TypeOK, Row
  <2>2. \A s \in Ops : op'[s].token = op[s].token
    BY <1>2, <1>3
  <2> QED BY <1>4, <1>5, <2>1, <2>2 DEF RowsInv
<1>9. OpsInv'
  <2>1. ASSUME NEW t \in Tabs, NEW s \in shown'[t]
        PROVE  Settled(op'[s])
    <3>1. s \in Ops
      BY <2>1 DEF Ends
    <3>2. CASE s \in shown[t]
      BY <1>5, <3>1, <3>2 DEF OpsInv
    <3>3. CASE s = o /\ op[o].kind = "save" /\ op[o].status = 200
      BY <1>2, <1>3, <3>3 DEF Settled
    <3>4. CASE s \in op[o].target
      BY <1>5, <3>1, <3>4 DEF OpsInv
    <3> QED BY <3>2, <3>3, <3>4, <2>1 DEF Ends
  <2>2. \A p \in Ops : /\ op'[p].target = op[p].target /\ op[p].target \subseteq Ops
                       /\ op'[p].status = op[p].status /\ op'[p].kind = op[p].kind
                       /\ op'[p].token = op[p].token /\ op'[p].tab = op[p].tab
                       /\ Refused(op'[p]) => Refused(op[p])
                       /\ op'[p].pc = "idle" => op'[p] = op[p]
                       /\ op'[p].pc = "creating" => op[p].pc = "creating"
                       /\ op'[p].pc \in {"creating", "sent"} => op'[p] = op[p]
    BY <1>1, <1>2, <1>3 DEF Refused, Operation
  <2>3. \A p \in Ops : \A s \in op'[p].target : Settled(op'[s])
    BY <1>5, <2>2 DEF OpsInv
  <2> QED BY <1>4, <2>1, <2>2, <2>3 DEF OpsInv
<1>10. CreationsInv'
  <2>1. \A p \in Ops : /\ op'[p].token = op[p].token /\ op'[p].tab = op[p].tab
                       /\ op[p].pc = "creating" => op'[p].pc = "creating"
    BY <1>2, <1>3, <1>4
  <2>2. \A t \in Tabs : creation[t].pc = "issued" => creation[t].user # 0 /\ creation[t].user # stored
    BY DEF CreationsInv
  <2> QED BY <1>4, <2>1, <2>2 DEF CreationsInv
<1>11. ~ overlapped => /\ \A p \in Ops : InFlight(p) => p = o
                       /\ op[o].token = stored
                       /\ Forgets(op[o]) => stored \notin accounts
  <2>1. InFlight(o) /\ (Forgets(op[o]) => Refused(op[o]))
    BY <1>4 DEF InFlight, Refused, Forgets
  <2> QED BY <1>4, <2>1 DEF AloneInv, OpsInv
<1>12. AloneInv'
  <2>1. ~ overlapped => \A p \in Ops : op'[p].pc \in {"idle", "done"}
    BY <1>2, <1>3, <1>11 DEF InFlight
  <2> QED BY <1>4, <2>1 DEF AloneInv, InFlight
<1>13. HeldUnlessOverlapped'
  <2> SUFFICES ASSUME ~ overlapped', NEW x \in saved', x.op \in Reported' PROVE stored' = x.user
    BY DEF HeldUnlessOverlapped
  <2>1. x \in saved /\ x.op \in Ops /\ x.user \in accounts /\ x.user = op[x.op].token
    BY <1>4 DEF RowsInv, TypeOK, Row
  <2>2. stored = x.user
    <3>1. CASE x.op = o
      BY <1>4, <1>11, <2>1, <3>1
    <3>2. CASE x.op # o
      BY <1>3, <1>4, <2>1, <3>2 DEF Reported, HeldUnlessOverlapped
    <3> QED BY <3>1, <3>2
  <2>3. ~ Forgets(op[o])
    BY <1>4, <1>11, <2>1, <2>2
  <2> QED BY <2>2, <2>3 DEF Ends
<1> QED BY <1>6, <1>7, <1>8, <1>9, <1>10, <1>12, <1>13

-----------------------------------------------------------------------------
(* Creations, and what the server does by itself. *)

Awaits(o, t) == op[o].pc = "creating" /\ op[o].tab = t

LEMMA ResumeSent ==
    ASSUME SessionInv, NEW t \in Tabs, SessionCreated(t)
    PROVE  /\ op' \in [Ops -> Operation]
           /\ \A o \in Ops : op'[o] = IF Awaits(o, t) THEN Sent(op[o], creation[t].user) ELSE op[o]
<1>1. op \in [Ops -> Operation] /\ creation[t].user \in 0 .. MaxUsers
  BY Types DEF SessionInv, Creation
<1>2. \A o \in Ops : op[o] \in Operation /\ Sent(op[o], creation[t].user) \in Operation
  BY <1>1, SentIs
<1>3. op' = [o \in Ops |-> IF Awaits(o, t) THEN Sent(op[o], creation[t].user) ELSE op[o]]
  BY Zenon DEF SessionCreated, Resume, Awaits, Sent
<1> QED BY <1>2, <1>3

LEMMA ResumeDone ==
    ASSUME SessionInv, NEW t \in Tabs, CreationFailed(t)
    PROVE  /\ op' \in [Ops -> Operation]
           /\ \A o \in Ops : op'[o] = IF Awaits(o, t) THEN At(op[o], "done") ELSE op[o]
<1>1. op \in [Ops -> Operation]
  BY Types DEF SessionInv
<1>2. \A o \in Ops : op[o] \in Operation /\ At(op[o], "done") \in Operation
  BY <1>1, AtIs
<1>3. op' = [o \in Ops |-> IF Awaits(o, t) THEN At(op[o], "done") ELSE op[o]]
  BY Zenon DEF CreationFailed, Resume, Awaits, At
<1> QED BY <1>2, <1>3

LEMMA CreatedSession ==
    ASSUME SessionInv, NEW t \in Tabs, SessionCreated(t)
    PROVE  SessionInv'
<1> USE DEF SessionInv
<1> DEFINE u == creation[t].user
<1>1. op \in [Ops -> Operation] /\ creation \in [Tabs -> Creation]
  BY Types
<1>2. /\ creation[t].pc = "issued" /\ u \in 1 .. lastUser /\ u \in 0 .. MaxUsers /\ u # stored
      /\ \A o \in Ops : op[o].token # u
  BY <1>1 DEF SessionCreated, CreationsInv, Creation
<1>3. /\ accounts' = accounts /\ saved' = saved /\ lastUser' = lastUser /\ expired' = expired
      /\ shown' = shown /\ ends' = ends /\ lost' = lost /\ overlapped' = overlapped
      /\ stored' = u /\ creation' = [creation EXCEPT ![t] = NoCreation]
  BY DEF SessionCreated, server
<1>4. NoCreation \in Creation /\ NoCreation.pc = "none" /\ NoCreation.user = 0
  BY ConstantsAssumption DEF NoCreation, Creation
<1>5. /\ creation' \in [Tabs -> Creation] /\ creation'[t].pc = "none" /\ creation'[t].user = 0
      /\ \A s \in Tabs : s # t => creation'[s] = creation[s]
  BY <1>1, <1>3, <1>4
<1>6. /\ op' \in [Ops -> Operation]
      /\ \A o \in Ops : Awaits(o, t) =>
           /\ op'[o].pc = "sent" /\ op'[o].token = u /\ op'[o].kind = op[o].kind
           /\ op'[o].tab = op[o].tab /\ op'[o].status = op[o].status /\ op'[o].target = op[o].target
      /\ \A o \in Ops : ~ Awaits(o, t) => op'[o] = op[o]
  BY <1>1, <1>2, ResumeSent, SentIs
<1> HIDE DEF u
<1>7. \A s \in Ops : Settled(op[s]) => op'[s] = op[s]
  BY <1>6 DEF Settled, Awaits
<1>8. TypeOK'
  BY <1>2, <1>3, <1>5, <1>6 DEF TypeOK, Operation, Creation
<1>9. UsersInv'
  BY <1>2, <1>3, <1>6, Types DEF UsersInv
<1>10. RowsInv'
  <2>1. \A x \in saved : x.op \in Ops
    BY DEF TypeOK, Row
  <2> QED BY <1>3, <1>7, <2>1 DEF RowsInv
<1>11. OpsInv'
  <2>1. \A s \in Tabs : \A p \in shown'[s] : Settled(op'[p])
    BY <1>3, <1>7 DEF OpsInv, TypeOK
  <2>2. ASSUME NEW p \in Ops, Awaits(p, t)
        PROVE  /\ op'[p].pc = "sent" /\ op'[p].status = 0
               /\ op'[p].target = op[p].target /\ op[p].target \subseteq Ops
               /\ op'[p].kind = op[p].kind
    BY <1>1, <1>6, <2>2 DEF OpsInv, Awaits, Operation
  <2>3. ASSUME NEW p \in Ops, ~ Awaits(p, t)
        PROVE  /\ op'[p] = op[p] /\ op[p].target \subseteq Ops
               /\ op[p].pc = "creating" => creation'[op[p].tab].pc # "none"
    <3>1. op'[p] = op[p] /\ op[p].target \subseteq Ops /\ op[p].tab \in Tabs
      BY <1>1, <1>6, <2>3 DEF Operation
    <3>2. op[p].pc = "creating" => op[p].tab # t /\ creation[op[p].tab].pc # "none"
      BY <2>3 DEF Awaits, OpsInv
    <3> QED BY <1>5, <3>1, <3>2
  <2>4. \A p \in Ops : \A s \in op'[p].target : Settled(op'[s])
    BY <1>7, <2>2, <2>3 DEF OpsInv
  <2> QED BY <1>3, <2>1, <2>2, <2>3, <2>4 DEF OpsInv, Refused
<1>12. CreationsInv'
  <2>1. ASSUME NEW s \in Tabs, creation'[s].pc # "none"
        PROVE  \E p \in Ops : op'[p].pc = "creating" /\ op'[p].tab = s
    <3>1. s # t /\ creation[s].pc # "none"
      BY <1>5, <2>1
    <3>2. PICK p \in Ops : op[p].pc = "creating" /\ op[p].tab = s
      BY <3>1 DEF CreationsInv
    <3> QED BY <1>6, <3>1, <3>2 DEF Awaits
  <2>2. \A s \in Tabs : creation'[s].pc = "issued" => s # t /\ creation'[s] = creation[s]
    BY <1>5
  <2>3. \A s \in Tabs : s # t /\ creation[s].pc = "issued" =>
           creation[s].user # u /\ creation[s].user \in 1 .. lastUser
    BY DEF CreationsInv, u
  <2>4. ASSUME NEW s \in Tabs, creation'[s].pc = "issued"
        PROVE  /\ creation'[s].user \in 1 .. lastUser /\ creation'[s].user # stored'
               /\ \A p \in Ops : op'[p].token # creation'[s].user
    BY <1>3, <1>6, <2>2, <2>3, <2>4 DEF CreationsInv
  <2>5. \A s \in Tabs : creation'[s].pc # "issued" => creation'[s].user = 0
    BY <1>5 DEF CreationsInv
  <2>6. ASSUME NEW s \in Tabs, NEW q \in Tabs, creation'[s].pc = "issued",
               creation'[s].user = creation'[q].user
        PROVE  s = q
    <3>1. creation'[s].user # 0
      BY <2>4, <2>6
    <3>2. q # t /\ s # t
      BY <1>5, <2>6, <3>1
    <3> QED BY <1>5, <2>6, <3>2 DEF CreationsInv
  <2> QED BY <1>3, <2>1, <2>4, <2>5, <2>6 DEF CreationsInv
<1>13. ~ overlapped => stored = 0 /\ \A p \in Ops : InFlight(p) => Awaits(p, t)
  <2>1. PICK p \in Ops : op[p].pc = "creating" /\ op[p].tab = t
    BY <1>2 DEF CreationsInv
  <2> QED BY <2>1 DEF AloneInv, InFlight, Awaits
<1>14. AloneInv'
  <2> SUFFICES ASSUME ~ overlapped' PROVE AloneInv'
    BY DEF AloneInv
  <2>1. \A p \in Ops : op'[p].pc \notin {"idle", "done"} => InFlight(p) /\ Awaits(p, t)
    BY <1>3, <1>6, <1>13 DEF InFlight, Awaits
  <2>2. \A p, q \in Ops : InFlight(p) /\ InFlight(q) => p = q
    BY <1>3 DEF AloneInv
  <2> QED BY <1>3, <1>6, <2>1, <2>2 DEF AloneInv, InFlight
<1>15. HeldUnlessOverlapped'
  <2> SUFFICES ASSUME ~ overlapped', NEW x \in saved', x.op \in Reported' PROVE FALSE
    BY DEF HeldUnlessOverlapped
  <2>1. x \in saved /\ x.op \in Ops /\ Settled(op[x.op]) /\ x.user \in accounts
    BY <1>3 DEF RowsInv, TypeOK, Row
  <2>2. x.op \in Reported
    BY <1>7, <2>1 DEF Reported
  <2>3. stored = x.user /\ x.user # 0
    BY <1>3, <2>1, <2>2, Types DEF HeldUnlessOverlapped, UsersInv
  <2> QED BY <1>3, <1>13, <2>3
<1> QED BY <1>8, <1>9, <1>10, <1>11, <1>12, <1>14, <1>15

LEMMA FailedSession ==
    ASSUME SessionInv, NEW t \in Tabs, CreationFailed(t)
    PROVE  SessionInv'
<1> USE DEF SessionInv
<1>1. op \in [Ops -> Operation] /\ creation \in [Tabs -> Creation]
  BY Types
<1>2. /\ accounts' = accounts /\ saved' = saved /\ lastUser' = lastUser /\ expired' = expired
      /\ shown' = shown /\ ends' = ends /\ lost' = lost /\ overlapped' = overlapped
      /\ stored' = stored /\ creation' = [creation EXCEPT ![t] = NoCreation]
  BY DEF CreationFailed, server
<1>3. NoCreation \in Creation /\ NoCreation.pc = "none" /\ NoCreation.user = 0
  BY ConstantsAssumption DEF NoCreation, Creation
<1>4. /\ creation' \in [Tabs -> Creation] /\ creation'[t].pc = "none" /\ creation'[t].user = 0
      /\ \A s \in Tabs : s # t => creation'[s] = creation[s]
  BY <1>1, <1>2, <1>3
<1>5. /\ op' \in [Ops -> Operation]
      /\ \A o \in Ops : Awaits(o, t) =>
           /\ op'[o].pc = "done" /\ op'[o].token = op[o].token /\ op'[o].kind = op[o].kind
           /\ op'[o].tab = op[o].tab /\ op'[o].status = op[o].status /\ op'[o].target = op[o].target
      /\ \A o \in Ops : ~ Awaits(o, t) => op'[o] = op[o]
  BY <1>1, ResumeDone, AtIs
<1>6. \A s \in Ops : Settled(op[s]) => op'[s] = op[s]
  BY <1>5 DEF Settled, Awaits
<1>7. \A p \in Ops : Awaits(p, t) => op[p].status = 0
  BY DEF Awaits, OpsInv
<1>8. TypeOK'
  BY <1>2, <1>4, <1>5 DEF TypeOK, Operation, Creation
<1>9. UsersInv'
  BY <1>2, <1>5, Types DEF UsersInv
<1>10. RowsInv'
  <2>1. \A x \in saved : x.op \in Ops
    BY DEF TypeOK, Row
  <2> QED BY <1>2, <1>6, <2>1 DEF RowsInv
<1>11. OpsInv'
  <2>1. \A s \in Tabs : \A p \in shown'[s] : Settled(op'[p])
    BY <1>2, <1>6 DEF OpsInv, TypeOK
  <2>2. ASSUME NEW p \in Ops, Awaits(p, t)
        PROVE  /\ op'[p].pc = "done" /\ op'[p].status = 0
               /\ op'[p].target = op[p].target /\ op[p].target \subseteq Ops
               /\ op'[p].kind = op[p].kind
    BY <1>1, <1>5, <1>7, <2>2 DEF Operation
  <2>3. ASSUME NEW p \in Ops, ~ Awaits(p, t)
        PROVE  /\ op'[p] = op[p] /\ op[p].target \subseteq Ops
               /\ op[p].pc = "creating" => creation'[op[p].tab].pc # "none"
    <3>1. op'[p] = op[p] /\ op[p].target \subseteq Ops /\ op[p].tab \in Tabs
      BY <1>1, <1>5, <2>3 DEF Operation
    <3>2. op[p].pc = "creating" => op[p].tab # t /\ creation[op[p].tab].pc # "none"
      BY <2>3 DEF Awaits, OpsInv
    <3> QED BY <1>4, <3>1, <3>2
  <2>4. \A p \in Ops : \A s \in op'[p].target : Settled(op'[s])
    BY <1>6, <2>2, <2>3 DEF OpsInv
  <2> QED BY <1>2, <2>1, <2>2, <2>3, <2>4 DEF OpsInv, Refused
<1>12. CreationsInv'
  <2>1. ASSUME NEW s \in Tabs, creation'[s].pc # "none"
        PROVE  \E p \in Ops : op'[p].pc = "creating" /\ op'[p].tab = s
    <3>1. s # t /\ creation[s].pc # "none"
      BY <1>4, <2>1
    <3>2. PICK p \in Ops : op[p].pc = "creating" /\ op[p].tab = s
      BY <3>1 DEF CreationsInv
    <3> QED BY <1>5, <3>1, <3>2 DEF Awaits
  <2>2. \A p \in Ops : op'[p].token = op[p].token
    BY <1>5
  <2>3. ASSUME NEW s \in Tabs, creation'[s].pc = "issued"
        PROVE  /\ s # t
               /\ creation'[s].user \in 1 .. lastUser /\ creation'[s].user # stored'
               /\ \A p \in Ops : op'[p].token # creation'[s].user
    BY <1>2, <1>4, <2>2, <2>3 DEF CreationsInv
  <2>4. \A s \in Tabs : creation'[s].pc # "issued" => creation'[s].user = 0
    BY <1>4 DEF CreationsInv
  <2>5. ASSUME NEW s \in Tabs, NEW q \in Tabs, creation'[s].pc = "issued",
               creation'[s].user = creation'[q].user
        PROVE  s = q
    <3>1. creation'[s].user # 0 /\ s # t
      BY <2>3, <2>5
    <3>2. q # t
      BY <1>4, <2>5, <3>1
    <3> QED BY <1>4, <2>5, <3>1, <3>2 DEF CreationsInv
  <2> QED BY <1>2, <2>1, <2>3, <2>4, <2>5 DEF CreationsInv
<1>13. AloneInv'
  <2>1. \A p \in Ops : op'[p].pc \notin {"idle", "done"} => op'[p] = op[p] /\ InFlight(p)
    BY <1>5 DEF InFlight
  <2> QED BY <1>2, <2>1 DEF AloneInv, InFlight
<1>14. HeldUnlessOverlapped'
  <2>1. \A p \in Ops : p \in Reported' => p \in Reported
    BY <1>5, <1>7 DEF Reported
  <2> QED BY <1>2, <2>1 DEF HeldUnlessOverlapped, Reported
<1> QED BY <1>8, <1>9, <1>10, <1>11, <1>12, <1>13, <1>14

LEMMA IssueSession ==
    ASSUME SessionInv, NEW t \in Tabs, Issue(t)
    PROVE  SessionInv'
<1> USE DEF SessionInv
<1> DEFINE u == lastUser + 1
           c == [pc |-> "issued", user |-> u]
<1>1. creation \in [Tabs -> Creation] /\ lastUser \in Nat /\ MaxUsers \in Nat
  BY Types
<1>2. /\ creation[t].pc = "sent" /\ lastUser < MaxUsers /\ lastUser' = u
      /\ accounts' = accounts \cup {u} /\ creation' = [creation EXCEPT ![t] = c]
      /\ saved' = saved /\ expired' = expired /\ stored' = stored /\ op' = op
      /\ shown' = shown /\ ends' = ends /\ lost' = lost /\ overlapped' = overlapped
  BY DEF Issue
<1>3. c \in Creation /\ c.pc = "issued" /\ c.user = u
  BY <1>1, <1>2 DEF Creation
<1>4. u \in 1 .. MaxUsers /\ lastUser < u /\ u \in Nat
  BY <1>1, <1>2
<1> HIDE DEF u, c
<1>5. /\ creation' \in [Tabs -> Creation] /\ creation'[t].pc = "issued" /\ creation'[t].user = u
      /\ \A s \in Tabs : s # t => creation'[s] = creation[s]
  BY <1>1, <1>2, <1>3
<1>6. TypeOK'
  BY <1>2, <1>4, <1>5 DEF TypeOK, Users, Creation
<1>7. UsersInv'
  <2>1. \A n \in 1 .. lastUser : n \in 1 .. u /\ n # u
    BY <1>1, <1>4
  <2>2. stored <= u /\ \A o \in Ops : op[o].token <= u
    BY <1>1, <1>4, Types DEF UsersInv, Operation
  <2>3. accounts' \subseteq 1 .. u /\ expired \subseteq 1 .. u /\ u \notin expired
    BY <1>2, <1>4, <2>1 DEF UsersInv
  <2> QED BY <1>2, <2>2, <2>3 DEF UsersInv
<1>8. RowsInv'
  BY <1>2 DEF RowsInv
<1>9. \A o \in Ops : op[o].token # u
  BY <1>1, <1>4, Types DEF UsersInv, Operation
<1>10. OpsInv'
  <2>1. \A s \in Tabs : creation[s].pc # "none" => creation'[s].pc # "none"
    BY <1>5
  <2>2. \A o \in Ops : op[o].tab \in Tabs
    BY Types DEF Operation
  <2> QED BY <1>2, <1>9, <2>1, <2>2 DEF OpsInv
<1>11. CreationsInv'
  <2>1. \A s \in Tabs : creation'[s].pc # "none" => \E p \in Ops : op[p].pc = "creating" /\ op[p].tab = s
    BY <1>2, <1>5 DEF CreationsInv
  <2>2. \A s \in Tabs : creation'[s].pc # "issued" => creation'[s].user = 0
    BY <1>5 DEF CreationsInv
  <2>3. ASSUME NEW s \in Tabs, creation'[s].pc = "issued"
        PROVE  /\ creation'[s].user \in 1 .. u /\ creation'[s].user # stored
               /\ \A p \in Ops : op[p].token # creation'[s].user
    <3>1. CASE s = t
      <4>1. stored # u
        BY <1>1, <1>4, Types DEF UsersInv
      <4> QED BY <1>4, <1>5, <1>9, <3>1, <4>1
    <3>2. CASE s # t
      <4>1. creation'[s] = creation[s] /\ creation[s].user \in 1 .. lastUser
        BY <1>5, <2>3, <3>2 DEF CreationsInv
      <4> QED BY <1>1, <1>4, <2>3, <4>1 DEF CreationsInv
    <3> QED BY <3>1, <3>2
  <2>4. \A s \in Tabs : s # t => creation[s].user # u
    <3>1. ASSUME NEW s \in Tabs, creation[s].pc = "issued" PROVE creation[s].user # u
      BY <1>1, <1>4, <3>1 DEF CreationsInv
    <3>2. ASSUME NEW s \in Tabs, creation[s].pc # "issued" PROVE creation[s].user # u
      BY <1>4, <3>2 DEF CreationsInv
    <3> QED BY <3>1, <3>2
  <2>5. ASSUME NEW s \in Tabs, NEW q \in Tabs, creation'[s].pc = "issued",
               creation'[s].user = creation'[q].user
        PROVE  s = q
    <3>1. CASE s = t \/ q = t
      BY <1>5, <2>4, <2>5, <3>1
    <3>2. CASE s # t /\ q # t
      BY <1>5, <2>5, <3>2 DEF CreationsInv
    <3> QED BY <3>1, <3>2
  <2> QED BY <1>2, <2>1, <2>2, <2>3, <2>5 DEF CreationsInv
<1>12. AloneInv' /\ HeldUnlessOverlapped'
  BY <1>2 DEF AloneInv, InFlight, HeldUnlessOverlapped, Reported
<1> QED BY <1>6, <1>7, <1>8, <1>10, <1>11, <1>12

LEMMA LostSession ==
    ASSUME SessionInv, NEW t \in Tabs, LoseCreation(t)
    PROVE  SessionInv'
<1> USE DEF SessionInv
<1> DEFINE c == [pc |-> "failed", user |-> 0]
<1>1. creation \in [Tabs -> Creation] /\ lost \in Nat /\ MaxLost \in Nat /\ MaxUsers \in Nat
  BY Types
<1>2. /\ creation[t].pc # "none" /\ creation' = [creation EXCEPT ![t] = c]
      /\ accounts' = accounts /\ lastUser' = lastUser
      /\ saved' = saved /\ expired' = expired /\ stored' = stored /\ op' = op
      /\ shown' = shown /\ ends' = ends /\ overlapped' = overlapped
      /\ lost' = IF lost < MaxLost THEN lost + 1 ELSE lost
  BY DEF LoseCreation, server
<1>3. c \in Creation /\ c.pc = "failed" /\ c.user = 0
  BY <1>1 DEF Creation
<1> HIDE DEF c
<1>4. /\ creation' \in [Tabs -> Creation] /\ creation'[t].pc = "failed" /\ creation'[t].user = 0
      /\ \A s \in Tabs : s # t => creation'[s] = creation[s]
  BY <1>1, <1>2, <1>3
<1>5. lost' \in 0 .. MaxLost
  BY <1>1, <1>2 DEF TypeOK
<1>6. TypeOK'
  BY <1>2, <1>4, <1>5 DEF TypeOK, Creation
<1>7. UsersInv' /\ RowsInv'
  BY <1>2 DEF UsersInv, RowsInv
<1>8. OpsInv'
  <2>1. \A s \in Tabs : creation[s].pc # "none" => creation'[s].pc # "none"
    BY <1>4
  <2>2. \A o \in Ops : op[o].tab \in Tabs
    BY Types DEF Operation
  <2> QED BY <1>2, <2>1, <2>2 DEF OpsInv
<1>9. CreationsInv'
  <2>1. \A s \in Tabs : creation'[s].pc = "issued" => s # t /\ creation'[s] = creation[s]
    BY <1>4
  <2>2. \A s \in Tabs : creation'[s].pc # "issued" => creation'[s].user = 0
    BY <1>4 DEF CreationsInv
  <2>3. \A s \in Tabs : creation'[s].pc # "none" => \E p \in Ops : op[p].pc = "creating" /\ op[p].tab = s
    BY <1>2, <1>4 DEF CreationsInv
  <2>4. ASSUME NEW s \in Tabs, NEW q \in Tabs, creation'[s].pc = "issued",
               creation'[s].user = creation'[q].user
        PROVE  s = q
    <3>1. creation'[s].user # 0 /\ s # t
      BY <2>1, <2>4 DEF CreationsInv
    <3> QED BY <1>4, <2>4, <3>1 DEF CreationsInv
  <2> QED BY <1>2, <2>1, <2>2, <2>3, <2>4 DEF CreationsInv
<1>10. AloneInv' /\ HeldUnlessOverlapped'
  BY <1>2 DEF AloneInv, InFlight, HeldUnlessOverlapped, Reported
<1> QED BY <1>6, <1>7, <1>8, <1>9, <1>10

LEMMA EndedSession ==
    ASSUME SessionInv, NEW u \in accounts, EndSession(u)
    PROVE  SessionInv'
<1> USE DEF SessionInv
<1>1. /\ accounts' = accounts \ {u} /\ saved' = saved \ RowsOf(u)
      /\ expired' = expired \/ expired' = expired \cup {u}
      /\ lastUser' = lastUser /\ stored' = stored /\ creation' = creation /\ op' = op
      /\ shown' = shown /\ lost' = lost /\ overlapped' = overlapped
  BY DEF EndSession, browser
<1>2. ends' \in 0 .. MaxEnds
  BY ConstantsAssumption DEF EndSession, TypeOK
<1>3. \A x \in saved' : x \in saved /\ x.user # u
  BY <1>1 DEF RowsOf
<1>4. u \in Users
  BY DEF TypeOK
<1>5. TypeOK'
  BY <1>1, <1>2, <1>3, <1>4 DEF TypeOK
<1>6. UsersInv' /\ RowsInv' /\ OpsInv'
  BY <1>1, <1>3 DEF UsersInv, RowsInv, OpsInv
<1>7. CreationsInv' /\ AloneInv' /\ HeldUnlessOverlapped'
  BY <1>1, <1>3 DEF CreationsInv, AloneInv, InFlight, HeldUnlessOverlapped, Reported
<1> QED BY <1>5, <1>6, <1>7

LEMMA StutterSession ==
    ASSUME SessionInv, UNCHANGED vars
    PROVE  SessionInv'
<1>1. /\ accounts' = accounts /\ saved' = saved /\ lastUser' = lastUser /\ expired' = expired
      /\ stored' = stored /\ creation' = creation /\ op' = op
      /\ shown' = shown /\ ends' = ends /\ lost' = lost /\ overlapped' = overlapped
  BY DEF vars, server, browser
<1> QED BY <1>1 DEF SessionInv, TypeOK, UsersInv, RowsInv, OpsInv, CreationsInv, AloneInv,
                    InFlight, HeldUnlessOverlapped, Reported

LEMMA SessionStarts ==
    ASSUME Init
    PROVE  SessionInv
<1>1. /\ accounts = {} /\ saved = {} /\ lastUser = 0 /\ expired = {} /\ stored = 0
      /\ creation = [t \in Tabs |-> NoCreation] /\ op = [o \in Ops |-> NoOp]
      /\ shown = [t \in Tabs |-> {}] /\ ends = 0 /\ lost = 0 /\ overlapped = FALSE
  BY DEF Init
<1>2. NoCreation \in Creation /\ NoCreation.pc = "none" /\ NoCreation.user = 0
  BY ConstantsAssumption DEF NoCreation, Creation
<1>3. \A o \in Ops : op[o] = NoOp /\ op[o] \in Operation
  BY <1>1, IdleOperation
<1>4. \A t \in Tabs : creation[t].pc = "none" /\ creation[t].user = 0 /\ shown[t] = {}
  BY <1>1, <1>2
<1>5. TypeOK
  <2>1. op \in [Ops -> Operation] /\ creation \in [Tabs -> Creation] /\ shown \in [Tabs -> SUBSET Ops]
    BY <1>1, <1>2, IdleOperation
  <2>2. /\ accounts \subseteq Users /\ saved \subseteq Row /\ expired \subseteq Users
        /\ lastUser \in 0 .. MaxUsers /\ stored \in 0 .. MaxUsers
        /\ ends \in 0 .. MaxEnds /\ lost \in 0 .. MaxLost
    <3>1. MaxUsers \in Nat /\ MaxEnds \in Nat /\ MaxLost \in Nat
      BY ConstantsAssumption
    <3> QED BY <1>1, <3>1
  <2>3. overlapped \in BOOLEAN
    BY <1>1, Zenon
  <2> QED BY <2>1, <2>2, <2>3 DEF TypeOK, Operation, Creation
<1>6. UsersInv /\ RowsInv /\ CreationsInv
  BY <1>1, <1>3, <1>4, IdleOperation DEF UsersInv, RowsInv, CreationsInv
<1>7. OpsInv /\ AloneInv /\ HeldUnlessOverlapped
  BY <1>1, <1>3, <1>4, IdleOperation DEF OpsInv, AloneInv, InFlight, HeldUnlessOverlapped, Refused
<1> QED BY <1>5, <1>6, <1>7 DEF SessionInv

LEMMA SessionStep ==
    ASSUME SessionInv, [Next]_vars
    PROVE  SessionInv'
<1>1. ASSUME NEW o \in Ops, NEW t \in Tabs, Act(o, t) PROVE SessionInv'
  BY <1>1, ActOpens, OpensSession
<1>2. ASSUME NEW o \in Ops, Lose(o) PROVE SessionInv'
  BY <1>2, LoseReplies, RepliesSession
<1>3. ASSUME NEW u \in accounts, EndSession(u) PROVE SessionInv'
  BY <1>3, EndedSession
<1>4. ASSUME NEW o \in Ops, Serve(o) PROVE SessionInv'
  BY <1>4, RefuseReplies, PerformReplies, RepliesSession DEF Serve
<1>5. ASSUME NEW o \in Ops, Recover(o) PROVE SessionInv'
  BY <1>5, RecoverRepeats, RepeatsSession
<1>6. ASSUME NEW o \in Ops, Conclude(o) PROVE SessionInv'
  BY <1>6, ConcludeEnds, EndsSession
<1>7. ASSUME NEW t \in Tabs, SessionCreated(t) PROVE SessionInv'
  BY <1>7, CreatedSession
<1>8. ASSUME NEW t \in Tabs, CreationFailed(t) PROVE SessionInv'
  BY <1>8, FailedSession
<1>9. ASSUME NEW t \in Tabs, Issue(t) PROVE SessionInv'
  BY <1>9, IssueSession
<1>10. ASSUME NEW t \in Tabs, LoseCreation(t) PROVE SessionInv'
  BY <1>10, LostSession
<1>11. CASE UNCHANGED vars
  BY <1>11, StutterSession
<1> QED BY <1>1, <1>2, <1>3, <1>4, <1>5, <1>6, <1>7, <1>8, <1>9, <1>10, <1>11
        DEF Next, Progress, AllDone

LEMMA SessionInvariant == Spec => []SessionInv
<1>1. Init => SessionInv
  BY SessionStarts
<1>2. SessionInv /\ [Next]_vars => SessionInv'
  BY SessionStep
<1> QED BY <1>1, <1>2, PTL DEF Spec

LEMMA RowsOnce ==
    ASSUME SessionInv
    PROVE  SavedOnce
<1> SUFFICES ASSUME NEW x \in saved, NEW y \in saved, x.op = y.op PROVE x = y
  BY DEF SavedOnce
<1>1. x \in Row /\ y \in Row /\ x.user = y.user
  BY DEF SessionInv, TypeOK, RowsInv
<1> QED BY <1>1 DEF Row

\* However often a save is sent, and whatever session the retry has, one row results
\* (runWithAnonymousSession in anonymousSession.ts repeats a call only after a 401).
THEOREM SavedAtMostOnce == Spec => []SavedOnce
<1>1. SessionInv => SavedOnce
  BY RowsOnce
<1> QED BY <1>1, SessionInvariant, PTL

\* As long as the user's actions do not overlap, what was reported as saved belongs to the
\* session in localStorage, so that the page can list and delete it.
THEOREM ReportedIsHeld == Spec => []HeldUnlessOverlapped
<1>1. SessionInv => HeldUnlessOverlapped
  BY DEF SessionInv
<1> QED BY <1>1, SessionInvariant, PTL

-----------------------------------------------------------------------------
(* How many sessions are created. *)

LEMMA Smaller ==
    ASSUME NEW B, IsFiniteSet(B), NEW A, A \subseteq B
    PROVE  /\ IsFiniteSet(A) /\ Cardinality(A) \in Nat /\ Cardinality(B) \in Nat
           /\ Cardinality(A) <= Cardinality(B)
<1>1. IsFiniteSet(A) /\ Cardinality(A) <= Cardinality(B)
  BY FS_Subset
<1> QED BY <1>1, FS_CardinalityType

LEMMA OneMore ==
    ASSUME NEW B, IsFiniteSet(B), NEW A, A \subseteq B, NEW x \in B, x \notin A
    PROVE  Cardinality(A) + 1 <= Cardinality(B)
<1>1. IsFiniteSet(A) /\ IsFiniteSet(A \cup {x}) /\ A \cup {x} \subseteq B
  BY FS_Subset
<1>2. Cardinality(A \cup {x}) = Cardinality(A) + 1
  BY <1>1, FS_AddElement
<1> QED BY <1>1, <1>2, FS_Subset

LEMMA AtMostOneMore ==
    ASSUME NEW B, IsFiniteSet(B), NEW x, NEW A, A \subseteq B \cup {x}
    PROVE  Cardinality(A) <= Cardinality(B) + 1
<1>1. IsFiniteSet(B \cup {x}) /\ Cardinality(B \cup {x}) <= Cardinality(B) + 1
  <2>1. /\ IsFiniteSet(B \cup {x})
        /\ \/ Cardinality(B \cup {x}) = Cardinality(B)
           \/ Cardinality(B \cup {x}) = Cardinality(B) + 1
    BY FS_AddElement
  <2>2. Cardinality(B) \in Nat
    BY FS_CardinalityType
  <2> QED BY <2>1, <2>2
<1>2. IsFiniteSet(A) /\ Cardinality(A) <= Cardinality(B \cup {x})
  BY <1>1, FS_Subset
<1> QED BY <1>1, <1>2, FS_CardinalityType

Counted ==
    /\ Repeated \subseteq Ops /\ Cleared \subseteq Ops /\ Due \subseteq Tabs /\ Late \subseteq Tabs
    /\ IsFiniteSet(Repeated) /\ IsFiniteSet(Cleared) /\ IsFiniteSet(Due) /\ IsFiniteSet(Late)
    /\ Cardinality(Repeated) \in Nat /\ Cardinality(Cleared) \in Nat
    /\ Cardinality(Due) \in 0 .. Width /\ Cardinality(Late) \in 0 .. Width
    /\ Reasons \in Nat /\ lastUser \in Nat /\ lost \in Nat /\ ends \in Nat

LEMMA Counts == TypeOK => Counted
<1> SUFFICES ASSUME TypeOK PROVE Counted
  OBVIOUS
<1>1. /\ Repeated \subseteq Ops /\ Cleared \subseteq Ops /\ Due \subseteq Tabs /\ Late \subseteq Tabs
  BY DEF Repeated, Cleared, Due, Late
<1>2. /\ IsFiniteSet(Repeated) /\ IsFiniteSet(Cleared)
      /\ Cardinality(Repeated) \in Nat /\ Cardinality(Cleared) \in Nat
  BY <1>1, Smaller, ConstantsAssumption
<1>3. /\ IsFiniteSet(Due) /\ IsFiniteSet(Late) /\ Cardinality(Due) \in Nat /\ Cardinality(Late) \in Nat
      /\ Cardinality(Due) <= Cardinality(Tabs) /\ Cardinality(Late) <= Cardinality(Tabs)
      /\ Cardinality(Tabs) \in Nat
  BY <1>1, Smaller, ConstantsAssumption
<1>4. ends \in Nat /\ lost \in Nat /\ lastUser \in Nat
  BY Types
<1>5. Reasons \in Nat
  BY <1>2, <1>4 DEF Reasons
<1> QED BY <1>1, <1>2, <1>3, <1>4, <1>5 DEF Width, Counted

LEMMA CountsNext == TypeOK' => Counted'
BY Counts, PTL

LEMMA WidthType == Width \in Nat
BY FS_CardinalityType, ConstantsAssumption DEF Width

\* The next reason leaves room for a session of every tab.
LEMMA Room ==
    ASSUME NEW w \in Nat, NEW a \in Nat, NEW b \in Nat
    PROVE  /\ w * a \in Nat
           /\ a <= b => w * a <= w * b
           /\ a + 1 <= b => w * a + w <= w * b
<1>1. w * a \in Nat /\ w * b \in Nat
  OBVIOUS
<1>2. a <= b => w * a <= w * b
  <2> SUFFICES ASSUME a <= b PROVE w * a <= w * b
    OBVIOUS
  <2>1. PICK d \in Nat : b = a + d
    <3>1. b - a \in Nat /\ b = a + (b - a)
      OBVIOUS
    <3> QED BY <3>1
  <2>2. w * b = w * a + w * d /\ w * d \in Nat
    BY <2>1
  <2> QED BY <1>1, <2>2
<1>3. a + 1 <= b => w * a + w <= w * b
  <2> SUFFICES ASSUME a + 1 <= b PROVE w * a + w <= w * b
    OBVIOUS
  <2>1. PICK d \in Nat : b = a + 1 + d
    <3>1. b - (a + 1) \in Nat /\ b = a + 1 + (b - (a + 1))
      OBVIOUS
    <3> QED BY <3>1
  <2>2. w * b = w * a + w + w * d /\ w * d \in Nat
    BY <2>1
  <2> QED BY <1>1, <2>2
<1> QED BY <1>1, <1>2, <1>3

LEMMA CountKept ==
    ASSUME TypeOK, TypeOK', CountInv, lastUser' = lastUser, Reasons <= Reasons',
           Due' \subseteq Due, Late' \subseteq Late
    PROVE  CountInv'
<1>1. Counted /\ Counted' /\ Width \in Nat
  BY Counts, CountsNext, WidthType
<1>2. Cardinality(Due)' <= Cardinality(Due) /\ Cardinality(Late)' <= Cardinality(Late)
  BY <1>1, Smaller DEF Counted
<1>3. /\ Cardinality(Due) \in Nat /\ Cardinality(Late) \in Nat /\ Cardinality(Due)' \in Nat
      /\ Cardinality(Late)' \in Nat /\ Reasons \in Nat /\ Reasons' \in Nat /\ lastUser \in Nat
  BY <1>1 DEF Counted
<1>4. /\ Width * Cardinality(Late) \in Nat /\ Width * Cardinality(Late)' \in Nat
      /\ Width * Reasons \in Nat /\ Width * Reasons' \in Nat
      /\ Width * Cardinality(Late)' <= Width * Cardinality(Late)
      /\ Width * Reasons <= Width * Reasons'
  BY <1>1, <1>2, <1>3, Room
<1> HIDE DEF Width
<1> QED BY <1>2, <1>3, <1>4 DEF CountInv

LEMMA CountReason ==
    ASSUME TypeOK, TypeOK', CountInv, lastUser' = lastUser, Reasons + 1 <= Reasons',
           \/ Late' \subseteq Late
           \/ Due' \subseteq Due /\ \E t \in Tabs : Late' \subseteq Late \cup {t}
    PROVE  CountInv'
<1>1. Counted /\ Counted' /\ Width \in Nat
  BY Counts, CountsNext, WidthType
<1>2. /\ Cardinality(Due) \in Nat /\ Cardinality(Late) \in Nat /\ Cardinality(Due)' \in Nat
      /\ Cardinality(Late)' \in Nat /\ Reasons \in Nat /\ Reasons' \in Nat /\ lastUser \in Nat
      /\ Cardinality(Due)' <= Width /\ Reasons <= Reasons'
  BY <1>1 DEF Counted, Width
<1>3. /\ Width * Cardinality(Late) \in Nat /\ Width * Cardinality(Late)' \in Nat
      /\ Width * Reasons \in Nat /\ Width * Reasons' \in Nat
      /\ Width * Reasons + Width <= Width * Reasons'
  BY <1>1, <1>2, Room
<1>4. PICK w \in Nat : /\ w = Width /\ Cardinality(Due)' <= w
                       /\ Width * Reasons + w <= Width * Reasons'
  BY <1>1, <1>2, <1>3
<1>5. /\ Width * Cardinality(Late) \in Nat /\ Width * Cardinality(Late)' \in Nat
      /\ Width * Reasons \in Nat /\ Width * Reasons' \in Nat
      /\ Cardinality(Due) \in Nat /\ Cardinality(Due)' \in Nat /\ lastUser \in Nat
      /\ lastUser' = lastUser
  BY <1>2, <1>3
<1>6. CASE Late' \subseteq Late
  <2>1. Cardinality(Late)' <= Cardinality(Late)
    BY <1>1, <1>6, Smaller DEF Counted
  <2>2. Width * Cardinality(Late)' <= Width * Cardinality(Late)
    BY <1>1, <1>2, <2>1, Room
  <2>7. lastUser' <= Width * Reasons'
    <3> HIDE DEF Width
    <3>1. lastUser <= Width * Reasons
      BY DEF CountInv
    <3> QED BY ONLY <1>4, <1>5, <2>2, <3>1
  <2>8. ASSUME lastUser < MaxUsers
        PROVE  lastUser' + Cardinality(Due)' + Width * Cardinality(Late)' <= Width * Reasons'
    <3> HIDE DEF Width
    <3>1. lastUser + Cardinality(Due) + Width * Cardinality(Late) <= Width * Reasons
      BY <2>8 DEF CountInv
    <3> QED BY ONLY <1>4, <1>5, <2>2, <3>1
  <2> QED BY <2>7, <2>8 DEF CountInv
<1>7. CASE Due' \subseteq Due /\ \E t \in Tabs : Late' \subseteq Late \cup {t}
  <2>1. Cardinality(Due)' <= Cardinality(Due)
    BY <1>1, <1>7, Smaller DEF Counted
  <2>2. Cardinality(Late)' <= Cardinality(Late) + 1
    BY <1>1, <1>7, AtMostOneMore DEF Counted
  <2>3. Width * Cardinality(Late)' <= Width * Cardinality(Late) + Width
    <3>1. Width * Cardinality(Late)' <= Width * (Cardinality(Late) + 1)
      BY <1>1, <1>2, <2>2, Room
    <3>2. Width * (Cardinality(Late) + 1) = Width * Cardinality(Late) + Width
      BY <1>1, <1>2
    <3> QED BY <3>1, <3>2
  <2>4. Width * Cardinality(Late)' <= Width * Cardinality(Late) + w
    BY <1>4, <2>3
  <2>7. lastUser' <= Width * Reasons'
    <3> HIDE DEF Width
    <3>1. lastUser <= Width * Reasons
      BY DEF CountInv
    <3> QED BY ONLY <1>4, <1>5, <2>1, <2>4, <3>1
  <2>8. ASSUME lastUser < MaxUsers
        PROVE  lastUser' + Cardinality(Due)' + Width * Cardinality(Late)' <= Width * Reasons'
    <3> HIDE DEF Width
    <3>1. lastUser + Cardinality(Due) + Width * Cardinality(Late) <= Width * Reasons
      BY <2>8 DEF CountInv
    <3> QED BY ONLY <1>4, <1>5, <2>1, <2>4, <3>1
  <2> QED BY <2>7, <2>8 DEF CountInv
<1> QED BY <1>6, <1>7

\* A tab stores a session that has expired: the next creation has been counted for it.
LEMMA CountLate ==
    ASSUME TypeOK, TypeOK', CountInv, lastUser' = lastUser, Reasons <= Reasons',
           NEW t \in Late, Late' \subseteq Late \ {t}
    PROVE  CountInv'
<1>1. Counted /\ Counted' /\ Width \in Nat
  BY Counts, CountsNext, WidthType
<1>2. /\ Cardinality(Due) \in Nat /\ Cardinality(Late) \in Nat /\ Cardinality(Due)' \in Nat
      /\ Cardinality(Late)' \in Nat /\ Reasons \in Nat /\ Reasons' \in Nat /\ lastUser \in Nat
      /\ Cardinality(Due)' <= Width
  BY <1>1 DEF Counted, Width
<1>3. Cardinality(Late)' + 1 <= Cardinality(Late)
  BY <1>1, OneMore DEF Counted
<1>4. /\ Width * Cardinality(Late) \in Nat /\ Width * Cardinality(Late)' \in Nat
      /\ Width * Reasons \in Nat /\ Width * Reasons' \in Nat
      /\ Width * Reasons <= Width * Reasons'
      /\ Width * Cardinality(Late)' + Width <= Width * Cardinality(Late)
  BY <1>1, <1>2, <1>3, Room
<1>5. PICK w \in Nat : /\ w = Width /\ Cardinality(Due)' <= w
                       /\ Width * Cardinality(Late)' + w <= Width * Cardinality(Late)
  BY <1>1, <1>2, <1>4
<1>6. /\ Width * Cardinality(Late) \in Nat /\ Width * Cardinality(Late)' \in Nat
      /\ Width * Reasons \in Nat /\ Width * Reasons' \in Nat
      /\ Width * Reasons <= Width * Reasons'
      /\ Cardinality(Due) \in Nat /\ Cardinality(Due)' \in Nat /\ lastUser \in Nat
      /\ lastUser' = lastUser
  BY <1>2, <1>4
<1>7. lastUser' <= Width * Reasons'
  <2> HIDE DEF Width
  <2>1. lastUser <= Width * Reasons
    BY DEF CountInv
  <2> QED BY ONLY <1>5, <1>6, <2>1
<1>8. ASSUME lastUser < MaxUsers
      PROVE  lastUser' + Cardinality(Due)' + Width * Cardinality(Late)' <= Width * Reasons'
  <2> HIDE DEF Width
  <2>1. lastUser + Cardinality(Due) + Width * Cardinality(Late) <= Width * Reasons
    BY <1>8 DEF CountInv
  <2> QED BY ONLY <1>5, <1>6, <2>1
<1> QED BY <1>7, <1>8 DEF CountInv

LEMMA CountIssued ==
    ASSUME TypeOK, TypeOK', CountInv, lastUser < MaxUsers, lastUser' = lastUser + 1,
           Reasons <= Reasons', NEW t \in Due, Due' \subseteq Due \ {t}, Late' \subseteq Late
    PROVE  CountInv'
<1>1. Counted /\ Counted' /\ Width \in Nat
  BY Counts, CountsNext, WidthType
<1>2. /\ Cardinality(Due) \in Nat /\ Cardinality(Late) \in Nat /\ Cardinality(Due)' \in Nat
      /\ Cardinality(Late)' \in Nat /\ Reasons \in Nat /\ Reasons' \in Nat /\ lastUser \in Nat
  BY <1>1 DEF Counted
<1>3. Cardinality(Due)' + 1 <= Cardinality(Due) /\ Cardinality(Late)' <= Cardinality(Late)
  BY <1>1, OneMore, Smaller DEF Counted
<1>4. /\ Width * Cardinality(Late) \in Nat /\ Width * Cardinality(Late)' \in Nat
      /\ Width * Reasons \in Nat /\ Width * Reasons' \in Nat
      /\ Width * Reasons <= Width * Reasons'
      /\ Width * Cardinality(Late)' <= Width * Cardinality(Late)
  BY <1>1, <1>2, <1>3, Room
<1>5. lastUser + Cardinality(Due) + Width * Cardinality(Late) <= Width * Reasons
  BY DEF CountInv
<1>6. lastUser' + Cardinality(Due)' + Width * Cardinality(Late)' <= Width * Reasons'
  <2> HIDE DEF Width
  <2> QED BY <1>2, <1>3, <1>4, <1>5
<1>7. lastUser' <= Width * Reasons'
  <2> HIDE DEF Width
  <2> QED BY <1>2, <1>4, <1>6
<1> QED BY <1>6, <1>7 DEF CountInv, Width

\* The reasons are those of before, and perhaps one more.
LEMMA ReasonsKept ==
    ASSUME TypeOK, TypeOK', Repeated \subseteq Repeated', Cleared \subseteq Cleared',
           ends <= ends', lost <= lost'
    PROVE  /\ Reasons <= Reasons'
           /\ \/ \E o \in Ops : o \in Repeated' \ Repeated \/ o \in Cleared' \ Cleared
              \/ ends + 1 <= ends' \/ lost + 1 <= lost'
              => Reasons + 1 <= Reasons'
<1>1. Counted /\ Counted'
  BY Counts, CountsNext
<1>2. /\ Cardinality(Repeated) <= Cardinality(Repeated)'
      /\ Cardinality(Cleared) <= Cardinality(Cleared)'
  BY <1>1, Smaller DEF Counted
<1>3. /\ \A o \in Repeated' \ Repeated : Cardinality(Repeated) + 1 <= Cardinality(Repeated)'
      /\ \A o \in Cleared' \ Cleared : Cardinality(Cleared) + 1 <= Cardinality(Cleared)'
  BY <1>1, OneMore DEF Counted
<1>4. /\ Cardinality(Repeated) \in Nat /\ Cardinality(Cleared) \in Nat
      /\ Cardinality(Repeated)' \in Nat /\ Cardinality(Cleared)' \in Nat
      /\ ends \in Nat /\ lost \in Nat /\ ends' \in Nat /\ lost' \in Nat
  BY <1>1 DEF Counted
<1> QED BY <1>2, <1>3, <1>4 DEF Reasons

LEMMA OpensCounts ==
    ASSUME SessionInv, SessionInv', CountInv, NEW o \in Ops, NEW t \in Tabs, NEW r, Opens(o, t, r)
    PROVE  CountInv'
<1>1. /\ op \in [Ops -> Operation] /\ op' = [op EXCEPT ![o] = r] /\ r \in Operation
      /\ op[o].pc = "idle" /\ op[o] = NoOp /\ r.attempt = 1
      /\ stored' = Read /\ expired' = expired /\ ends' = ends /\ lost' = lost
      /\ lastUser' = lastUser
  BY Types DEF Opens, SessionInv, OpsInv
<1>2. op'[o] = r /\ \A p \in Ops : p # o => op'[p] = op[p]
  BY <1>1, OpChanges
<1>3. Repeated \subseteq Repeated' /\ Cleared \subseteq Cleared'
  BY <1>1, <1>2, IdleOperation DEF Repeated, Cleared
<1>4. Read' = Read
  BY <1>1 DEF Read, SessionInv, UsersInv
<1>5. \A s \in Tabs : creation'[s] = creation[s]
                      \/ (creation[s].pc = "none" /\ creation'[s].pc = "sent" /\ Read = 0)
  BY Creates DEF Opens
<1>6. Due' \subseteq Due /\ Late' \subseteq Late
  BY <1>1, <1>4, <1>5 DEF Due, Late
<1>7. TypeOK /\ TypeOK' /\ ends <= ends' /\ lost <= lost'
  BY <1>1, Types DEF SessionInv
<1> QED BY <1>1, <1>3, <1>6, <1>7, ReasonsKept, CountKept

LEMMA RepliesCounts ==
    ASSUME SessionInv, SessionInv', CountInv, NEW o \in Ops, NEW r, Replies(o, r)
    PROVE  CountInv'
<1>1. /\ op \in [Ops -> Operation] /\ op' = [op EXCEPT ![o] = r] /\ r \in Operation
      /\ op[o].pc # "done" /\ r.attempt = op[o].attempt
      /\ stored' = stored /\ expired' = expired /\ ends' = ends /\ lost <= lost'
      /\ lastUser' = lastUser /\ creation' = creation
  BY Types DEF Replies, SessionInv
<1>2. op'[o] = r /\ \A p \in Ops : p # o => op'[p] = op[p]
  BY <1>1, OpChanges
<1>3. Repeated \subseteq Repeated' /\ Cleared \subseteq Cleared'
  BY <1>1, <1>2 DEF Repeated, Cleared
<1>4. Due' \subseteq Due /\ Late' \subseteq Late
  BY <1>1 DEF Due, Late, Read
<1>5. TypeOK /\ TypeOK' /\ ends <= ends'
  BY <1>1, Types DEF SessionInv
<1> QED BY <1>1, <1>3, <1>4, <1>5, ReasonsKept, CountKept

LEMMA RepeatsCounts ==
    ASSUME SessionInv, SessionInv', CountInv, NEW o \in Ops, NEW r, Repeats(o, r)
    PROVE  CountInv'
<1>1. /\ op \in [Ops -> Operation] /\ op' = [op EXCEPT ![o] = r] /\ r \in Operation
      /\ op[o].pc = "answered" /\ op[o].attempt = 1 /\ r.attempt = 2 /\ r.tab \in Tabs
      /\ expired' = expired /\ ends' = ends /\ lost' = lost /\ lastUser' = lastUser
  BY Types DEF Repeats, SessionInv, Operation
<1>2. op'[o] = r /\ \A p \in Ops : p # o => op'[p] = op[p]
  BY <1>1, OpChanges
<1>3. Repeated \subseteq Repeated' /\ Cleared \subseteq Cleared' /\ o \in Repeated' \ Repeated
  BY <1>1, <1>2 DEF Repeated, Cleared
<1>4. \A s \in Tabs : creation'[s] = creation[s] \/ creation'[s].pc = "sent"
  BY <1>1, Creates DEF Repeats
<1>5. Late' \subseteq Late
  BY <1>1, <1>4 DEF Late
<1>6. TypeOK /\ TypeOK' /\ ends <= ends' /\ lost <= lost'
  BY <1>1, Types DEF SessionInv
<1> QED BY <1>1, <1>3, <1>5, <1>6, ReasonsKept, CountReason

LEMMA EndsCounts ==
    ASSUME SessionInv, SessionInv', CountInv, NEW o \in Ops, Ends(o)
    PROVE  CountInv'
<1>1. /\ op \in [Ops -> Operation] /\ op[o] \in Operation
      /\ op' = [op EXCEPT ![o] = At(op[o], "done")] /\ op[o].pc = "answered"
      /\ expired' = expired /\ ends' = ends /\ lost' = lost /\ lastUser' = lastUser
      /\ creation' = creation
  BY Types DEF Ends, SessionInv
<1>2. /\ op'[o].pc = "done" /\ op'[o].attempt = op[o].attempt /\ op'[o].kind = op[o].kind
      /\ op'[o].status = op[o].status
      /\ \A p \in Ops : p # o => op'[p] = op[p]
  BY <1>1, AtIs, OpChanges
<1>3. /\ Repeated \subseteq Repeated' /\ Cleared \subseteq Cleared'
      /\ Forgets(op[o]) => o \in Cleared' \ Cleared
  BY <1>1, <1>2 DEF Repeated, Cleared, Forgets
<1>4. Late' \subseteq Late
  BY <1>1 DEF Late
<1>5. TypeOK /\ TypeOK' /\ ends <= ends' /\ lost <= lost'
  BY <1>1, Types DEF SessionInv
<1>6. CASE Forgets(op[o])
  BY <1>1, <1>3, <1>4, <1>5, <1>6, ReasonsKept, CountReason
<1>7. CASE ~ Forgets(op[o])
  <2>1. Due' \subseteq Due
    BY <1>1, <1>7 DEF Ends, Due, Read
  <2> QED BY <1>1, <1>3, <1>4, <1>5, <2>1, ReasonsKept, CountKept
<1> QED BY <1>6, <1>7

LEMMA CreatedCounts ==
    ASSUME SessionInv, SessionInv', CountInv, NEW t \in Tabs, SessionCreated(t)
    PROVE  CountInv'
<1> DEFINE u == creation[t].user
<1>1. /\ op \in [Ops -> Operation] /\ creation \in [Tabs -> Creation] /\ creation[t] \in Creation
      /\ creation[t].pc = "issued" /\ creation' = [creation EXCEPT ![t] = NoCreation]
      /\ expired' = expired /\ ends' = ends /\ lost' = lost /\ lastUser' = lastUser
      /\ stored' = u
  BY Types DEF SessionCreated, SessionInv, server
<1>2. u \in 0 .. MaxUsers /\ u # 0
  BY <1>1 DEF Creation, SessionInv, CreationsInv
<1>3. NoCreation.pc = "none" /\ creation'[t] = NoCreation /\ \A s \in Tabs : s # t => creation'[s] = creation[s]
  BY <1>1 DEF NoCreation
<1>4. \A p \in Ops : /\ op'[p].attempt = op[p].attempt
                     /\ op[p].pc = "done" => op'[p] = op[p]
  BY <1>1, <1>2, ResumeSent, SentIs DEF Awaits
<1> HIDE DEF u
<1>5. Repeated \subseteq Repeated' /\ Cleared \subseteq Cleared'
  BY <1>4 DEF Repeated, Cleared
<1>6. TypeOK /\ TypeOK' /\ ends <= ends' /\ lost <= lost'
  BY <1>1, Types DEF SessionInv
<1>7. Late' \subseteq Late \ {t}
  BY <1>1, <1>3 DEF Late
<1>8. CASE u \in expired
  <2>1. t \in Late
    BY <1>1, <1>8 DEF Late, u
  <2> QED BY <1>1, <1>5, <1>6, <1>7, <2>1, ReasonsKept, CountLate
<1>9. CASE u \notin expired
  <2>1. Read' # 0
    BY <1>1, <1>2, <1>9 DEF Read
  <2>2. Due' \subseteq Due
    BY <1>3, <2>1 DEF Due
  <2> QED BY <1>1, <1>5, <1>6, <1>7, <2>2, ReasonsKept, CountKept
<1> QED BY <1>8, <1>9

LEMMA FailedCounts ==
    ASSUME SessionInv, SessionInv', CountInv, NEW t \in Tabs, CreationFailed(t)
    PROVE  CountInv'
<1>1. /\ op \in [Ops -> Operation] /\ creation \in [Tabs -> Creation]
      /\ creation[t].pc = "failed" /\ creation' = [creation EXCEPT ![t] = NoCreation]
      /\ expired' = expired /\ ends' = ends /\ lost' = lost /\ lastUser' = lastUser
      /\ stored' = stored
  BY Types DEF CreationFailed, SessionInv, server
<1>2. NoCreation.pc = "none" /\ creation'[t] = NoCreation /\ \A s \in Tabs : s # t => creation'[s] = creation[s]
  BY <1>1 DEF NoCreation
<1>3. \A p \in Ops : /\ op'[p].attempt = op[p].attempt
                     /\ op[p].pc = "done" => op'[p] = op[p]
  BY <1>1, ResumeDone, AtIs DEF Awaits
<1>4. Repeated \subseteq Repeated' /\ Cleared \subseteq Cleared'
  BY <1>3 DEF Repeated, Cleared
<1>5. TypeOK /\ TypeOK' /\ ends <= ends' /\ lost <= lost'
  BY <1>1, Types DEF SessionInv
<1>6. Due' \subseteq Due /\ Late' \subseteq Late
  BY <1>1, <1>2 DEF Due, Late, Read
<1> QED BY <1>1, <1>4, <1>5, <1>6, ReasonsKept, CountKept

LEMMA IssueCounts ==
    ASSUME SessionInv, SessionInv', CountInv, NEW t \in Tabs, Issue(t)
    PROVE  CountInv'
<1>1. /\ creation \in [Tabs -> Creation] /\ lastUser \in Nat
      /\ creation[t].pc = "sent" /\ lastUser < MaxUsers /\ lastUser' = lastUser + 1
      /\ creation' = [creation EXCEPT ![t] = [pc |-> "issued", user |-> lastUser + 1]]
      /\ expired' = expired /\ ends' = ends /\ lost' = lost
      /\ stored' = stored /\ op' = op
  BY Types DEF Issue, SessionInv
<1>2. /\ creation'[t].pc = "issued" /\ creation'[t].user = lastUser + 1
      /\ \A s \in Tabs : s # t => creation'[s] = creation[s]
  BY <1>1
<1>3. lastUser + 1 \notin expired
  BY <1>1 DEF SessionInv, UsersInv
<1>4. Repeated \subseteq Repeated' /\ Cleared \subseteq Cleared'
  BY <1>1 DEF Repeated, Cleared
<1>5. TypeOK /\ TypeOK' /\ ends <= ends' /\ lost <= lost'
  BY <1>1, Types DEF SessionInv
<1>6. t \in Due /\ Due' \subseteq Due \ {t} /\ Late' \subseteq Late
  BY <1>1, <1>2, <1>3 DEF Due, Late, Read
<1> QED BY <1>1, <1>4, <1>5, <1>6, ReasonsKept, CountIssued

LEMMA LostCounts ==
    ASSUME SessionInv, SessionInv', CountInv, NEW t \in Tabs, LoseCreation(t)
    PROVE  CountInv'
<1>1. /\ creation \in [Tabs -> Creation] /\ lost \in Nat /\ MaxLost \in Nat
      /\ creation' = [creation EXCEPT ![t] = [pc |-> "failed", user |-> 0]]
      /\ expired' = expired /\ ends' = ends /\ lastUser' = lastUser
      /\ stored' = stored /\ op' = op
      /\ lost < MaxLost \/ lastUser = MaxUsers
      /\ lost' = IF lost < MaxLost THEN lost + 1 ELSE lost
  BY Types DEF LoseCreation, SessionInv, server
<1>2. \A s \in Tabs : creation'[s].pc = "issued" => creation'[s] = creation[s]
  BY <1>1
<1>3. Repeated \subseteq Repeated' /\ Cleared \subseteq Cleared'
  BY <1>1 DEF Repeated, Cleared
<1>4. TypeOK /\ TypeOK' /\ ends <= ends' /\ lost <= lost'
  BY <1>1, Types DEF SessionInv
<1>5. Late' \subseteq Late
  BY <1>1, <1>2 DEF Late
<1>6. CASE lost < MaxLost
  BY <1>1, <1>3, <1>4, <1>5, <1>6, ReasonsKept, CountReason
<1>7. CASE ~ (lost < MaxLost)
  <2>1. Reasons <= Reasons' /\ Reasons \in Nat /\ Reasons' \in Nat /\ Width \in Nat
    BY <1>3, <1>4, ReasonsKept, Counts, CountsNext, WidthType DEF Counted
  <2>2. /\ Width * Reasons <= Width * Reasons' /\ Width * Reasons \in Nat /\ Width * Reasons' \in Nat
    BY <2>1, Room
  <2>3. lastUser' <= Width * Reasons'
    <3>1. lastUser <= Width * Reasons /\ lastUser' = lastUser /\ lastUser \in Nat
      BY <1>1, Types DEF CountInv, SessionInv
    <3> HIDE DEF Width
    <3> QED BY ONLY <2>2, <3>1
  <2>4. ~ (lastUser' < MaxUsers)
    BY <1>1, <1>7, ConstantsAssumption
  <2> QED BY <2>3, <2>4 DEF CountInv
<1> QED BY <1>6, <1>7

LEMMA EndedCounts ==
    ASSUME SessionInv, SessionInv', CountInv, NEW u \in accounts, EndSession(u)
    PROVE  CountInv'
<1>1. /\ creation \in [Tabs -> Creation] /\ ends \in Nat
      /\ creation' = creation /\ lastUser' = lastUser /\ lost' = lost
      /\ ends' = ends + 1 /\ stored' = stored /\ op' = op
      /\ expired' = expired \/ expired' = expired \cup {u}
  BY Types DEF EndSession, SessionInv, browser
<1>2. Repeated \subseteq Repeated' /\ Cleared \subseteq Cleared'
  BY <1>1 DEF Repeated, Cleared
<1>3. TypeOK /\ TypeOK' /\ ends <= ends' /\ lost <= lost' /\ ends + 1 <= ends'
  BY <1>1, Types DEF SessionInv
<1>4. CASE \E t \in Tabs : creation[t].pc = "issued" /\ creation[t].user = u
  <2>1. PICK t \in Tabs : creation[t].pc = "issued" /\ creation[t].user = u
    BY <1>4
  <2>2. u # stored /\ \A s \in Tabs : creation[s].pc = "issued" /\ creation[s].user = u => s = t
    BY <2>1 DEF SessionInv, CreationsInv
  <2>3. Read' = Read
    BY <1>1, <2>2 DEF Read
  <2>4. Due' \subseteq Due /\ Late' \subseteq Late \cup {t}
    BY <1>1, <2>2, <2>3 DEF Due, Late
  <2> QED BY <1>1, <1>2, <1>3, <2>4, ReasonsKept, CountReason
<1>5. CASE ~ \E t \in Tabs : creation[t].pc = "issued" /\ creation[t].user = u
  <2>1. Late' \subseteq Late
    BY <1>1, <1>5 DEF Late
  <2> QED BY <1>1, <1>2, <1>3, <2>1, ReasonsKept, CountReason
<1> QED BY <1>4, <1>5

LEMMA CountStarts ==
    ASSUME Init
    PROVE  CountInv
<1>1. SessionInv /\ lastUser = 0 /\ ends = 0 /\ lost = 0 /\ expired = {}
  BY SessionStarts DEF Init
<1>2. Counted /\ Width \in Nat
  BY <1>1, Counts, WidthType DEF SessionInv
<1>3. Late = {} /\ Cardinality(Late) = 0
  BY <1>1, FS_EmptySet DEF Late
<1>4. /\ Reasons \in Nat /\ 1 <= Reasons /\ Cardinality(Due) \in Nat /\ Cardinality(Due) <= Width
  BY <1>1, <1>2 DEF Counted, Reasons
<1>5. Width * Reasons \in Nat /\ Width <= Width * Reasons
  BY <1>2, <1>4, Room
<1>6. Width * Cardinality(Late) = 0
  BY <1>2, <1>3
<1>7. lastUser <= Width * Reasons
  BY <1>1, <1>5
<1>8. lastUser + Cardinality(Due) + Width * Cardinality(Late) <= Width * Reasons
  BY <1>1, <1>2, <1>4, <1>5, <1>6
<1> QED BY <1>7, <1>8 DEF CountInv

LEMMA StutterCounts ==
    ASSUME CountInv, UNCHANGED vars
    PROVE  CountInv'
<1>1. /\ lastUser' = lastUser /\ expired' = expired /\ stored' = stored /\ creation' = creation
      /\ op' = op /\ ends' = ends /\ lost' = lost
  BY DEF vars, server, browser
<1>2. Due' = Due /\ Late' = Late /\ Repeated' = Repeated /\ Cleared' = Cleared
  BY <1>1 DEF Due, Late, Repeated, Cleared, Read
<1>3. Reasons' = Reasons
  BY <1>1, <1>2 DEF Reasons
<1> QED BY <1>1, <1>2, <1>3 DEF CountInv

LEMMA CountStep ==
    ASSUME SessionInv, CountInv, [Next]_vars
    PROVE  CountInv'
<1>1. SessionInv'
  BY SessionStep
<1>2. ASSUME NEW o \in Ops, NEW t \in Tabs, Act(o, t) PROVE CountInv'
  BY <1>1, <1>2, ActOpens, OpensCounts
<1>3. ASSUME NEW o \in Ops, Lose(o) PROVE CountInv'
  BY <1>1, <1>3, LoseReplies, RepliesCounts
<1>4. ASSUME NEW u \in accounts, EndSession(u) PROVE CountInv'
  BY <1>1, <1>4, EndedCounts
<1>5. ASSUME NEW o \in Ops, Serve(o) PROVE CountInv'
  BY <1>1, <1>5, RefuseReplies, PerformReplies, RepliesCounts DEF Serve
<1>6. ASSUME NEW o \in Ops, Recover(o) PROVE CountInv'
  BY <1>1, <1>6, RecoverRepeats, RepeatsCounts
<1>7. ASSUME NEW o \in Ops, Conclude(o) PROVE CountInv'
  BY <1>1, <1>7, ConcludeEnds, EndsCounts
<1>8. ASSUME NEW t \in Tabs, SessionCreated(t) PROVE CountInv'
  BY <1>1, <1>8, CreatedCounts
<1>9. ASSUME NEW t \in Tabs, CreationFailed(t) PROVE CountInv'
  BY <1>1, <1>9, FailedCounts
<1>10. ASSUME NEW t \in Tabs, Issue(t) PROVE CountInv'
  BY <1>1, <1>10, IssueCounts
<1>11. ASSUME NEW t \in Tabs, LoseCreation(t) PROVE CountInv'
  BY <1>1, <1>11, LostCounts
<1>12. CASE UNCHANGED vars
  BY <1>12, StutterCounts
<1> QED BY <1>2, <1>3, <1>4, <1>5, <1>6, <1>7, <1>8, <1>9, <1>10, <1>11, <1>12
        DEF Next, Progress, AllDone

\* The tabs of a browser create no more sessions than one each, and one each again for
\* every operation that was repeated or has ended by forgetting the session, every
\* session that has ended and every loss (token() in anonymousSession.ts shares the
\* creation in flight).
THEOREM CreationIsShared == Spec => []SharedCreation
<1>1. Init => SessionInv /\ CountInv
  BY SessionStarts, CountStarts
<1>2. SessionInv /\ CountInv /\ [Next]_vars => (SessionInv /\ CountInv)'
  BY SessionStep, CountStep
<1>3. CountInv => SharedCreation
  BY DEF CountInv, SharedCreation, Reasons, Width, Repeated, Cleared
<1> QED BY <1>1, <1>2, <1>3, PTL DEF Spec

-----------------------------------------------------------------------------
(* The view of a page implements the session. *)

LEMMA ViewStepIsStep ==
    ASSUME [ViewNext]_viewVars
    PROVE  [Next]_vars
<1>1. ASSUME NEW o \in Ops, SaveSelectedRoute(o) \/ Reload(o) \/ RemoveOrErase(o) PROVE Next
  <2>1. Page \in Tabs
    BY ViewAssumption
  <2>2. Act(o, Page)
    BY <1>1 DEF SaveSelectedRoute, Reload, RemoveOrErase, Act
  <2> QED BY <2>1, <2>2 DEF Next
<1>2. CASE Accept \/ Submit \/ SearchAnswers \/ Select \/ Unconfigured \/ MapLoads \/ MapFails \/ ClickOverlay
  BY <1>2, Zenon DEF Accept, Submit, SearchAnswers, Select, Unconfigured, MapLoads, MapFails, ClickOverlay
<1>3. CASE ViewProgress \/ AllDone \/ (\E o \in Ops : Lose(o)) \/ (\E u \in accounts : EndSession(u))
  BY <1>3 DEF ViewProgress, Next
<1>4. CASE UNCHANGED viewVars
  BY <1>4 DEF viewVars
<1> QED BY <1>1, <1>2, <1>3, <1>4 DEF ViewNext

\* Whatever the page shows, its session makes only the steps of the session.
THEOREM ViewImplementsSession == ViewSpec => Init /\ [][Next]_vars
<1>1. ViewInit => Init
  BY DEF ViewInit
<1>2. [ViewNext]_viewVars => [Next]_vars
  BY ViewStepIsStep
<1> QED BY <1>1, <1>2, PTL DEF ViewSpec

-----------------------------------------------------------------------------
(* What the view shows of the session. *)

LEMMA Holding ==
    ASSUME ViewInv, NEW o \in Ops
    PROVE  /\ holds[o] \in Routes \cup {NoRoute} /\ holds[o][1] \in Nat
           /\ Saves(o) => holds[o] \in Routes
<1>1. holds[o] \in Routes \cup {NoRoute}
  BY DEF ViewInv, ViewTypeOK
<1>2. holds[o][1] \in Nat
  BY <1>1, ViewAssumption DEF Routes, NoRoute
<1>3. Saves(o) => holds[o] \in Routes
  BY DEF ViewInv, ViewTypeOK, SavingInv
<1> QED BY <1>1, <1>2, <1>3

\* A row is of an account and of a save that was answered, and has a number.
LEMMA RowIs ==
    ASSUME SessionInv, NEW x \in saved
    PROVE  /\ x.op \in Ops /\ Settled(op[x.op]) /\ x.user = op[x.op].token /\ x.user # 0
           /\ x.user \in accounts
           /\ op[x.op].kind = "save" /\ op[x.op].pc \in {"answered", "done"}
           /\ InFlight(x.op) => Saves(x.op)
<1>1. x \in Row /\ Settled(op[x.op]) /\ x.user = op[x.op].token /\ x.user \in accounts
  BY DEF SessionInv, TypeOK, RowsInv
<1>2. x.op \in Ops /\ x.user # 0
  BY <1>1, Types DEF Row, Users
<1> QED BY <1>1, <1>2 DEF Settled, Saves

\* What the ends of this step are.
EndedNow(kind, statuses) ==
    {o \in Ops : op[o].pc # "done" /\ op'[o].pc = "done"
                   /\ op'[o].kind = kind /\ op'[o].status \in statuses}

LEMMA FollowIs ==
    ASSUME Follow
    PROVE  /\ saving' = saving \ {holds[o] : o \in EndedNow("save", {0, 200, 401, 404})}
           /\ marked' = IF EndedNow("erase", {200, 401}) # {} THEN {}
                        ELSE {m \in marked : /\ \A o \in EndedNow("save", {200}) : m[1] # holds[o]
                                             /\ \A o \in EndedNow("remove", {200}) :
                                                  m[2] \notin op[o].target}
                             \cup {<<holds[o], o>> : o \in EndedNow("save", {200})}
           /\ accepted' = (accepted /\ ~ (EndedNow("erase", {200, 401}) # {}))
           /\ submitted' = submitted /\ active' = active /\ screen' = screen /\ selected' = selected
           /\ map' = map /\ drawn' = drawn /\ holds' = holds
BY Zenon DEF Follow, EndedNow, search, basemap

\* No operation ends, or none with an answer that counts.
LEMMA FollowQuietly ==
    ASSUME ViewInv, Follow, \A o \in Ops : op'[o].pc = "done" => op[o].pc = "done" \/ op'[o].status = 0
    PROVE  /\ marked' = marked /\ accepted' = accepted
           /\ saving' = saving \ {holds[o] : o \in EndedNow("save", {0, 200, 401, 404})}
           /\ submitted' = submitted /\ active' = active /\ screen' = screen /\ selected' = selected
           /\ map' = map /\ drawn' = drawn /\ holds' = holds
<1>1. EndedNow("erase", {200, 401}) = {} /\ EndedNow("save", {200}) = {} /\ EndedNow("remove", {200}) = {}
  BY DEF EndedNow
<1>2. accepted' = accepted
  <2>1. accepted' = (accepted /\ ~ (EndedNow("erase", {200, 401}) # {}))
    BY FollowIs, Zenon
  <2>2. accepted \in BOOLEAN
    BY DEF ViewInv, ViewTypeOK
  <2> QED BY <1>1, <2>1, <2>2
<1>3. marked' = marked
  <2>1. marked' = {m \in marked : /\ \A o \in EndedNow("save", {200}) : m[1] # holds[o]
                                  /\ \A o \in EndedNow("remove", {200}) : m[2] \notin op[o].target}
                    \cup {<<holds[o], o>> : o \in EndedNow("save", {200})}
    BY <1>1, FollowIs, Zenon
  <2> QED BY <1>1, <2>1
<1> QED BY <1>2, <1>3, FollowIs, Zenon

\* Rows are not added, no save begins, and a record of the stored session stays marked.
LEMMA RecordsKept ==
    ASSUME ViewInv, holds' = holds, screen' = screen, lost' = 0 => lost = 0, saved' \subseteq saved,
           \A o \in Ops : Saves(o)' =>
              Saves(o) /\ (op'[o].token = op[o].token \/ \A x \in saved : x.user # op'[o].token),
           stored' = stored \/ \A x \in saved : x.user # stored',
           \A x \in saved' :
              /\ op'[x.op].status = op[x.op].status
              /\ lost = 0 /\ stored' = stored /\ x.user = stored
                   /\ (<<holds[x.op], x.op>> \in marked \/ InFlight(x.op))
                   => <<holds[x.op], x.op>> \in marked' \/ InFlight(x.op)'
    PROVE  RecordsInv'
<1> SUFFICES ASSUME lost' = 0 PROVE RecordsInv'
  BY DEF RecordsInv
<1>1. /\ lost = 0
      /\ \A x \in saved : op[x.op].status = 200
      /\ \A x \in saved : x.user = stored /\ holds[x.op] \in screen.found =>
            <<holds[x.op], x.op>> \in marked \/ InFlight(x.op)
      /\ \A o \in Ops : \A x \in saved :
            Saves(o) /\ x.op # o /\ holds[x.op] = holds[o] => x.user # op[o].token /\ x.user # stored
      /\ \A x, y \in saved : x.user = y.user /\ holds[x.op] = holds[y.op] => x = y
  BY DEF ViewInv, RecordsInv, OneRecordPerRoute
<1>2. ASSUME NEW x \in saved' PROVE op'[x.op].status = 200
  <2>1. x \in saved /\ op'[x.op].status = op[x.op].status
    OBVIOUS
  <2> QED BY <1>1, <2>1
<1>3. \A x \in saved' : x.user = stored' /\ holds'[x.op] \in screen'.found =>
         <<holds'[x.op], x.op>> \in marked' \/ InFlight(x.op)'
  <2> SUFFICES ASSUME NEW x \in saved', x.user = stored', holds[x.op] \in screen.found
               PROVE  <<holds[x.op], x.op>> \in marked' \/ InFlight(x.op)'
    OBVIOUS
  <2>1. x \in saved /\ stored' = stored /\ x.user = stored
    OBVIOUS
  <2>2. <<holds[x.op], x.op>> \in marked \/ InFlight(x.op)
    BY <1>1, <2>1
  <2> QED BY <1>1, <2>1, <2>2
<1>4. \A o \in Ops : \A x \in saved' :
         Saves(o)' /\ x.op # o /\ holds'[x.op] = holds'[o] => x.user # op'[o].token /\ x.user # stored'
  <2> SUFFICES ASSUME NEW o \in Ops, NEW x \in saved', Saves(o)', x.op # o, holds[x.op] = holds[o]
               PROVE  x.user # op'[o].token /\ x.user # stored'
    OBVIOUS
  <2>1. x \in saved /\ Saves(o)
    OBVIOUS
  <2>2. x.user # op[o].token /\ x.user # stored
    BY <1>1, <2>1
  <2> QED BY <2>1, <2>2
<1>5. \A x, y \in saved' : x.user = y.user /\ holds'[x.op] = holds'[y.op] => x = y
  BY <1>1
<1> QED BY <1>2, <1>3, <1>4, <1>5 DEF RecordsInv, OneRecordPerRoute

\* A step in which the view follows no more than failures.
LEMMA QuietView ==
    ASSUME ViewInv, SessionInv', Follow, RecordsInv', shown' = shown, overlapped => overlapped',
           \A o \in Ops :
              /\ op'[o].pc = "done" => op[o].pc = "done" \/ (op'[o].status = 0 /\ InFlight(o))
              /\ op'[o].pc # "idle" => op'[o].tab = Page
              /\ Saves(o)' => Saves(o)
              /\ op[o].pc # "idle" => op'[o].kind = op[o].kind
              /\ op'[o].kind = "list" /\ InFlight(o)' => op[o].kind = "list" /\ InFlight(o)
    PROVE  ViewInv'
<1>1. /\ marked' = marked /\ accepted' = accepted
      /\ saving' = saving \ {holds[o] : o \in EndedNow("save", {0, 200, 401, 404})}
      /\ submitted' = submitted /\ active' = active /\ screen' = screen /\ selected' = selected
      /\ map' = map /\ drawn' = drawn /\ holds' = holds
  BY FollowQuietly
<1>2. ViewTypeOK'
  BY <1>1 DEF ViewInv, ViewTypeOK, SessionInv
<1>3. PageInv' /\ SearchInv'
  BY <1>1 DEF ViewInv, PageInv, SearchInv
<1>4. SavingInv'
  <2>1. \A o \in EndedNow("save", {0, 200, 401, 404}) : o \in Ops /\ Saves(o) /\ ~ Saves(o)'
    BY DEF EndedNow, Saves, InFlight
  <2>2. \A o, p \in Ops : Saves(o) /\ Saves(p) /\ holds[o] = holds[p] => o = p
    BY DEF ViewInv, SavingInv
  <2>3. ASSUME NEW p \in Ops, Saves(p)' PROVE holds[p] \in saving'
    <3>1. Saves(p) /\ holds[p] \in saving
      BY <2>3 DEF ViewInv, SavingInv
    <3>2. holds[p] \notin {holds[o] : o \in EndedNow("save", {0, 200, 401, 404})}
      BY <2>1, <2>2, <2>3, <3>1
    <3> QED BY <1>1, <3>1, <3>2
  <2> QED BY <1>1, <2>2, <2>3 DEF SavingInv
<1>5. ListInv' /\ MarkedIsListed'
  BY <1>1 DEF ViewInv, ListInv, MarkedIsListed
<1> QED BY <1>2, <1>3, <1>4, <1>5 DEF ViewInv

LEMMA RepliesView ==
    ASSUME ViewInv, NEW o \in Ops, NEW r, Replies(o, r), Follow,
           (lost' = lost /\ op[o].pc = "sent") \/ lost' = lost + 1
    PROVE  ViewInv'
<1>1. SessionInv /\ SessionInv'
  BY RepliesSession DEF ViewInv
<1>2. /\ op'[o] = r /\ \A p \in Ops : p # o => op'[p] = op[p]
  BY <1>1, Types, OpChanges DEF Replies, SessionInv
<1>3. /\ op[o].pc \in {"sent", "answered"} /\ r.pc = "answered" /\ r.kind = op[o].kind
      /\ r.tab = op[o].tab /\ r.token = op[o].token
      /\ stored' = stored /\ shown' = shown /\ overlapped' = overlapped
  BY DEF Replies
<1>4. \A p \in Ops :
         /\ op'[p].pc = "done" => op[p].pc = "done"
         /\ op'[p].pc # "idle" => op'[p].tab = Page
         /\ Saves(p)' <=> Saves(p)
         /\ op'[p].kind = op[p].kind /\ op'[p].token = op[p].token
         /\ InFlight(p)' <=> InFlight(p)
  BY <1>2, <1>3 DEF ViewInv, PageInv, Saves, InFlight
<1>5. marked' = marked /\ screen' = screen /\ holds' = holds
  BY <1>4, FollowQuietly
<1>6. RecordsInv'
  <2> SUFFICES ASSUME lost' = 0 PROVE RecordsInv'
    BY DEF RecordsInv
  <2>1. lost = 0 /\ op[o].pc = "sent"
    BY <1>1, Types DEF SessionInv
  <2>2. /\ \A x \in saved : op[x.op].status = 200
        /\ \A x \in saved : x.user = stored /\ holds[x.op] \in screen.found =>
              <<holds[x.op], x.op>> \in marked \/ InFlight(x.op)
        /\ \A p \in Ops : \A x \in saved :
              Saves(p) /\ x.op # p /\ holds[x.op] = holds[p] => x.user # op[p].token /\ x.user # stored
        /\ \A x, y \in saved : x.user = y.user /\ holds[x.op] = holds[y.op] => x = y
    BY <2>1 DEF ViewInv, RecordsInv, OneRecordPerRoute
  <2>3. \A x \in saved : x.op \in Ops /\ x.op # o
    BY <1>1, <2>1, RowIs
  <2>4. \A x \in saved' : \/ x \in saved
                          \/ /\ x.op = o /\ x.user = op[o].token /\ Saves(o) /\ r.status = 200
    BY <1>3 DEF Replies, Saves, InFlight
  <2>5. ASSUME NEW x \in saved' PROVE op'[x.op].status = 200
    BY <1>2, <2>2, <2>3, <2>4
  <2>6. ASSUME NEW x \in saved', x.user = stored', holds'[x.op] \in screen'.found
        PROVE  <<holds'[x.op], x.op>> \in marked' \/ InFlight(x.op)'
    <3>1. CASE x \in saved
      BY <1>3, <1>4, <1>5, <2>2, <2>3, <2>6, <3>1
    <3>2. CASE x.op = o /\ Saves(o)
      BY <1>4, <3>2 DEF Saves
    <3> QED BY <2>4, <3>1, <3>2
  <2>7. ASSUME NEW p \in Ops, NEW x \in saved', Saves(p)', x.op # p, holds'[x.op] = holds'[p]
        PROVE  x.user # op'[p].token /\ x.user # stored'
    <3>1. CASE x \in saved
      BY <1>3, <1>4, <1>5, <2>2, <2>7, <3>1
    <3>2. CASE x.op = o /\ Saves(o)
      BY <1>4, <1>5, <2>7, <3>2 DEF ViewInv, SavingInv
    <3> QED BY <2>4, <3>1, <3>2
  <2>8. ASSUME NEW x \in saved', NEW y \in saved', x.user = y.user, holds'[x.op] = holds'[y.op]
        PROVE  x = y
    <3>1. CASE x \in saved /\ y \in saved
      BY <1>5, <2>2, <2>8, <3>1
    <3>2. CASE x \in saved /\ y.op = o /\ y.user = op[o].token /\ Saves(o)
      BY <1>5, <2>2, <2>3, <2>8, <3>2
    <3>3. CASE y \in saved /\ x.op = o /\ x.user = op[o].token /\ Saves(o)
      <4>1. y.op # o /\ holds[y.op] = holds[o] /\ y.user = op[o].token
        BY <1>5, <2>3, <2>8, <3>3
      <4> QED BY <2>2, <3>3, <4>1
    <3>4. CASE x.op = o /\ y.op = o
      <4>1. x \in Row /\ y \in Row
        BY DEF Replies
      <4> QED BY <2>8, <3>4, <4>1 DEF Row
    <3> QED BY <2>4, <3>1, <3>2, <3>3, <3>4
  <2> QED BY <2>5, <2>6, <2>7, <2>8 DEF RecordsInv, OneRecordPerRoute
<1> QED BY <1>1, <1>3, <1>4, <1>6, QuietView

LEMMA RepeatsView ==
    ASSUME ViewInv, NEW o \in Ops, NEW r, Repeats(o, r), Follow
    PROVE  ViewInv'
<1>1. SessionInv /\ SessionInv'
  BY RepeatsSession DEF ViewInv
<1>2. /\ op'[o] = r /\ \A p \in Ops : p # o => op'[p] = op[p]
  BY <1>1, Types, OpChanges DEF Repeats, SessionInv
<1>3. /\ op[o].pc = "answered" /\ op[o].status = 401 /\ r.pc = "creating" /\ r.kind = op[o].kind
      /\ r.tab = op[o].tab /\ r.token = op[o].token
      /\ stored' = 0 /\ shown' = shown /\ overlapped' = overlapped /\ saved' = saved /\ lost' = lost
  BY DEF Repeats
<1>4. \A p \in Ops :
         /\ op'[p].pc = "done" => op[p].pc = "done"
         /\ op'[p].pc # "idle" => op'[p].tab = Page
         /\ Saves(p)' <=> Saves(p)
         /\ op'[p].kind = op[p].kind /\ op'[p].token = op[p].token
         /\ InFlight(p)' <=> InFlight(p)
  BY <1>2, <1>3 DEF ViewInv, PageInv, Saves, InFlight
<1>5. marked' = marked /\ screen' = screen /\ holds' = holds
  BY <1>4, FollowQuietly
<1>6. \A x \in saved : x.user # stored' /\ x.op \in Ops /\ x.op # o
  BY <1>1, <1>3, RowIs DEF Settled
<1>7. \A x \in saved' : op'[x.op].status = op[x.op].status /\ (InFlight(x.op) => InFlight(x.op)')
  BY <1>2, <1>3, <1>4, <1>6
<1>8. RecordsInv'
  BY <1>3, <1>4, <1>5, <1>6, <1>7, RecordsKept
<1> QED BY <1>1, <1>3, <1>4, <1>8, QuietView

LEMMA CreatedView ==
    ASSUME ViewInv, NEW t \in Tabs, SessionCreated(t), Follow
    PROVE  ViewInv'
<1> DEFINE u == creation[t].user
<1>1. SessionInv /\ SessionInv'
  BY CreatedSession DEF ViewInv
<1>2. /\ creation[t].pc = "issued" /\ u \in 0 .. MaxUsers /\ \A p \in Ops : op[p].token # u
  <2>1. creation[t] \in Creation
    BY <1>1, Types DEF SessionInv
  <2>2. creation[t].pc = "issued"
    BY DEF SessionCreated
  <2> QED BY <1>1, <2>1, <2>2 DEF SessionInv, CreationsInv, Creation
<1>3. /\ stored' = u /\ shown' = shown /\ overlapped' = overlapped /\ saved' = saved /\ lost' = lost
  BY DEF SessionCreated, server
<1>4. \A p \in Ops :
         \/ op'[p] = op[p]
         \/ /\ op[p].pc = "creating" /\ op'[p].pc = "sent" /\ op'[p].token = u
            /\ op'[p].kind = op[p].kind /\ op'[p].tab = op[p].tab /\ op'[p].status = op[p].status
  <2>1. \A p \in Ops : op[p] \in Operation
    BY <1>1, Types DEF SessionInv
  <2> QED BY <1>1, <1>2, <2>1, ResumeSent, SentIs DEF Awaits
<1> HIDE DEF u
<1>5. \A p \in Ops :
         /\ op'[p].pc = "done" => op[p].pc = "done"
         /\ op'[p].pc # "idle" => op'[p].tab = Page
         /\ Saves(p)' <=> Saves(p)
         /\ op'[p].kind = op[p].kind /\ op'[p].status = op[p].status
         /\ op'[p].token = op[p].token \/ op'[p].token = u
         /\ InFlight(p)' <=> InFlight(p)
  BY <1>4 DEF ViewInv, PageInv, Saves, InFlight
<1>6. marked' = marked /\ screen' = screen /\ holds' = holds
  BY <1>5, FollowQuietly
<1>7. \A x \in saved : x.op \in Ops /\ x.user # u
  BY <1>1, <1>2, RowIs
<1>8. RecordsInv'
  BY <1>3, <1>5, <1>6, <1>7, RecordsKept
<1> QED BY <1>1, <1>3, <1>5, <1>8, QuietView

LEMMA FailedView ==
    ASSUME ViewInv, NEW t \in Tabs, CreationFailed(t), Follow
    PROVE  ViewInv'
<1>1. SessionInv /\ SessionInv'
  BY FailedSession DEF ViewInv
<1>2. /\ stored' = stored /\ shown' = shown /\ overlapped' = overlapped /\ saved' = saved /\ lost' = lost
  BY DEF CreationFailed, server
<1>3. \A p \in Ops :
         \/ op'[p] = op[p]
         \/ /\ op[p].pc = "creating" /\ op'[p].pc = "done" /\ op[p].status = 0
            /\ op'[p].kind = op[p].kind /\ op'[p].tab = op[p].tab /\ op'[p].status = op[p].status
            /\ op'[p].token = op[p].token
  <2>1. \A p \in Ops : op[p] \in Operation /\ (op[p].pc = "creating" => op[p].status = 0)
    BY <1>1, Types DEF SessionInv, OpsInv
  <2> QED BY <1>1, <2>1, ResumeDone, AtIs DEF Awaits
<1>4. \A p \in Ops :
         /\ op'[p].pc = "done" => op[p].pc = "done" \/ (op'[p].status = 0 /\ InFlight(p))
         /\ op'[p].pc # "idle" => op'[p].tab = Page
         /\ Saves(p)' => Saves(p)
         /\ op'[p].kind = op[p].kind /\ op'[p].status = op[p].status /\ op'[p].token = op[p].token
         /\ InFlight(p)' => InFlight(p)
  BY <1>3 DEF ViewInv, PageInv, Saves, InFlight
<1>5. marked' = marked /\ screen' = screen /\ holds' = holds
  BY <1>4, FollowQuietly
<1>6. \A x \in saved : x.op \in Ops /\ op'[x.op] = op[x.op]
  BY <1>1, <1>3, RowIs
<1>7. \A x \in saved' : InFlight(x.op) => InFlight(x.op)'
  BY <1>2, <1>6 DEF InFlight
<1>8. RecordsInv'
  BY <1>2, <1>4, <1>5, <1>6, <1>7, RecordsKept
<1> QED BY <1>1, <1>2, <1>4, <1>8, QuietView

\* A step that leaves the operations and what is stored and listed alone.
LEMMA AsideView ==
    ASSUME ViewInv, SessionInv', Follow, op' = op, stored' = stored, shown' = shown,
           overlapped' = overlapped, saved' \subseteq saved, lost <= lost'
    PROVE  ViewInv'
<1>1. lost \in Nat /\ lost' \in Nat
  BY Types DEF ViewInv, SessionInv, TypeOK
<1>2. \A p \in Ops :
         /\ op'[p].pc = "done" => op[p].pc = "done"
         /\ op'[p].pc # "idle" => op'[p].tab = Page
         /\ Saves(p)' <=> Saves(p)
         /\ InFlight(p)' <=> InFlight(p)
  BY DEF ViewInv, PageInv, Saves, InFlight
<1>3. marked' = marked /\ screen' = screen /\ holds' = holds
  BY <1>2, FollowQuietly
<1>4. \A x \in saved' : InFlight(x.op) => InFlight(x.op)'
  BY DEF InFlight
<1>5. RecordsInv'
  BY <1>1, <1>2, <1>3, <1>4, RecordsKept
<1> QED BY <1>2, <1>5, QuietView

\* The view follows the one operation that ends.
LEMMA FollowOne ==
    ASSUME ViewInv, Follow, NEW o \in Ops, op[o].pc # "done", op'[o].pc = "done",
           op'[o].kind = op[o].kind, op'[o].status = op[o].status, op[o] \in Operation,
           \A p \in Ops : p # o => op'[p] = op[p]
    PROVE  /\ saving' = IF op[o].kind = "save" THEN saving \ {holds[o]} ELSE saving
           /\ op[o].kind = "save" /\ op[o].status = 200
                => marked' = {m \in marked : m[1] # holds[o]} \cup {<<holds[o], o>>}
           /\ op[o].kind = "remove" /\ op[o].status = 200
                => marked' = {m \in marked : m[2] \notin op[o].target}
           /\ op[o].kind = "erase" /\ op[o].status \in {200, 401} => marked' = {}
           /\ ~ \/ op[o].kind \in {"save", "remove"} /\ op[o].status = 200
                \/ op[o].kind = "erase" /\ op[o].status \in {200, 401}
                => marked' = marked
           /\ accepted' \in BOOLEAN
           /\ submitted' = submitted /\ active' = active /\ screen' = screen /\ selected' = selected
           /\ map' = map /\ drawn' = drawn /\ holds' = holds
<1>1. /\ op[o].status \in {0, 200, 401, 404}
      /\ \A p \in Ops : op[p].pc # "done" /\ op'[p].pc = "done" => p = o
  BY DEF Operation
<1>2. ASSUME NEW kind, NEW statuses
      PROVE  EndedNow(kind, statuses)
               = IF op[o].kind = kind /\ op[o].status \in statuses THEN {o} ELSE {}
  BY <1>1 DEF EndedNow
<1>3. saving' = saving \ {holds[p] : p \in EndedNow("save", {0, 200, 401, 404})}
  BY FollowIs, Zenon
<1>4. saving' = IF op[o].kind = "save" THEN saving \ {holds[o]} ELSE saving
  <2>1. EndedNow("save", {0, 200, 401, 404}) = IF op[o].kind = "save" THEN {o} ELSE {}
    BY <1>1, <1>2
  <2> QED BY <1>3, <2>1
<1>5. accepted' \in BOOLEAN
  <2>1. accepted' = (accepted /\ ~ (EndedNow("erase", {200, 401}) # {}))
    BY FollowIs, Zenon
  <2> QED BY <2>1, Zenon
<1> DEFINE stay == {m \in marked : /\ \A p \in EndedNow("save", {200}) : m[1] # holds[p]
                                   /\ \A p \in EndedNow("remove", {200}) : m[2] \notin op[p].target}
                     \cup {<<holds[p], p>> : p \in EndedNow("save", {200})}
<1>6. marked' = IF EndedNow("erase", {200, 401}) # {} THEN {} ELSE stay
  BY FollowIs, Zenon
<1>7. /\ EndedNow("save", {200}) = IF op[o].kind = "save" /\ op[o].status = 200 THEN {o} ELSE {}
      /\ EndedNow("remove", {200}) = IF op[o].kind = "remove" /\ op[o].status = 200 THEN {o} ELSE {}
      /\ EndedNow("erase", {200, 401})
           = IF op[o].kind = "erase" /\ op[o].status \in {200, 401} THEN {o} ELSE {}
  BY <1>2
<1>8. CASE op[o].kind = "save" /\ op[o].status = 200
  <2>1. stay = {m \in marked : m[1] # holds[o]} \cup {<<holds[o], o>>}
    BY <1>7, <1>8
  <2> QED BY <1>4, <1>5, <1>6, <1>7, <1>8, <2>1, FollowIs
<1>9. CASE op[o].kind = "remove" /\ op[o].status = 200
  <2>1. stay = {m \in marked : m[2] \notin op[o].target}
    BY <1>7, <1>9
  <2> QED BY <1>4, <1>5, <1>6, <1>7, <1>9, <2>1, FollowIs
<1>10. CASE op[o].kind = "erase" /\ op[o].status \in {200, 401}
  <2> HIDE DEF stay
  <2> QED BY <1>4, <1>5, <1>6, <1>7, <1>10, FollowIs
<1>11. CASE ~ \/ op[o].kind \in {"save", "remove"} /\ op[o].status = 200
              \/ op[o].kind = "erase" /\ op[o].status \in {200, 401}
  <2>1. stay = marked
    BY <1>7, <1>11
  <2> HIDE DEF stay
  <2> QED BY <1>4, <1>5, <1>6, <1>7, <1>11, <2>1, FollowIs
<1> QED BY <1>8, <1>9, <1>10, <1>11

LEMMA ConcludeView ==
    ASSUME ViewInv, NEW o \in Ops, Conclude(o), Follow
    PROVE  ViewInv'
<1>1. SessionInv /\ SessionInv' /\ Ends(o)
  BY ConcludeEnds, EndsSession DEF ViewInv
<1>2. op \in [Ops -> Operation] /\ op[o] \in Operation /\ op[o].target \subseteq Ops
  BY <1>1, Types DEF SessionInv, Operation
<1>3. /\ op'[o].pc = "done" /\ op'[o].kind = op[o].kind /\ op'[o].status = op[o].status
      /\ op'[o].tab = op[o].tab /\ op'[o].token = op[o].token
      /\ \A p \in Ops : p # o => op'[p] = op[p]
  BY <1>1, <1>2, AtIs, OpChanges DEF Ends
<1>4. /\ op[o].pc = "answered" /\ saved' = saved /\ lost' = lost /\ overlapped' = overlapped
      /\ stored' = IF Forgets(op[o]) THEN 0 ELSE stored
  BY <1>1 DEF Ends
<1>5. op[o].tab = Page
  BY <1>4 DEF ViewInv, PageInv
<1>6. /\ op[o].kind = "save" /\ op[o].status = 200 => shown'[Page] = shown[Page] \cup {o}
      /\ op[o].kind = "remove" /\ op[o].status = 200 => shown'[Page] = shown[Page] \ op[o].target
      /\ ~ \/ op[o].kind \in {"save", "list", "remove"} /\ op[o].status = 200
           \/ op[o].kind = "erase" /\ op[o].status \in {200, 401}
           => shown'[Page] = shown[Page]
  <2>1. shown \in [Tabs -> SUBSET Ops] /\ Page \in Tabs
    BY <1>1, ViewAssumption DEF SessionInv, TypeOK
  <2>2. shown' = [shown EXCEPT ![Page] =
                    CASE op[o].status = 200 /\ op[o].kind = "save" -> shown[Page] \cup {o}
                      [] op[o].status = 200 /\ op[o].kind = "list" -> op[o].target
                      [] op[o].status = 200 /\ op[o].kind = "remove" -> shown[Page] \ op[o].target
                      [] op[o].kind = "erase" /\ op[o].status \in {200, 401} -> {}
                      [] OTHER -> shown[Page]]
    BY <1>5 DEF Conclude
  <2> QED BY <2>1, <2>2
<1>7. /\ saving' = IF op[o].kind = "save" THEN saving \ {holds[o]} ELSE saving
      /\ op[o].kind = "save" /\ op[o].status = 200
           => marked' = {m \in marked : m[1] # holds[o]} \cup {<<holds[o], o>>}
      /\ op[o].kind = "remove" /\ op[o].status = 200
           => marked' = {m \in marked : m[2] \notin op[o].target}
      /\ op[o].kind = "erase" /\ op[o].status \in {200, 401} => marked' = {}
      /\ ~ \/ op[o].kind \in {"save", "remove"} /\ op[o].status = 200
           \/ op[o].kind = "erase" /\ op[o].status \in {200, 401}
           => marked' = marked
      /\ accepted' \in BOOLEAN
      /\ submitted' = submitted /\ active' = active /\ screen' = screen /\ selected' = selected
      /\ map' = map /\ drawn' = drawn /\ holds' = holds
  BY <1>2, <1>3, <1>4, FollowOne
<1>8. \A p \in Ops :
         /\ op'[p].pc # "idle" => op'[p].tab = Page
         /\ Saves(p)' => Saves(p) /\ p # o
         /\ op'[p].kind = op[p].kind /\ op'[p].token = op[p].token /\ op'[p].status = op[p].status
         /\ InFlight(p)' => InFlight(p) /\ p # o
         /\ InFlight(p) /\ p # o => InFlight(p)'
  BY <1>3, <1>4 DEF ViewInv, PageInv, Saves, InFlight
<1>9. InFlight(o) /\ (op[o].kind = "save" => Saves(o) /\ holds[o] \in Routes)
  BY <1>4, Holding DEF InFlight, Saves
<1>10. ViewTypeOK'
  <2>1. marked' \subseteq Routes \X Ops
    <3>1. marked \subseteq Routes \X Ops
      BY DEF ViewInv, ViewTypeOK
    <3> QED BY <1>7, <1>9, <3>1
  <2>2. saving' \subseteq Routes
    BY <1>7 DEF ViewInv, ViewTypeOK
  <2> QED BY <1>1, <1>7, <2>1, <2>2 DEF ViewInv, ViewTypeOK, SessionInv
<1>11. PageInv' /\ SearchInv'
  BY <1>7, <1>8 DEF ViewInv, PageInv, SearchInv
<1>12. SavingInv'
  <2>1. \A p, q \in Ops : Saves(p) /\ Saves(q) /\ holds[p] = holds[q] => p = q
    BY DEF ViewInv, SavingInv
  <2>2. ASSUME NEW p \in Ops, Saves(p)' PROVE holds[p] \in saving'
    <3>1. Saves(p) /\ holds[p] \in saving /\ p # o
      BY <1>8, <2>2 DEF ViewInv, SavingInv
    <3> QED BY <1>7, <1>9, <2>1, <3>1
  <2> QED BY <1>7, <1>8, <2>1, <2>2 DEF SavingInv
<1>13. \A x \in saved : x.op \in Ops /\ x.user # 0 /\ op[x.op].kind = "save"
  BY <1>1, RowIs
<1>14. ASSUME NEW x \in saved, lost = 0, stored' = stored, x.user = stored,
              <<holds[x.op], x.op>> \in marked \/ InFlight(x.op)
       PROVE  <<holds[x.op], x.op>> \in marked' \/ InFlight(x.op)'
  <2>1. op[x.op].status = 200
    BY <1>14 DEF ViewInv, RecordsInv
  <2>2. CASE op[o].kind = "save" /\ op[o].status = 200
    <3>1. CASE x.op = o
      BY <1>7, <2>2, <3>1
    <3>2. CASE x.op # o
      <4>1. holds[x.op] # holds[o]
        BY <1>9, <1>14, <2>2, <3>2 DEF ViewInv, RecordsInv
      <4> QED BY <1>7, <1>8, <1>13, <1>14, <2>2, <3>2, <4>1
    <3> QED BY <3>1, <3>2
  <2>3. CASE op[o].kind = "remove" /\ op[o].status = 200
    <3>1. x.op \notin op[o].target
      BY <1>1, <2>3 DEF SessionInv, OpsInv
    <3> QED BY <1>7, <1>8, <1>13, <1>14, <2>3, <3>1
  <2>4. CASE op[o].kind = "erase" /\ op[o].status \in {200, 401}
    BY <1>4, <1>13, <1>14, <2>4 DEF Forgets
  <2>5. CASE ~ \/ op[o].kind \in {"save", "remove"} /\ op[o].status = 200
               \/ op[o].kind = "erase" /\ op[o].status \in {200, 401}
    BY <1>7, <1>8, <1>13, <1>14, <2>1, <2>5
  <2> QED BY <2>2, <2>3, <2>4, <2>5
<1>15. RecordsInv'
  <2>1. \A x \in saved' : op'[x.op].status = op[x.op].status
    BY <1>4, <1>8, <1>13
  <2>2. stored' = stored \/ \A x \in saved : x.user # stored'
    BY <1>4, <1>13
  <2> QED BY <1>4, <1>7, <1>8, <1>14, <2>1, <2>2, RecordsKept
<1>16. ListInv'
  <2>1. ~ overlapped => \A p \in Ops : ~ InFlight(p)'
    BY <1>1, <1>8, <1>9 DEF SessionInv, AloneInv
  <2> QED BY <1>4, <2>1 DEF ListInv
<1>17. MarkedIsListed'
  <2> SUFFICES ASSUME ~ overlapped, NEW m \in marked' PROVE m[2] \in shown'[Page]
    BY <1>4 DEF MarkedIsListed
  <2>1. \A n \in marked : n[2] \in shown[Page]
    BY DEF ViewInv, MarkedIsListed
  <2>2. CASE op[o].kind = "save" /\ op[o].status = 200
    BY <1>6, <1>7, <2>1, <2>2
  <2>3. CASE op[o].kind = "remove" /\ op[o].status = 200
    BY <1>6, <1>7, <2>1, <2>3
  <2>4. CASE op[o].kind = "erase" /\ op[o].status \in {200, 401}
    BY <1>7, <2>4
  <2>5. CASE op[o].kind = "list"
    <3>1. marked = {}
      BY <1>9, <2>5 DEF ViewInv, ListInv
    <3> QED BY <1>7, <2>5, <3>1
  <2>6. CASE ~ \/ op[o].kind \in {"save", "list", "remove"} /\ op[o].status = 200
               \/ op[o].kind = "erase" /\ op[o].status \in {200, 401}
    BY <1>6, <1>7, <2>1, <2>6
  <2> QED BY <2>2, <2>3, <2>4, <2>5, <2>6
<1> QED BY <1>1, <1>10, <1>11, <1>12, <1>15, <1>16, <1>17 DEF ViewInv

LEMMA OpensChanges ==
    ASSUME ViewInv, NEW o \in Ops, NEW r, Opens(o, Page, r)
    PROVE  /\ SessionInv' /\ op'[o] = r /\ \A p \in Ops : p # o => op'[p] = op[p]
           /\ \A p \in Ops : /\ p # o => (InFlight(p)' <=> InFlight(p)) /\ (Saves(p)' <=> Saves(p))
                             /\ op'[p].pc # "idle" => op'[p].tab = Page
                             /\ op[p].pc # "idle" => p # o
           /\ ~ InFlight(o) /\ r.tab = Page /\ op[o].pc = "idle"
           /\ saved' = saved /\ lost' = lost /\ stored' = Read
           /\ stored' = stored \/ stored' = 0
           /\ overlapped => overlapped'
           /\ ~ overlapped' => \A p \in Ops : ~ InFlight(p)
           /\ \A x \in saved : x.op \in Ops /\ x.op # o /\ x.user # 0
<1>1. SessionInv /\ SessionInv' /\ Page \in Tabs
  BY OpensSession, ViewAssumption DEF ViewInv
<1>2. op'[o] = r /\ \A p \in Ops : p # o => op'[p] = op[p]
  BY <1>1, Types, OpChanges DEF Opens, SessionInv
<1>3. /\ op[o].pc = "idle" /\ r.tab = Page /\ saved' = saved /\ lost' = lost /\ stored' = Read
      /\ overlapped' = (overlapped \/ \E p \in Ops : InFlight(p))
  BY DEF Opens
<1>4. stored' = stored \/ stored' = 0
  BY <1>1, <1>3, Reading
<1>5. \A x \in saved : x.op \in Ops /\ x.op # o /\ x.user # 0
  BY <1>1, <1>3, RowIs
<1>6. \A p \in Ops : /\ p # o => (InFlight(p)' <=> InFlight(p)) /\ (Saves(p)' <=> Saves(p))
                     /\ op'[p].pc # "idle" => op'[p].tab = Page
                     /\ op[p].pc # "idle" => p # o
  BY <1>2, <1>3 DEF ViewInv, PageInv, InFlight, Saves
<1> QED BY <1>1, <1>2, <1>3, <1>4, <1>5, <1>6 DEF InFlight

LEMMA RemoveView ==
    ASSUME ViewInv, NEW o \in Ops, RemoveSavedRoute(o, Page), Follow
    PROVE  ViewInv'
<1>1. PICK r : Opens(o, Page, r) /\ r.kind = "remove" /\ r.pc # "done"
  BY RemoveOpens, ViewAssumption DEF ViewInv
<1>2. /\ SessionInv' /\ op'[o] = r /\ \A p \in Ops : p # o => op'[p] = op[p]
      /\ \A p \in Ops : /\ p # o => (InFlight(p)' <=> InFlight(p)) /\ (Saves(p)' <=> Saves(p))
                        /\ op'[p].pc # "idle" => op'[p].tab = Page
                        /\ op[p].pc # "idle" => p # o
      /\ saved' = saved /\ lost' = lost
      /\ stored' = stored \/ stored' = 0
      /\ overlapped => overlapped'
      /\ \A x \in saved : x.op \in Ops /\ x.op # o /\ x.user # 0
  BY <1>1, OpensChanges
<1>3. shown' = shown
  BY DEF RemoveSavedRoute
<1>4. \A p \in Ops :
         /\ op'[p].pc = "done" => op[p].pc = "done"
         /\ Saves(p)' => Saves(p) /\ op'[p].token = op[p].token
         /\ op[p].pc # "idle" => op'[p].kind = op[p].kind
         /\ op'[p].kind = "list" /\ InFlight(p)' => op[p].kind = "list" /\ InFlight(p)
  BY <1>1, <1>2 DEF Saves
<1>5. marked' = marked /\ screen' = screen /\ holds' = holds
  BY <1>4, FollowQuietly
<1>6. stored' = stored \/ \A x \in saved : x.user # stored'
  BY <1>1, OpensChanges
<1>7. RecordsInv'
  BY <1>2, <1>4, <1>5, <1>6, RecordsKept
<1> QED BY <1>2, <1>3, <1>4, <1>7, QuietView

LEMMA EraseView ==
    ASSUME ViewInv, NEW o \in Ops, RemoveAllUserData(o, Page), Follow
    PROVE  ViewInv'
<1>1. PICK r : Opens(o, Page, r) /\ r.kind = "erase" /\ (r.pc = "done" => r.status = 200)
  BY EraseOpens, ViewAssumption DEF ViewInv
<1>2. /\ SessionInv' /\ op'[o] = r /\ \A p \in Ops : p # o => op'[p] = op[p]
      /\ \A p \in Ops : /\ p # o => (InFlight(p)' <=> InFlight(p)) /\ (Saves(p)' <=> Saves(p))
                        /\ op'[p].pc # "idle" => op'[p].tab = Page
                        /\ op[p].pc # "idle" => p # o
      /\ saved' = saved /\ lost' = lost /\ stored' = Read /\ op[o].pc = "idle"
      /\ stored' = stored \/ stored' = 0
      /\ overlapped => overlapped'
      /\ ~ overlapped' => \A p \in Ops : ~ InFlight(p)
      /\ \A x \in saved : x.op \in Ops /\ x.op # o /\ x.user # 0
  BY <1>1, OpensChanges
<1>3. stored' = stored \/ \A x \in saved : x.user # stored'
  BY <1>2
<1>4. \A p \in Ops :
         /\ Saves(p)' => Saves(p) /\ op'[p].token = op[p].token
         /\ op[p].pc # "idle" => op'[p].kind = op[p].kind
         /\ op'[p].kind = "list" /\ InFlight(p)' => op[p].kind = "list" /\ InFlight(p)
         /\ p # o => (op'[p].pc = "done" => op[p].pc = "done")
  BY <1>1, <1>2 DEF Saves
<1>5. CASE r.pc # "done"
  <2>1. Read # 0 /\ shown' = shown
    BY <1>1, <1>5 DEF Opens, RemoveAllUserData
  <2>2. \A p \in Ops : op'[p].pc = "done" => op[p].pc = "done"
    BY <1>2, <1>4, <1>5
  <2>3. marked' = marked /\ screen' = screen /\ holds' = holds
    BY <2>2, FollowQuietly
  <2>4. RecordsInv'
    BY <1>2, <1>3, <1>4, <2>3, RecordsKept
  <2> QED BY <1>2, <1>4, <2>1, <2>2, <2>4, QuietView
<1>6. CASE r.pc = "done"
  <2>1. stored' = 0
    BY <1>1, <1>2, <1>6 DEF Opens
  <2>2. EndedNow("erase", {200, 401}) # {} /\ EndedNow("save", {0, 200, 401, 404}) = {}
    <3>1. o \in EndedNow("erase", {200, 401})
      BY <1>1, <1>2, <1>6 DEF EndedNow
    <3>2. \A p \in Ops : op[p].pc # "done" /\ op'[p].pc = "done" => p = o
      BY <1>4
    <3>3. EndedNow("save", {0, 200, 401, 404}) = {}
      BY <1>1, <1>2, <3>2 DEF EndedNow
    <3> QED BY <3>1, <3>3
  <2>3. marked' = {} /\ accepted' \in BOOLEAN
    <3>1. accepted' = (accepted /\ ~ (EndedNow("erase", {200, 401}) # {}))
      BY FollowIs, Zenon
    <3>2. accepted' \in BOOLEAN
      BY <3>1, Zenon
    <3>3. marked' = {}
      BY <2>2, FollowIs, Zenon
    <3> QED BY <3>2, <3>3
  <2>4. saving' = saving
    <3>1. saving' = saving \ {holds[p] : p \in EndedNow("save", {0, 200, 401, 404})}
      BY FollowIs, Zenon
    <3> QED BY <2>2, <3>1
  <2>5. /\ submitted' = submitted /\ active' = active /\ screen' = screen /\ selected' = selected
        /\ map' = map /\ drawn' = drawn /\ holds' = holds
    BY FollowIs, Zenon
  <2>6. ViewTypeOK'
    BY <1>2, <2>3, <2>4, <2>5 DEF ViewInv, ViewTypeOK, SessionInv
  <2>7. PageInv' /\ SearchInv'
    BY <1>2, <2>5 DEF ViewInv, PageInv, SearchInv
  <2>8. SavingInv'
    BY <1>4, <2>4, <2>5 DEF ViewInv, SavingInv
  <2>9. ASSUME NEW x \in saved', stored' = stored, x.user = stored
        PROVE  FALSE
    BY <1>2, <2>1, <2>9
  <2>10. RecordsInv'
    BY <1>2, <1>3, <1>4, <2>5, <2>9, RecordsKept
  <2>11. ListInv' /\ MarkedIsListed'
    BY <2>3 DEF ListInv, MarkedIsListed
  <2> QED BY <1>2, <2>6, <2>7, <2>8, <2>10, <2>11 DEF ViewInv
<1> QED BY <1>5, <1>6

LEMMA SaveView ==
    ASSUME ViewInv, NEW o \in Ops, SaveSelectedRoute(o)
    PROVE  ViewInv'
<1>1. PICK q \in SelectedRoute \ (MarkedRoutes \cup saving) :
         /\ Save(o, Page)
         /\ holds' = [holds EXCEPT ![o] = q] /\ saving' = saving \cup {q}
         /\ UNCHANGED <<search, basemap, marked, accepted>>
  BY DEF SaveSelectedRoute
<1>2. PICK r : Opens(o, Page, r) /\ r.kind = "save" /\ r.pc # "done"
  BY <1>1, SaveOpens, ViewAssumption DEF ViewInv
<1>3. /\ SessionInv' /\ op'[o] = r /\ \A p \in Ops : p # o => op'[p] = op[p]
      /\ \A p \in Ops : /\ p # o => (InFlight(p)' <=> InFlight(p)) /\ (Saves(p)' <=> Saves(p))
                        /\ op'[p].pc # "idle" => op'[p].tab = Page
                        /\ op[p].pc # "idle" => p # o
      /\ saved' = saved /\ lost' = lost /\ stored' = Read
      /\ stored' = stored \/ stored' = 0
      /\ overlapped => overlapped'
      /\ ~ overlapped' => \A p \in Ops : ~ InFlight(p)
      /\ \A x \in saved : x.op \in Ops /\ x.op # o /\ x.user # 0
  BY <1>2, OpensChanges
<1>4. /\ q \in Routes /\ q \in screen.found /\ q \notin saving
      /\ \A p \in Ops : <<q, p>> \notin marked
  <2>1. q \in screen.found /\ q \notin saving /\ q \notin MarkedRoutes
    BY DEF SelectedRoute
  <2>2. screen.found \subseteq Routes
    BY DEF ViewInv, ViewTypeOK
  <2>3. \A p \in Ops : <<q, p>> \notin marked
    BY <2>1 DEF MarkedRoutes
  <2> QED BY <2>1, <2>2, <2>3
<1>5. /\ submitted' = submitted /\ active' = active /\ screen' = screen /\ selected' = selected
      /\ map' = map /\ drawn' = drawn /\ marked' = marked /\ accepted' = accepted
      /\ saving' = saving \cup {q} /\ shown' = shown
  BY <1>1 DEF search, basemap, Save
<1>6. /\ holds' \in [Ops -> Routes \cup {NoRoute}] /\ holds'[o] = q
      /\ \A p \in Ops : p # o => holds'[p] = holds[p]
  BY <1>1, <1>4 DEF ViewInv, ViewTypeOK
<1>7. ViewTypeOK'
  BY <1>3, <1>4, <1>5, <1>6 DEF ViewInv, ViewTypeOK, SessionInv
<1>8. PageInv'
  BY <1>3 DEF PageInv
<1>9. SearchInv'
  <2>1. q[1] = submitted /\ active = 0 /\ submitted <= submitted
    BY <1>4 DEF ViewInv, SearchInv, ViewTypeOK
  <2>2. \A p \in Ops : holds'[p][1] <= submitted
    BY <1>6, <2>1 DEF ViewInv, SearchInv
  <2> QED BY <1>5, <2>1, <2>2 DEF ViewInv, SearchInv
<1>10. SavingInv'
  <2>1. ASSUME NEW p \in Ops, Saves(p)' PROVE holds'[p] \in saving'
    BY <1>3, <1>5, <1>6, <2>1 DEF ViewInv, SavingInv
  <2>2. ASSUME NEW p \in Ops, Saves(p)', p # o PROVE holds'[p] = holds[p] /\ holds[p] # q /\ Saves(p)
    BY <1>3, <1>4, <1>6, <2>2 DEF ViewInv, SavingInv
  <2>3. ASSUME NEW p \in Ops, NEW s \in Ops, Saves(p)', Saves(s)', holds'[p] = holds'[s] PROVE p = s
    BY <1>6, <2>2, <2>3 DEF ViewInv, SavingInv
  <2> QED BY <2>1, <2>3 DEF SavingInv
<1>11. RecordsInv'
  <2> SUFFICES ASSUME lost' = 0 PROVE RecordsInv'
    BY DEF RecordsInv
  <2>1. /\ \A x \in saved : op[x.op].status = 200
        /\ \A x \in saved : x.user = stored /\ holds[x.op] \in screen.found =>
              <<holds[x.op], x.op>> \in marked \/ InFlight(x.op)
        /\ \A p \in Ops : \A x \in saved :
              Saves(p) /\ x.op # p /\ holds[x.op] = holds[p] => x.user # op[p].token /\ x.user # stored
        /\ \A x, y \in saved : x.user = y.user /\ holds[x.op] = holds[y.op] => x = y
    BY <1>3 DEF ViewInv, RecordsInv, OneRecordPerRoute
  <2>2. \A x \in saved : /\ holds'[x.op] = holds[x.op] /\ op'[x.op] = op[x.op]
                         /\ InFlight(x.op)' <=> InFlight(x.op)
                         /\ InFlight(x.op) => Saves(x.op)
    BY <1>3, <1>6, RowIs DEF ViewInv
  <2>3. \A x \in saved' : op'[x.op].status = 200
    BY <1>3, <2>1, <2>2
  <2>4. \A x \in saved' : x.user = stored' /\ holds'[x.op] \in screen'.found =>
           <<holds'[x.op], x.op>> \in marked' \/ InFlight(x.op)'
    BY <1>3, <1>5, <2>1, <2>2
  <2>5. ASSUME NEW x \in saved, holds[x.op] = q PROVE x.user # stored
    <3>1. x.op \in Ops
      BY <1>3
    <3>2. <<holds[x.op], x.op>> \notin marked
      BY <1>4, <2>5, <3>1
    <3>3. ~ InFlight(x.op)
      BY <1>4, <2>2, <2>5, <3>1 DEF ViewInv, SavingInv
    <3> QED BY <1>4, <2>1, <2>5, <3>2, <3>3
  <2>6. r.token = 0 \/ r.token = stored'
    BY <1>2, <1>3 DEF Opens
  <2>7. ASSUME NEW p \in Ops, NEW x \in saved', Saves(p)', x.op # p, holds'[x.op] = holds'[p]
        PROVE  x.user # op'[p].token /\ x.user # stored'
    <3>1. CASE p = o
      <4>1. holds[x.op] = q /\ x \in saved
        BY <1>3, <1>6, <2>2, <2>7, <3>1
      <4>2. x.user # stored /\ x.user # 0
        BY <1>3, <2>5, <4>1
      <4> QED BY <1>3, <2>6, <3>1, <4>2
    <3>2. CASE p # o
      <4>1. Saves(p) /\ op'[p] = op[p] /\ x \in saved /\ holds[x.op] = holds[p]
        BY <1>3, <1>6, <2>2, <2>7, <3>2
      <4>2. x.user # op[p].token /\ x.user # stored /\ x.user # 0
        BY <1>3, <2>1, <2>7, <4>1
      <4> QED BY <1>3, <4>1, <4>2
    <3> QED BY <3>1, <3>2
  <2>8. \A x, y \in saved' : x.user = y.user /\ holds'[x.op] = holds'[y.op] => x = y
    BY <1>3, <2>1, <2>2
  <2> QED BY <2>3, <2>4, <2>7, <2>8 DEF RecordsInv, OneRecordPerRoute
<1>12. ListInv'
  BY <1>2, <1>3 DEF ListInv
<1>13. MarkedIsListed'
  BY <1>3, <1>5 DEF ViewInv, MarkedIsListed
<1> QED BY <1>3, <1>7, <1>8, <1>9, <1>10, <1>11, <1>12, <1>13 DEF ViewInv

LEMMA ReloadView ==
    ASSUME ViewInv, NEW o \in Ops, Reload(o)
    PROVE  ViewInv'
<1>1. /\ List(o, Page) /\ active' = 0 /\ screen' = Idle /\ selected' = {} /\ marked' = {} /\ saving' = {}
      /\ map' = "pending" /\ Draw
      /\ submitted' = submitted /\ accepted' = accepted /\ holds' = holds
  BY DEF Reload
<1>2. PICK r : Opens(o, Page, r) /\ r.kind = "list" /\ r.pc # "done"
  BY <1>1, ListOpens, ViewAssumption DEF ViewInv
<1>3. /\ SessionInv' /\ op'[o] = r /\ \A p \in Ops : p # o => op'[p] = op[p]
      /\ \A p \in Ops : /\ p # o => (InFlight(p)' <=> InFlight(p)) /\ (Saves(p)' <=> Saves(p))
                        /\ op'[p].pc # "idle" => op'[p].tab = Page
      /\ saved' = saved /\ lost' = lost
      /\ \A x \in saved : x.op \in Ops /\ x.op # o
  BY <1>2, OpensChanges
<1>4. \A p \in Ops : ~ InFlight(p)
  BY <1>1 DEF List, ViewInv, PageInv, InFlight
<1>5. \A p \in Ops : ~ Saves(p)'
  BY <1>2, <1>3, <1>4 DEF Saves
<1>6. drawn' = {} /\ screen'.found = {} /\ screen'.status = "none"
  BY <1>1 DEF Draw, Idle
<1>7. ViewTypeOK'
  <2>1. active' \in 0 .. MaxSearches
    BY <1>1, ViewAssumption
  <2>2. screen' \in [status : {"none", "loading", "success"}, found : SUBSET Routes]
    BY <1>1 DEF Idle
  <2> QED BY <1>1, <1>3, <1>6, <2>1, <2>2 DEF ViewInv, ViewTypeOK, SessionInv
<1>8. PageInv' /\ SearchInv'
  BY <1>1, <1>3, <1>6 DEF ViewInv, PageInv, SearchInv
<1>9. SavingInv'
  BY <1>5 DEF SavingInv
<1>10. RecordsInv'
  <2>1. \A x \in saved : op'[x.op] = op[x.op]
    BY <1>3
  <2> QED BY <1>1, <1>3, <1>5, <1>6, <2>1 DEF ViewInv, RecordsInv, OneRecordPerRoute
<1>11. ListInv' /\ MarkedIsListed'
  BY <1>1 DEF ListInv, MarkedIsListed
<1> QED BY <1>3, <1>7, <1>8, <1>9, <1>10, <1>11 DEF ViewInv

\* A step of the view alone: no route that is saved comes onto the screen.
LEMMA ScreenView ==
    ASSUME ViewInv, UNCHANGED vars, holds' = holds, saving' = saving, ViewTypeOK', SearchInv',
           marked' = marked \/ marked' = {},
           \A o \in Ops : holds[o] \in screen'.found => holds[o] \in screen.found /\ marked' = marked
    PROVE  ViewInv'
<1>1. /\ accounts' = accounts /\ saved' = saved /\ stored' = stored /\ op' = op
      /\ shown' = shown /\ lost' = lost /\ overlapped' = overlapped
  BY DEF vars, server, browser
<1>2. SessionInv'
  BY StutterSession DEF ViewInv
<1>3. PageInv' /\ SavingInv'
  BY <1>1 DEF ViewInv, PageInv, SavingInv, Saves, InFlight
<1>4. \A x \in saved : x.op \in Ops
  BY RowIs DEF ViewInv
<1>5. RecordsInv'
  BY <1>1, <1>4 DEF ViewInv, RecordsInv, OneRecordPerRoute, Saves, InFlight
<1>6. ListInv' /\ MarkedIsListed'
  BY <1>1 DEF ViewInv, ListInv, MarkedIsListed, InFlight
<1> QED BY <1>2, <1>3, <1>5, <1>6 DEF ViewInv

LEMMA SessionTypes ==
    ASSUME TypeOK, UNCHANGED vars
    PROVE  TypeOK'
BY DEF TypeOK, vars, server, browser

LEMMA SubmitView ==
    ASSUME ViewInv, Submit
    PROVE  ViewInv'
<1>1. /\ UNCHANGED vars /\ screen.status # "loading" /\ submitted < MaxSearches
      /\ submitted' = submitted + 1 /\ active' = submitted'
      /\ screen' = [status |-> "loading", found |-> {}]
      /\ selected' = {} /\ marked' = {} /\ Draw
      /\ map' = map /\ saving' = saving /\ accepted' = accepted /\ holds' = holds
  BY DEF Submit
<1>2. submitted \in 0 .. MaxSearches /\ MaxSearches \in Nat
  BY ViewAssumption DEF ViewInv, ViewTypeOK
<1>3. /\ submitted' \in 0 .. MaxSearches /\ active' \in 0 .. MaxSearches /\ active' # 0
      /\ active' = submitted + 1 /\ submitted' = submitted + 1
  BY <1>1, <1>2
<1>4. screen'.found = {} /\ screen'.status = "loading"
  BY <1>1
<1>5. drawn' \subseteq Routes
  BY <1>1 DEF Draw, ViewInv, ViewTypeOK
<1>6. ViewTypeOK'
  <2>1. screen' \in [status : {"none", "loading", "success"}, found : SUBSET Routes]
    BY <1>1
  <2>2. TypeOK'
    BY <1>1, SessionTypes DEF ViewInv, ViewTypeOK
  <2> QED BY <1>1, <1>3, <1>5, <2>1, <2>2 DEF ViewInv, ViewTypeOK
<1>7. SearchInv'
  <2>1. ASSUME NEW o \in Ops PROVE holds[o][1] <= submitted + 1 /\ holds[o][1] < submitted + 1
    <3>1. holds[o][1] \in Nat /\ holds[o][1] <= submitted
      BY Holding DEF ViewInv, SearchInv
    <3> QED BY <1>2, <3>1
  <2> QED BY <1>1, <1>3, <1>4, <2>1 DEF SearchInv
<1> QED BY <1>1, <1>4, <1>6, <1>7, ScreenView

LEMMA AnswersView ==
    ASSUME ViewInv, SearchAnswers
    PROVE  ViewInv'
<1>1. /\ UNCHANGED vars /\ active # 0 /\ active' = 0 /\ submitted' = submitted /\ Draw
      /\ map' = map /\ marked' = marked /\ saving' = saving /\ accepted' = accepted
      /\ holds' = holds
  BY DEF SearchAnswers, marks
<1>2. active \in 1 .. MaxSearches /\ active = submitted /\ MaxSearches \in Nat /\ RoutesEach \in Nat \ {0}
  BY <1>1, ViewAssumption DEF ViewInv, ViewTypeOK, SearchInv
<1>3. /\ screen'.found \subseteq Routes /\ selected' \subseteq Routes
      /\ \A r \in screen'.found : r[1] = submitted
      /\ screen' \in [status : {"none", "loading", "success"}, found : SUBSET Routes]
      /\ screen'.status # "loading" /\ (screen'.status # "success" => screen'.found = {})
  <2>1. CASE \E n \in 1 .. RoutesEach :
               /\ screen' = [status |-> "success", found |-> {active} \X (1 .. n)]
               /\ selected' = {<<active, 1>>}
    <3>1. PICK n \in 1 .. RoutesEach :
             /\ screen' = [status |-> "success", found |-> {active} \X (1 .. n)]
             /\ selected' = {<<active, 1>>}
      BY <2>1
    <3>2. \A k \in 1 .. n : k \in 1 .. RoutesEach
      BY <1>2
    <3>3. {active} \X (1 .. n) \subseteq Routes /\ {<<active, 1>>} \subseteq Routes
      BY <1>2, <3>2 DEF Routes
    <3>4. \A r \in {active} \X (1 .. n) : r[1] = submitted
      BY <1>2
    <3> QED BY <3>1, <3>3, <3>4
  <2>2. CASE screen' = Idle /\ selected' = selected
    BY <2>2 DEF Idle, ViewInv, ViewTypeOK
  <2> QED BY <2>1, <2>2 DEF SearchAnswers
<1>4. drawn' \subseteq Routes
  BY <1>1, <1>3 DEF Draw, ViewInv, ViewTypeOK
<1>5. ViewTypeOK'
  <2>1. TypeOK'
    BY <1>1, SessionTypes DEF ViewInv, ViewTypeOK
  <2>2. active' \in 0 .. MaxSearches
    BY <1>1, <1>2
  <2> QED BY <1>1, <1>3, <1>4, <2>1, <2>2 DEF ViewInv, ViewTypeOK
<1>6. SearchInv'
  BY <1>1, <1>3 DEF ViewInv, SearchInv, Draw
<1>7. \A o \in Ops : holds[o] \notin screen'.found
  <2> SUFFICES ASSUME NEW o \in Ops, holds[o] \in screen'.found PROVE FALSE
    OBVIOUS
  <2>1. holds[o][1] = submitted /\ holds[o][1] < active
    BY <1>1, <1>3 DEF ViewInv, SearchInv
  <2> QED BY <1>2, <2>1
<1> QED BY <1>1, <1>5, <1>6, <1>7, ScreenView

\* The map and the selection.
LEMMA MapView ==
    ASSUME ViewInv, Accept \/ Select \/ Unconfigured \/ MapLoads \/ MapFails \/ ClickOverlay
    PROVE  ViewInv'
<1>1. /\ UNCHANGED vars /\ submitted' = submitted /\ active' = active /\ screen' = screen
      /\ marked' = marked /\ saving' = saving /\ holds' = holds
      /\ accepted' = accepted \/ accepted' = (~ accepted)
      /\ map' \in {"pending", "ready", "preview"}
  BY DEF Accept, Select, Unconfigured, MapLoads, MapFails, ClickOverlay, search, basemap, marks,
         ViewInv, ViewTypeOK
<1>2. /\ selected' \subseteq Routes /\ drawn' \subseteq Routes
      /\ map' = "ready" /\ screen.found # {} => drawn' = screen.found
  BY DEF Accept, Select, Unconfigured, MapLoads, MapFails, ClickOverlay, search, basemap, marks, Draw,
         ViewInv, ViewTypeOK, SearchInv
<1>3. ViewTypeOK'
  <2>1. TypeOK'
    BY <1>1, SessionTypes DEF ViewInv, ViewTypeOK
  <2>2. accepted' \in BOOLEAN
    <3>1. accepted \in BOOLEAN
      BY DEF ViewInv, ViewTypeOK
    <3> QED BY <1>1, <3>1
  <2> QED BY <1>1, <1>2, <2>1, <2>2 DEF ViewInv, ViewTypeOK
<1>4. SearchInv'
  BY <1>1, <1>2 DEF ViewInv, SearchInv
<1> QED BY <1>1, <1>3, <1>4, ScreenView

LEMMA StutterView ==
    ASSUME ViewInv, UNCHANGED vars, UNCHANGED <<search, basemap, marks>>
    PROVE  ViewInv'
<1>1. /\ submitted' = submitted /\ active' = active /\ screen' = screen /\ selected' = selected
      /\ map' = map /\ drawn' = drawn /\ marked' = marked /\ saving' = saving
      /\ accepted' = accepted /\ holds' = holds
  BY DEF search, basemap, marks
<1>2. TypeOK'
  BY SessionTypes DEF ViewInv, ViewTypeOK
<1>3. ViewTypeOK' /\ SearchInv'
  BY <1>1, <1>2 DEF ViewInv, ViewTypeOK, SearchInv
<1> QED BY <1>1, <1>3, ScreenView

LEMMA ViewStarts ==
    ASSUME ViewInit
    PROVE  ViewInv
<1>1. /\ Init /\ SessionInv
      /\ submitted = 0 /\ active = 0 /\ screen = Idle /\ selected = {}
      /\ map = "pending" /\ drawn = {} /\ marked = {} /\ saving = {} /\ accepted = FALSE
      /\ holds = [o \in Ops |-> NoRoute]
  BY SessionStarts DEF ViewInit
<1>2. /\ saved = {} /\ op = [o \in Ops |-> NoOp]
  BY <1>1 DEF Init
<1>3. \A o \in Ops : op[o].pc = "idle" /\ holds[o] = <<0, 0>>
  BY <1>1, <1>2, IdleOperation DEF NoRoute
<1>4. screen.found = {} /\ screen.status = "none"
  BY <1>1 DEF Idle
<1>5. ViewTypeOK
  <2>1. screen \in [status : {"none", "loading", "success"}, found : SUBSET Routes]
    BY <1>1 DEF Idle
  <2>2. holds \in [Ops -> Routes \cup {NoRoute}]
    BY <1>1
  <2>3. submitted \in 0 .. MaxSearches /\ active \in 0 .. MaxSearches
    BY <1>1, ViewAssumption
  <2>4. accepted \in BOOLEAN
    BY <1>1, Zenon
  <2> QED BY <1>1, <2>1, <2>2, <2>3, <2>4 DEF ViewTypeOK, SessionInv
<1>6. PageInv /\ SavingInv /\ ListInv /\ MarkedIsListed
  BY <1>1, <1>3 DEF PageInv, SavingInv, ListInv, MarkedIsListed, Saves, InFlight
<1>7. SearchInv
  BY <1>1, <1>3, <1>4 DEF SearchInv
<1>8. RecordsInv
  BY <1>2 DEF RecordsInv, OneRecordPerRoute
<1> QED BY <1>1, <1>5, <1>6, <1>7, <1>8 DEF ViewInv

LEMMA ViewStep ==
    ASSUME ViewInv, [ViewNext]_viewVars
    PROVE  ViewInv'
<1>1. CASE Accept \/ Select \/ Unconfigured \/ MapLoads \/ MapFails \/ ClickOverlay
  BY <1>1, MapView
<1>2. CASE Submit \/ SearchAnswers
  BY <1>2, SubmitView, AnswersView
<1>3. ASSUME NEW o \in Ops, SaveSelectedRoute(o) \/ Reload(o) \/ RemoveOrErase(o)
      PROVE  ViewInv'
  BY <1>3, SaveView, ReloadView, RemoveView, EraseView DEF RemoveOrErase
<1>4. ASSUME NEW o \in Ops, Lose(o), Follow PROVE ViewInv'
  BY <1>4, LoseReplies, RepliesView DEF ViewInv
<1>5. ASSUME NEW u \in accounts, EndSession(u), Follow PROVE ViewInv'
  <2>1. SessionInv'
    BY <1>5, EndedSession DEF ViewInv
  <2>2. lost \in Nat
    BY Types DEF ViewInv, SessionInv
  <2>3. /\ op' = op /\ stored' = stored /\ shown' = shown /\ overlapped' = overlapped
        /\ saved' \subseteq saved /\ lost <= lost'
    BY <1>5, <2>2 DEF EndSession, browser
  <2> QED BY <1>5, <2>1, <2>3, AsideView
<1>6. ASSUME NEW o \in Ops, Serve(o), Follow PROVE ViewInv'
  <2>1. op[o].pc = "sent" /\ lost' = lost /\ UNCHANGED <<browser, ends, lost, overlapped>>
    BY <1>6 DEF Serve
  <2>2. \E r : Replies(o, r)
    BY <1>6, <2>1, RefuseReplies, PerformReplies DEF Serve, ViewInv
  <2> QED BY <1>6, <2>1, <2>2, RepliesView
<1>7. ASSUME NEW o \in Ops, Recover(o), Follow PROVE ViewInv'
  BY <1>7, RecoverRepeats, RepeatsView DEF ViewInv
<1>8. ASSUME NEW o \in Ops, Conclude(o), Follow PROVE ViewInv'
  BY <1>8, ConcludeView
<1>9. ASSUME NEW t \in Tabs, SessionCreated(t), Follow PROVE ViewInv'
  BY <1>9, CreatedView
<1>10. ASSUME NEW t \in Tabs, CreationFailed(t), Follow PROVE ViewInv'
  BY <1>10, FailedView
<1>11. ASSUME NEW t \in Tabs, Issue(t), Follow PROVE ViewInv'
  <2>1. SessionInv' /\ lost \in Nat
    BY <1>11, IssueSession, Types DEF ViewInv, SessionInv
  <2>2. /\ op' = op /\ stored' = stored /\ shown' = shown /\ overlapped' = overlapped
        /\ saved' \subseteq saved /\ lost <= lost'
    BY <1>11, <2>1 DEF Issue
  <2> QED BY <1>11, <2>1, <2>2, AsideView
<1>12. ASSUME NEW t \in Tabs, LoseCreation(t), Follow PROVE ViewInv'
  <2>1. SessionInv' /\ lost \in Nat
    BY <1>12, LostSession, Types DEF ViewInv, SessionInv
  <2>2. /\ op' = op /\ stored' = stored /\ shown' = shown /\ overlapped' = overlapped
        /\ saved' \subseteq saved /\ lost <= lost'
    BY <1>12, <2>1 DEF LoseCreation, server
  <2> QED BY <1>12, <2>1, <2>2, AsideView
<1>13. CASE ViewProgress
  BY <1>6, <1>7, <1>8, <1>9, <1>10, <1>11, <1>12, <1>13 DEF ViewProgress, Progress
<1>14. CASE (AllDone /\ UNCHANGED <<search, basemap, marks>>) \/ UNCHANGED viewVars
  BY <1>14, StutterView DEF AllDone, viewVars
<1> QED BY <1>1, <1>2, <1>3, <1>4, <1>5, <1>13, <1>14 DEF ViewNext

\* What the page shows is true, in every page, of every search and whatever becomes of the
\* session: the marks of saved routes (App.tsx, savedByResultRoute) keep a route from being
\* recorded twice as long as no answer is lost, and name only saved routes that are listed
\* while operations do not overlap.
THEOREM MarksAreSound == ViewSpec => []MarksSound
<1>1. ViewInit => ViewInv
  BY ViewStarts
<1>2. ViewInv /\ [ViewNext]_viewVars => ViewInv'
  BY ViewStep
<1>3. ViewInv => MarksSound
  <2> SUFFICES ASSUME ViewInv PROVE MarksSound
    OBVIOUS
  <2>1. OneRecordPerRoute
    BY DEF ViewInv, RecordsInv, OneRecordPerRoute
  <2>2. active # 0 => active = submitted
    BY DEF ViewInv, SearchInv
  <2> QED BY <2>1, <2>2 DEF ViewInv, SearchInv, MarksSound
<1> QED BY <1>1, <1>2, <1>3, PTL DEF ViewSpec
=============================================================================
