------------------------- MODULE FixedWindowProofs -------------------------
(***************************************************************************)
(* A fixed window lets at most twice its limit through in any interval of   *)
(* its length.                                                             *)
(***************************************************************************)
EXTENDS FixedWindow, SequenceTheorems, TLAPS

(* The inductive invariant: windows do not overlap, are full after Limit         *)
(* admissions, and hold the admissions that belong to them.                      *)

TypeOK == now \in Nat /\ log \in [Subjects -> Seq(Admission)]

WithinWindow ==
    \A s \in Subjects : \A i \in DOMAIN log[s] :
        /\ log[s][i].opened <= log[s][i].at
        /\ log[s][i].at < log[s][i].opened + Width[s]
        /\ log[s][i].at <= now

Disjoint ==
    \A s \in Subjects : \A i, j \in DOMAIN log[s] :
        i <= j => \/ log[s][i].opened = log[s][j].opened
                  \/ log[s][i].opened + Width[s] <= log[s][j].opened

Filled ==
    \A s \in Subjects : \A i, j \in DOMAIN log[s] :
        j >= i + Limit[s] => log[s][i].opened + Width[s] <= log[s][j].opened

IInv == TypeOK /\ WithinWindow /\ Disjoint /\ Filled

LEMMA Entries ==
    ASSUME NEW q \in Seq(Admission)
    PROVE  /\ Len(q) \in Nat /\ DOMAIN q = 1 .. Len(q)
           /\ \A i \in DOMAIN q : q[i].at \in Nat /\ q[i].opened \in Nat
<1>1. Len(q) \in Nat /\ DOMAIN q = 1 .. Len(q)
  BY LenProperties
<1>2. \A i \in DOMAIN q : q[i] \in Admission
  BY <1>1, ElementOfSeq
<1> QED BY <1>1, <1>2 DEF Admission

\* An admission preserves the invariant when its window is the last one, not yet full,
\* or a new one that begins after it.
LEMMA AdmissionPreserves ==
    ASSUME PositiveLimits, IInv, NEW s \in Subjects, NEW opened \in Nat, Admitted(s, opened),
           opened <= now, now < opened + Width[s],
           \A i \in DOMAIN log[s] :
              \/ log[s][i].opened = opened
              \/ log[s][i].opened + Width[s] <= opened,
           \A i \in DOMAIN log[s] :
              Len(log[s]) + 1 >= i + Limit[s] => log[s][i].opened + Width[s] <= opened
    PROVE  IInv'
<1> DEFINE a == [at |-> now, opened |-> opened]
           n == Len(log[s])
<1>1. /\ now' = now /\ now \in Nat
      /\ log' = [log EXCEPT ![s] = Append(log[s], a)]
      /\ a \in Admission
      /\ Limit[s] \in Nat \ {0} /\ Width[s] \in Nat \ {0}
  BY DEF PositiveLimits, Admitted, IInv, TypeOK, Admission
<1>2. /\ log[s] \in Seq(Admission)
      /\ log'[s] = Append(log[s], a)
      /\ \A t \in Subjects \ {s} : log'[t] = log[t]
  BY <1>1 DEF IInv, TypeOK
<1>3. /\ n \in Nat /\ DOMAIN log[s] = 1 .. n
      /\ \A i \in 1 .. n : log[s][i].at \in Nat /\ log[s][i].opened \in Nat
  BY <1>2, Entries
<1>4. /\ log'[s] \in Seq(Admission)
      /\ DOMAIN log'[s] = 1 .. n + 1
      /\ \A i \in 1 .. n : log'[s][i] = log[s][i]
      /\ log'[s][n + 1] = a
  BY <1>1, <1>2, AppendProperties, LenProperties
<1>5. TypeOK'
  BY <1>1, <1>2, <1>4 DEF TypeOK, IInv
<1> HIDE DEF n
<1>6. WithinWindow'
  <2> SUFFICES ASSUME NEW t \in Subjects, NEW i \in DOMAIN log'[t]
               PROVE  /\ log'[t][i].opened <= log'[t][i].at
                      /\ log'[t][i].at < log'[t][i].opened + Width[t]
                      /\ log'[t][i].at <= now
    BY <1>1 DEF WithinWindow
  <2>1. CASE t = s /\ i = n + 1
    BY <2>1, <1>1, <1>4
  <2>2. CASE t = s /\ i # n + 1
    <3>1. i \in 1 .. n /\ log'[t][i] = log[t][i]
      BY <2>2, <1>3, <1>4
    <3> QED BY <3>1, <2>2, <1>3 DEF WithinWindow, IInv
  <2>3. CASE t # s
    BY <2>3, <1>2 DEF WithinWindow, IInv
  <2> QED BY <2>1, <2>2, <2>3
<1>7. Disjoint'
  <2> SUFFICES ASSUME NEW t \in Subjects, NEW i \in DOMAIN log'[t], NEW j \in DOMAIN log'[t], i <= j
               PROVE  \/ log'[t][i].opened = log'[t][j].opened
                      \/ log'[t][i].opened + Width[t] <= log'[t][j].opened
    BY <1>1 DEF Disjoint
  <2>1. CASE t # s
    BY <2>1, <1>2 DEF Disjoint, IInv
  <2>2. CASE t = s /\ j = n + 1
    BY <2>2, <1>1, <1>3, <1>4
  <2>3. CASE t = s /\ j # n + 1
    <3>1. i \in 1 .. n /\ j \in 1 .. n
      BY <2>3, <1>3, <1>4
    <3> QED BY <3>1, <2>3, <1>3, <1>4 DEF Disjoint, IInv
  <2> QED BY <2>1, <2>2, <2>3
<1>8. Filled'
  <2> SUFFICES ASSUME NEW t \in Subjects, NEW i \in DOMAIN log'[t], NEW j \in DOMAIN log'[t],
                      j >= i + Limit[t]
               PROVE  log'[t][i].opened + Width[t] <= log'[t][j].opened
    BY <1>1 DEF Filled
  <2>1. CASE t # s
    BY <2>1, <1>2 DEF Filled, IInv
  <2>2. CASE t = s /\ j = n + 1
    <3>1. i \in 1 .. n
      BY <2>2, <1>1, <1>3, <1>4
    <3> QED BY <3>1, <2>2, <1>1, <1>3, <1>4 DEF n
  <2>3. CASE t = s /\ j # n + 1
    <3>1. i \in 1 .. n /\ j \in 1 .. n
      BY <2>3, <1>1, <1>3, <1>4
    <3> QED BY <3>1, <2>3, <1>3, <1>4 DEF Filled, IInv
  <2> QED BY <2>1, <2>2, <2>3
<1> QED BY <1>5, <1>6, <1>7, <1>8 DEF IInv

LEMMA StepPreserves == ASSUME PositiveLimits PROVE IInv /\ [Next]_vars => IInv'
<1> SUFFICES ASSUME IInv, [Next]_vars PROVE IInv'
  OBVIOUS
<1>1. CASE UNCHANGED vars
  BY <1>1 DEF vars, IInv, TypeOK, WithinWindow, Disjoint, Filled
<1>2. CASE Pass
  <2>1. now' \in Nat /\ now' >= now /\ log' = log /\ now \in Nat
    BY <1>2 DEF Pass, IInv, TypeOK
  <2>2. \A s \in Subjects : \A i \in DOMAIN log[s] : log[s][i].at \in Nat
    BY Entries DEF IInv, TypeOK
  <2> QED BY <2>1, <2>2 DEF IInv, TypeOK, WithinWindow, Disjoint, Filled
<1>3. ASSUME NEW s \in Subjects, Open(s) PROVE IInv'
  <2> DEFINE n == Len(log[s])
  <2>1. /\ log[s] \in Seq(Admission) /\ now \in Nat
        /\ Limit[s] \in Nat \ {0} /\ Width[s] \in Nat \ {0}
    BY DEF PositiveLimits, IInv, TypeOK
  <2>2. /\ n \in Nat /\ DOMAIN log[s] = 1 .. n
        /\ \A i \in 1 .. n : log[s][i].opened \in Nat
    BY <2>1, Entries
  <2>3. \A i \in 1 .. n : log[s][i].opened + Width[s] <= now
    <3> SUFFICES ASSUME NEW i \in 1 .. n PROVE log[s][i].opened + Width[s] <= now
      OBVIOUS
    <3>1. log[s] # <<>> /\ n \in 1 .. n /\ i <= n
      BY <2>1, <2>2
    <3>2. now >= log[s][n].opened + Width[s]
      BY <3>1, <1>3 DEF Open
    <3>3. \/ log[s][i].opened = log[s][n].opened
          \/ log[s][i].opened + Width[s] <= log[s][n].opened
      BY <3>1, <2>2 DEF IInv, Disjoint
    <3> QED BY <3>1, <3>2, <3>3, <2>1, <2>2
  <2>4. Admitted(s, now)
    BY <1>3 DEF Open
  <2>5. \A i \in DOMAIN log[s] : log[s][i].opened + Width[s] <= now
    BY <2>2, <2>3
  <2>6. now < now + Width[s] /\ now <= now
    BY <2>1
  <2> HIDE DEF n
  <2> QED BY <2>1, <2>4, <2>5, <2>6, AdmissionPreserves
<1>4. ASSUME NEW s \in Subjects, Join(s) PROVE IInv'
  <2> DEFINE n == Len(log[s])
             opened == log[s][n].opened
  <2>1. /\ log[s] \in Seq(Admission) /\ now \in Nat /\ n > 0
        /\ Limit[s] \in Nat \ {0} /\ Width[s] \in Nat \ {0}
    BY <1>4 DEF PositiveLimits, IInv, TypeOK, Join
  <2>2. /\ n \in Nat /\ DOMAIN log[s] = 1 .. n
        /\ \A i \in 1 .. n : log[s][i].opened \in Nat /\ log[s][i].at \in Nat
    BY <2>1, Entries
  <2>3. opened \in Nat /\ opened <= now /\ now < opened + Width[s] /\ Admitted(s, opened)
    <3>1. n \in DOMAIN log[s]
      BY <2>1, <2>2
    <3>2. opened <= log[s][n].at /\ log[s][n].at <= now
      BY <3>1 DEF IInv, WithinWindow
    <3>3. now < opened + Width[s] /\ Admitted(s, opened)
      BY <1>4 DEF Join
    <3>4. log[s][n].at \in Nat /\ opened \in Nat
      BY <2>2, <3>1
    <3> HIDE DEF opened
    <3> QED BY <2>1, <3>2, <3>3, <3>4
  <2>4. \A i \in DOMAIN log[s] :
           log[s][i].opened = opened \/ log[s][i].opened + Width[s] <= opened
    <3> SUFFICES ASSUME NEW i \in DOMAIN log[s]
                 PROVE  log[s][i].opened = opened \/ log[s][i].opened + Width[s] <= opened
      OBVIOUS
    <3>1. i \in DOMAIN log[s] /\ n \in DOMAIN log[s] /\ i <= n
      BY <2>1, <2>2
    <3> QED BY <3>1 DEF IInv, Disjoint
  <2>5. ASSUME NEW i \in DOMAIN log[s], n + 1 >= i + Limit[s]
        PROVE  log[s][i].opened + Width[s] <= opened
    <3> DEFINE k == n - Limit[s] + 1
    <3>1. n >= Limit[s] /\ i <= k /\ k \in 1 .. n /\ i \in 1 .. n
      BY <2>1, <2>2, <2>5
    <3>2. log[s][k].opened # opened
      BY <3>1, <1>4 DEF Join
    <3>3. log[s][k].opened + Width[s] <= opened
      BY <3>1, <3>2, <2>2, <2>4
    <3>4. \/ log[s][i].opened = log[s][k].opened
          \/ log[s][i].opened + Width[s] <= log[s][k].opened
      BY <3>1, <2>2 DEF IInv, Disjoint
    <3>5. k \in 1 .. n /\ opened \in Nat
      BY <3>1, <2>1, <2>2
    <3> HIDE DEF k, opened
    <3> QED BY <3>1, <3>3, <3>4, <3>5, <2>1, <2>2
  <2>6. /\ opened \in Nat
        /\ \A i \in DOMAIN log[s] :
              Len(log[s]) + 1 >= i + Limit[s] => log[s][i].opened + Width[s] <= opened
    BY <2>3, <2>5
  <2> HIDE DEF n, opened
  <2> QED BY <2>3, <2>4, <2>6, AdmissionPreserves
<1> QED BY <1>1, <1>2, <1>3, <1>4 DEF Next

\* Whatever implements a fixed window lets at most twice the limit through in any
\* interval of the window's length.
THEOREM Bounded == ASSUME PositiveLimits PROVE Spec => []RateBounded
<1>1. Init => IInv
  BY DEF Init, IInv, TypeOK, WithinWindow, Disjoint, Filled
<1>2. IInv => RateBounded
  <2> SUFFICES ASSUME IInv, NEW s \in Subjects, NEW i \in DOMAIN log[s], NEW j \in DOMAIN log[s],
                      j >= i + 2 * Limit[s]
               PROVE  log[s][j].at > log[s][i].at + Width[s]
    BY DEF RateBounded
  <2> DEFINE k == i + Limit[s]
  <2>1. /\ log[s] \in Seq(Admission) /\ Limit[s] \in Nat \ {0} /\ Width[s] \in Nat \ {0}
        /\ i \in 1 .. Len(log[s]) /\ j \in 1 .. Len(log[s]) /\ Len(log[s]) \in Nat
        /\ DOMAIN log[s] = 1 .. Len(log[s])
    BY Entries DEF PositiveLimits, IInv, TypeOK
  <2>2. k \in DOMAIN log[s] /\ k >= i + Limit[s] /\ j >= k + Limit[s]
    BY <2>1
  <2>3. log[s][i].opened + Width[s] <= log[s][k].opened
    BY <2>2 DEF IInv, Filled
  <2>4. log[s][k].opened + Width[s] <= log[s][j].opened
    BY <2>2 DEF IInv, Filled
  <2>5. log[s][i].at < log[s][i].opened + Width[s] /\ log[s][j].opened <= log[s][j].at
    BY DEF IInv, WithinWindow
  <2>6. /\ log[s][i].at \in Nat /\ log[s][i].opened \in Nat /\ log[s][k].opened \in Nat
        /\ log[s][j].at \in Nat /\ log[s][j].opened \in Nat
    BY <2>1, <2>2, Entries
  <2>7. ASSUME NEW w \in Nat, NEW ai \in Nat, NEW oi \in Nat, NEW ok \in Nat,
               NEW oj \in Nat, NEW aj \in Nat,
               ai < oi + w, oi + w <= ok, ok + w <= oj, oj <= aj
        PROVE  aj > ai + w
    BY <2>7
  <2> HIDE DEF k
  <2> QED BY <2>1, <2>3, <2>4, <2>5, <2>6, <2>7
<1> QED BY <1>1, <1>2, StepPreserves, PTL DEF Spec
=============================================================================
