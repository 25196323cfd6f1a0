---------------------------- MODULE FixedWindow ----------------------------
(***************************************************************************)
(* What a fixed-window limit promises, whoever implements it: every        *)
(* admission belongs to a window that a first admission opened, a window    *)
(* lasts Width, and holds at most Limit admissions.  No counter and no      *)
(* table of windows appears here; a window is known by the time it was      *)
(* opened at.                                                              *)
(***************************************************************************)
EXTENDS Integers, Sequences

CONSTANTS
    Subjects,   \* what is limited, each by itself
    Limit,      \* [Subjects -> Nat \ {0}]
    Width       \* [Subjects -> Nat \ {0}]

PositiveLimits ==
    /\ Limit \in [Subjects -> Nat \ {0}]
    /\ Width \in [Subjects -> Nat \ {0}]

VARIABLES
    now,
    log         \* per subject, its admissions: when, and when their window was opened

vars == <<now, log>>

Admission == [at : Nat, opened : Nat]

Init == now \in Nat /\ log = [s \in Subjects |-> <<>>]

Admitted(s, opened) ==
    /\ log' = [log EXCEPT ![s] = Append(@, [at |-> now, opened |-> opened])]
    /\ UNCHANGED now

\* The window of the last admission is over, or there was none.
Open(s) ==
    /\ log[s] # <<>> => now >= log[s][Len(log[s])].opened + Width[s]
    /\ Admitted(s, now)

\* The window of the last admission goes on and is not full: the admission Limit
\* places back is of an earlier one.
Join(s) ==
    LET n == Len(log[s])
    IN  /\ n > 0
        /\ now < log[s][n].opened + Width[s]
        /\ n >= Limit[s] => log[s][n - Limit[s] + 1].opened # log[s][n].opened
        /\ Admitted(s, log[s][n].opened)

Pass == now' \in Nat /\ now' >= now /\ UNCHANGED log

Next == Pass \/ \E s \in Subjects : Open(s) \/ Join(s)

Spec == Init /\ [][Next]_vars

\* Of 2 * Limit + 1 successive admissions the first and the last are more than Width
\* apart: no interval of a window's length admits more than twice the limit.
RateBounded ==
    \A s \in Subjects : \A i, j \in DOMAIN log[s] :
        j >= i + 2 * Limit[s] => log[s][j].at > log[s][i].at + Width[s]
=============================================================================
