---------------------------- MODULE SessionTurns ----------------------------
(***************************************************************************)
(* What run_in_lane() promises its callers: the calls of one session take  *)
(* turns in the order in which they arrived, and at most MaxGlobal calls   *)
(* run at a time.  Locks, their cache and the semaphore do not appear.     *)
(***************************************************************************)
EXTENDS Naturals, Sequences, FiniteSets

CONSTANTS Calls, Sessions, MaxGlobal

VARIABLES
    line,    \* the calls in each session's lane, in order of arrival
    running  \* the calls whose run is in progress

tvars == <<line, running>>

InLine(s) == {line[s][i] : i \in 1 .. Len(line[s])}

WithoutCall(q, c) ==
    [i \in 1 .. Len(q) - 1 |-> IF \E j \in 1 .. i : q[j] = c THEN q[i + 1] ELSE q[i]]

TInit == line = [s \in Sessions |-> <<>>] /\ running = {}

Arrive(c, s) ==
    /\ \A t \in Sessions : c \notin InLine(t)
    /\ line' = [line EXCEPT ![s] = Append(@, c)]

\* Only the first of a line runs.
Begin(c) ==
    /\ \E s \in Sessions : line'[s] # <<>> /\ Head(line'[s]) = c
    /\ c \notin running /\ Cardinality(running) < MaxGlobal
    /\ running' = running \cup {c}

\* The run ended, or the call was cancelled in the line or while it ran.
Depart(c, s) ==
    /\ c \in InLine(s)
    /\ line' = [line EXCEPT ![s] = WithoutCall(@, c)]
    /\ running' = running \ {c}

TNext ==
    \E c \in Calls :
        \/ \E s \in Sessions : Arrive(c, s) /\ (Begin(c) \/ UNCHANGED running)
        \/ UNCHANGED line /\ Begin(c)
        \/ \E s \in Sessions : Depart(c, s)

TSpec == TInit /\ [][TNext]_tvars
=============================================================================
