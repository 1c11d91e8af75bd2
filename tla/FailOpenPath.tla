---------------------------- MODULE FailOpenPath ----------------------------
(***************************************************************************)
(* What the interception promises the user, whatever the platform: the     *)
(* traffic of a path is left alone ("open"), intercepted and served, or    *)
(* intercepted with nobody behind it ("dead").  Only somebody who serves a *)
(* path takes it over, and no path stays dead for LIMIT ticks.  Where the  *)
(* promise has an exception, exempt says that it applies.                  *)
(***************************************************************************)
EXTENDS Integers

CONSTANTS Paths, LIMIT

VARIABLES path, clock, exempt

vars == <<path, clock, exempt>>

Modes == {"open", "served", "dead"}

SomeDead(m) == \E p \in Paths : m[p] = "dead"

Init == /\ path = [p \in Paths |-> "open"]
        /\ clock = 0 /\ exempt = FALSE

\* Somebody takes over, serves, gives back or dies; it takes no time.  The
\* exception ends with the state it is about.
Reroute ==
    /\ path' \in [Paths -> Modes]
    /\ \A p \in Paths : path[p] = "open" => path'[p] # "dead"
    /\ clock' = IF SomeDead(path') THEN clock ELSE 0
    /\ exempt' \in BOOLEAN
    /\ exempt /\ ~exempt' => ~SomeDead(path')

\* Time passes, and may open a path.  clock stops counting at LIMIT.
Tick ==
    /\ path' \in [Paths -> Modes]
    /\ \A p \in Paths : path'[p] \in {path[p], "open"}
    /\ clock' = IF ~SomeDead(path') THEN 0
                ELSE IF clock < LIMIT THEN clock + 1 ELSE LIMIT
    /\ exempt' = exempt
    /\ clock' < LIMIT \/ exempt

Next == Reroute \/ Tick

Safety == Init /\ [][Next]_vars

\* A dead path is taken over again or opened.
Spec == Safety /\ (SomeDead(path) ~> ~SomeDead(path) \/ exempt)
=============================================================================
