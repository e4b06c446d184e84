------------------------------ MODULE BatchLog ------------------------------
(***************************************************************************)
(* What the telemetry store promises of the batches it is handed: a batch  *)
(* waits until it is held, set aside or too old, and it is held once,      *)
(* whatever was sent again and whatever died in between.                   *)
(***************************************************************************)
CONSTANT Batches

VARIABLES
    waiting,  \* the batches taken and not held yet
    held,     \* the batches the dashboards read, with their copies numbered: a second one would show
    aside,    \* the batches that could not be read
    old       \* the batches past the retention

Read == {e.batch : e \in held}

Init == waiting = {} /\ held = {} /\ aside = {} /\ old = {}

\* Batches are handed over, maybe once more.
Take ==
    /\ waiting' \in SUBSET Batches
    /\ waiting \subseteq waiting'
    /\ (waiting' \ waiting) \cap Read = {}
    /\ UNCHANGED <<held, aside, old>>

Store(B) ==
    /\ B \cap Read = {}
    /\ waiting' = waiting \ B
    /\ held' = held \cup {[batch |-> b, copy |-> 0] : b \in B}
    /\ UNCHANGED <<aside, old>>

SetAside(B) ==
    /\ waiting' = waiting \ B
    /\ aside' = aside \cup B
    /\ UNCHANGED <<held, old>>

\* Time passes: nobody is owed a batch that would be deleted.
Age ==
    /\ old' \in SUBSET Batches
    /\ old \subseteq old'
    /\ waiting' = waiting \ old'
    /\ UNCHANGED <<held, aside>>

Prune(B) ==
    /\ held' = {e \in held : e.batch \notin B}
    /\ UNCHANGED <<waiting, aside, old>>

Next ==
    \/ Take
    \/ \E B \in SUBSET (waiting \cup old) : Store(B)
    \/ \E B \in SUBSET (waiting \cup old \cup Read) : SetAside(B)
    \/ Age
    \/ \E B \in SUBSET old : Prune(B)

Spec == Init /\ [][Next]_<<waiting, held, aside, old>>
=============================================================================
