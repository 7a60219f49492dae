------------------------------ MODULE AudioStage ------------------------------
(***************************************************************************)
(* What an audio stage promises the rest of the scale-8000 run, told as if *)
(* no process ever died and nothing was ever rendered a second time: every *)
(* worker lists the valid audio of its share, its list only grows, and the *)
(* lists are published together when each of them is complete.             *)
(***************************************************************************)
CONSTANTS
    Worker,    \* the workers
    Item,      \* what is to be rendered
    Share      \* Share[w] is what worker w has to render

VARIABLES
    audio,     \* items that have valid audio
    listed,    \* the items in the list of each worker
    published  \* the items in the common list

Init == audio = {} /\ listed = [w \in Worker |-> {}] /\ published = {}

Render ==
    /\ \E i \in Item : audio' = audio \cup {i}
    /\ UNCHANGED <<listed, published>>

List ==
    /\ \E w \in Worker : \E items \in SUBSET (Share[w] \cap audio) :
          listed[w] \subseteq items /\ listed' = [listed EXCEPT ![w] = items]
    /\ UNCHANGED <<audio, published>>

Publish ==
    /\ listed = Share
    /\ published' = Item
    /\ UNCHANGED <<audio, listed>>

Next == Render \/ List \/ Publish

Spec == Init /\ [][Next]_<<audio, listed, published>>
===============================================================================
