---------------------------- MODULE OutputFence ----------------------------
(***************************************************************************)
(* What the instrument service promises about output-capable instruments,  *)
(* without its handlers, journal or crashes.  A source is free, owned by   *)
(* one session, or fenced off; only an owner can energise it; it is only   *)
(* handed out, or taken out of the fence, with its output verified OFF.    *)
(***************************************************************************)
CONSTANTS Sessions, Sources, None

VARIABLES
    holder,   \* the session that owns a source, or None
    fenced,   \* sources nobody may claim
    hot       \* sources whose output may be ON

fenceVars == <<holder, fenced, hot>>

FenceInit ==
    /\ holder = [a \in Sources |-> None]
    /\ fenced \subseteq Sources
    /\ hot \subseteq fenced

\* A cold, unfenced, unowned source is handed to one session.
Grant(a, s) ==
    /\ holder[a] = None /\ a \notin fenced /\ a \notin hot
    /\ holder' = [holder EXCEPT ![a] = s]
    /\ UNCHANGED <<fenced, hot>>

\* The owner's traffic may turn the output on or off.
Drive(a) ==
    /\ holder[a] # None
    /\ \/ hot' = hot \cup {a} \/ hot' = hot \ {a}
    /\ UNCHANGED <<holder, fenced>>

\* Sources are fenced, their owners gone (released, disconnected, crashed).
Lose(S) ==
    /\ holder' = [a \in Sources |-> IF a \in S THEN None ELSE holder[a]]
    /\ fenced' = fenced \cup S
    /\ UNCHANGED hot

\* An unowned source may be forced OFF at any time.
Cool(a) ==
    /\ holder[a] = None
    /\ hot' = hot \ {a}
    /\ UNCHANGED <<holder, fenced>>

\* Sources leave the fence only once they are OFF.
Unfence(S) ==
    /\ fenced' = fenced \ S
    /\ hot' = hot \ S
    /\ UNCHANGED holder

FenceNext ==
    \/ \E a \in Sources, s \in Sessions : Grant(a, s)
    \/ \E a \in Sources : Drive(a) \/ Cool(a)
    \/ \E S \in SUBSET Sources : Lose(S) \/ Unfence(S)

FenceSpec == FenceInit /\ [][FenceNext]_fenceVars

\* An energised source is owned or fenced: nobody else can be handed a live
\* output.
HotHeld == \A a \in hot : holder[a] # None \/ a \in fenced
=============================================================================
