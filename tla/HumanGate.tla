----------------------------- MODULE HumanGate -----------------------------
(***************************************************************************)
(* What the approval queue promises to whoever relies on it, without       *)
(* sessions, audit rows or executors: a write waits at a gate, the gate    *)
(* asks for the signature of some roles, it opens once every role asked    *)
(* for has signed, and what went through or was turned away stays so.      *)
(***************************************************************************)
CONSTANTS Items, Roles

VARIABLES
    phase,      \* absent, waiting, cleared, done or closed
    need,       \* the roles whose signature the gate asks for
    signed      \* the roles that have signed

vars == <<phase, need, signed>>

Phases == {"absent", "waiting", "cleared", "done", "closed"}

Init ==
    /\ phase = [i \in Items |-> "absent"]
    /\ need = [i \in Items |-> {}]
    /\ signed = [i \in Items |-> {}]

\* A write arrives; the gate decides whom it asks.
Submit(i, roles) ==
    /\ phase[i] = "absent"
    /\ phase' = [phase EXCEPT ![i] = "waiting"]
    /\ need' = [need EXCEPT ![i] = roles]
    /\ UNCHANGED signed

\* A write for which nobody has to be asked goes straight through.
PassUnsigned(i) ==
    /\ phase[i] = "absent"
    /\ phase' = [phase EXCEPT ![i] = "done"]
    /\ UNCHANGED <<need, signed>>

\* A role signs; the gate opens exactly when no signature is missing.
Sign(i, r) ==
    /\ phase[i] = "waiting"
    /\ signed' = [signed EXCEPT ![i] = @ \cup {r}]
    /\ phase' = [phase EXCEPT ![i] =
                    IF need[i] \subseteq signed'[i] THEN "cleared" ELSE "waiting"]
    /\ UNCHANGED need

\* The gate may ask other roles instead while the write still waits.
Reroute(i, roles) ==
    /\ phase[i] = "waiting"
    /\ need' = [need EXCEPT ![i] = roles]
    /\ UNCHANGED <<phase, signed>>

TurnAway(i) ==
    /\ phase[i] = "waiting"
    /\ phase' = [phase EXCEPT ![i] = "closed"]
    /\ UNCHANGED <<need, signed>>

GoThrough(i) ==
    /\ phase[i] = "cleared"
    /\ phase' = [phase EXCEPT ![i] = "done"]
    /\ UNCHANGED <<need, signed>>

Next ==
    \E i \in Items :
        \/ \E roles \in SUBSET Roles : Submit(i, roles) \/ Reroute(i, roles)
        \/ \E r \in Roles : Sign(i, r)
        \/ PassUnsigned(i) \/ TurnAway(i) \/ GoThrough(i)

Spec == Init /\ [][Next]_vars
=============================================================================
