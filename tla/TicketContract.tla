--------------------------- MODULE TicketContract ---------------------------
(***************************************************************************)
(* What the process promises to the consumers of support.ticket.resolved   *)
(* about one ticket: a resolution is decided once, every record on the     *)
(* topic carries that resolution (records may be duplicated), none comes   *)
(* before the decision, and a closed ticket has been announced.            *)
(***************************************************************************)
CONSTANT Resolutions

VARIABLES
    decision,   \* the resolution, or "open"
    announced,  \* resolutions of the records on the topic
    closed      \* the ticket's process has reached its end

cvars == <<decision, announced, closed>>

Init == decision = "open" /\ announced = {} /\ closed = FALSE

Decide ==
    /\ decision = "open"
    /\ decision' \in Resolutions
    /\ UNCHANGED <<announced, closed>>

Announce ==
    /\ decision # "open"
    /\ ~closed
    /\ announced' = announced \cup {decision}
    /\ closed' \in BOOLEAN
    /\ UNCHANGED decision

Spec == Init /\ [][Decide \/ Announce]_cvars
=============================================================================
