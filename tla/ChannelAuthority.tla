-------------------------- MODULE ChannelAuthority --------------------------
(***************************************************************************)
(* What the authenticated user channel promises to the engine that trades  *)
(* on it, without sequences, ledgers, sockets or gaps.  An epoch is one    *)
(* socket.  The channel is live only if, in the current epoch, a REST      *)
(* catch-up was attested, the server answered after that, and a            *)
(* finalization was published; a dead channel never comes back.            *)
(***************************************************************************)
EXTENDS Naturals

VARIABLES
    epoch,       \* the socket generation
    status,      \* how far the current epoch has been trusted
    published    \* a finalization of this epoch is still in force

vars == <<epoch, status, published>>

Statuses == {"untrusted", "attested", "confirmed", "live", "dead"}

Init ==
    /\ epoch = 0
    /\ status = "untrusted"
    /\ published = FALSE

(* A new socket starts from nothing, and does not revive a dead channel.   *)
Connect ==
    /\ epoch' = epoch + 1
    /\ status' \in {"untrusted", "dead"}
    /\ status = "dead" => status' = "dead"
    /\ published' = FALSE

(* The REST catch-up of this epoch ended; the server has to answer again.  *)
Attest ==
    /\ status # "dead"
    /\ status' = "attested"
    /\ UNCHANGED <<epoch, published>>

(* The server answered after the attestation.                              *)
Answer ==
    /\ status \in {"attested", "confirmed"}
    /\ status' = IF published THEN "live" ELSE "confirmed"
    /\ UNCHANGED <<epoch, published>>

Publish ==
    /\ status \in {"confirmed", "live"}
    /\ status' = "live"
    /\ published' = TRUE
    /\ UNCHANGED epoch

(* Evidence was lost but the attestation stands.                           *)
Doubt ==
    /\ \/ status \in {"confirmed", "live"} /\ status' = "confirmed"
       \/ status' = status /\ status # "live"
    /\ published' \in {published, FALSE}
    /\ UNCHANGED epoch

Lose ==
    /\ status # "dead"
    /\ status' = "untrusted"
    /\ published' \in {published, FALSE}
    /\ UNCHANGED epoch

Die ==
    /\ status' = "dead"
    /\ published' = FALSE
    /\ UNCHANGED epoch

Next == Connect \/ Attest \/ Answer \/ Publish \/ Doubt \/ Lose \/ Die

Spec == Init /\ [][Next]_vars

=============================================================================
