-------------------------- MODULE PostingAuthority --------------------------
(***************************************************************************)
(* What order submission promises to the engine and to the venue, without  *)
(* locks, permits, latches, checks and retries.  An authority to post is   *)
(* granted to the client that is installed, when everything posted before  *)
(* has settled and nothing was revoked since the engine asked for that.    *)
(* One task posts at a time, under the authority of the installed client,  *)
(* and never for a client that has a POST of unknown outcome.              *)
(***************************************************************************)
EXTENDS Naturals

CONSTANT Tasks

VARIABLES
    client,      \* the client that is installed, 0 for none
    authority,   \* the client whose orders may be posted, 0 for none
    halted,      \* nothing is granted any more
    drain,       \* "none", "waiting" for POSTs to settle, or "held"
    fresh,       \* nothing was withdrawn since the drain was asked for
    posting,     \* the tasks with a POST that has not settled
    unknown      \* the clients with a POST of unknown outcome

vars == <<client, authority, halted, drain, fresh, posting, unknown>>

Init ==
    /\ client = 0
    /\ authority = 0
    /\ halted = FALSE
    /\ drain = "none"
    /\ fresh = TRUE
    /\ posting = {}
    /\ unknown = {}

Withdraw ==
    /\ authority' = 0
    /\ fresh' = FALSE
    /\ UNCHANGED <<client, halted, drain, posting, unknown>>

Halt ==
    /\ authority' = 0
    /\ halted' = TRUE
    /\ UNCHANGED <<client, drain, fresh, posting, unknown>>

Ask ==
    /\ drain = "none"
    /\ drain' = "waiting"
    /\ fresh' = TRUE
    /\ UNCHANGED <<client, authority, halted, posting, unknown>>

Drained ==
    /\ drain = "waiting"
    /\ posting = {}
    /\ drain' = "held"
    /\ UNCHANGED <<client, authority, halted, fresh, posting, unknown>>

Release ==
    /\ drain = "held"
    /\ drain' = "none"
    /\ UNCHANGED <<client, authority, halted, fresh, posting, unknown>>

Grant ==
    /\ drain = "held"
    /\ posting = {}
    /\ fresh
    /\ ~halted
    /\ authority = 0
    /\ client # 0
    /\ client \notin unknown
    /\ authority' = client
    /\ UNCHANGED <<client, halted, drain, fresh, posting, unknown>>

Replace ==
    /\ posting = {}
    /\ client' = client + 1
    /\ UNCHANGED <<authority, halted, drain, fresh, posting, unknown>>

Begin(t) ==
    /\ posting = {}
    /\ drain # "held"
    /\ ~halted
    /\ client # 0
    /\ authority = client
    /\ client \notin unknown
    /\ posting' = {t}
    /\ UNCHANGED <<client, authority, halted, drain, fresh, unknown>>

Settle(t) ==
    /\ posting = {t}
    /\ posting' = {}
    /\ unknown' \in {unknown, unknown \cup {client}}
    /\ UNCHANGED <<client, authority, halted, drain, fresh>>

Next ==
    \/ Withdraw
    \/ Halt
    \/ Ask
    \/ Drained
    \/ Release
    \/ Grant
    \/ Replace
    \/ \E t \in Tasks : Begin(t) \/ Settle(t)

Spec == Init /\ [][Next]_vars

=============================================================================
