-------------------------- MODULE ConversationOwner --------------------------
(***************************************************************************)
(* What the server promises of a conversation: at any time nobody or one   *)
(* owner, a session under an epoch, drives its generation.  Ownership      *)
(* starts only when nobody has it, passes on only to the next epoch of the *)
(* same session, and ends.                                                 *)
(***************************************************************************)
EXTENDS Naturals

CONSTANTS
    Session,  \* the sessions of the conversation
    Nobody    \* no owner

VARIABLE owner

Owner == Session \X Nat

Init == owner = Nobody

\* A request reserves the idle conversation.
Take ==
    /\ owner = Nobody
    /\ owner' \in Owner

\* A tool worker hands its reservation to the continuation.
PassOn ==
    /\ owner \in Owner
    /\ owner' = <<owner[1], owner[2] + 1>>

\* The owner finishes, or is interrupted or removed.
Yield ==
    /\ owner \in Owner
    /\ owner' = Nobody

Next == Take \/ PassOn \/ Yield

Spec == Init /\ [][Next]_owner
=============================================================================
