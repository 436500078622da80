------------------------- MODULE ServerConversation -------------------------
(***************************************************************************)
(* A conversation of the server: the threads that write its transcript     *)
(* announce what they wrote to the clients of a session.  _append_and_     *)
(* notify writes the message first and adds the event then; the event      *)
(* generation_complete follows the barrier of its step.  A crash of the    *)
(* server ends the session.                                                *)
(***************************************************************************)
EXTENDS ConversationLog, EventStream

\* The threads that write are those that announce.
ASSUME AdderAssumption == Adder = Writer

vars == <<logVars, streamVars>>

TypeOK == LogTypeOK /\ StreamTypeOK

Init == LogInit /\ StreamInit

\* SessionManager.add_event, called by _append_and_notify or after the barrier.
AddsEvent(w) == Announces(w) /\ Adds(w)
EndsEvent(w) == AddEnds(w) /\ Announced(w)

ServerCrash(left, part) ==
    /\ Crash(left, part)
    /\ events' = <<>> /\ offset' = 0 /\ added' = 0
    /\ adder' = [a \in Adder |-> NoAdder]
    /\ client' = [c \in Client |-> NoClient]
    /\ raced' = {}

Next ==
    \/ \E s \in StepWriter : StepNext(s) /\ UNCHANGED streamVars
    \/ \E t \in ToolWriter : ToolNext(t) /\ UNCHANGED streamVars
    \/ \E w \in Writer : WriteNext(w) /\ UNCHANGED streamVars
    \/ \E w \in Writer : AddsEvent(w) \/ EndsEvent(w)
    \/ \E w \in Writer : AdderNext(w) /\ UNCHANGED logVars
    \/ \E c \in Client : ClientNext(c) /\ UNCHANGED logVars
    \/ \E left \in AfterCrash, part \in BOOLEAN : ServerCrash(left, part)

Spec == Init /\ [][Next]_vars

=============================================================================
