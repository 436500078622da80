----------------------------- MODULE EventStream -----------------------------
(***************************************************************************)
(* The events of one session and the clients that follow them              *)
(* (ConversationSession in src/gptme/server/session_models.py, the         *)
(* generator of api_conversation_events in api_v2_sessions.py).            *)
(*                                                                         *)
(* Any thread adds an event and trims the list, without a lock; a client   *)
(* keeps an absolute index and sends what lies behind it.  Every statement *)
(* of trim_events is a step, and its slice and assignment are two.         *)
(*                                                                         *)
(* Abstractions.  An event is its ordinal number.  events_count is read in *)
(* one step: its two reads differ only during a trim, which raced notes.   *)
(* event_flag, which wakes a client that waits, and its timeout of 15      *)
(* seconds are left out: a client may look at any time.                    *)
(***************************************************************************)
EXTENDS Integers, Sequences, SequencesExt

CONSTANTS
    Adder,       \* threads that add events
    Client,      \* connections to the event stream
    MaxEvents,   \* _MAX_EVENTS
    KeepEvents,  \* _KEEP_EVENTS
    MaxAdded     \* events that are added

ASSUME StreamAssumption ==
    /\ {MaxEvents, KeepEvents, MaxAdded} \subseteq Nat
    /\ KeepEvents <= MaxEvents

VARIABLES
    events,  \* session.events
    offset,  \* _events_offset
    added,   \* events added so far
    adder,   \* where every add_event is
    client,  \* where every generate_events is
    raced    \* history: clients that took their index during a trim

streamVars == <<events, offset, added, adder, client, raced>>

-----------------------------------------------------------------------------
AdderPc == {"idle", "check", "count", "slice", "assign", "end"}
NoAdder == [pc |-> "idle", count |-> 0, kept |-> <<>>]

ClientPc == {"idle", "connected", "ready", "send"}

\* last, new: last_event_index and new_index.
\* from: events before its index; sent: how often it got every event.
NoClient == [pc |-> "idle", last |-> 0, new |-> 0, from |-> 0,
             sent |-> [n \in 1..MaxAdded |-> 0]]

Count == offset + Len(events)

\* session.clients
Clients == {c \in Client : client[c].pc # "idle"}

\* An event may be sent again because it came between the two reads of a client,
\* but no third time, unless a trim moves the index under a client.
SentAtMostTwice == \A c \in Client \ raced : \A n \in 1..MaxAdded : client[c].sent[n] <= 2

StreamTypeOK ==
    /\ events \in Seq(1..MaxAdded)
    /\ offset \in Int
    /\ added \in 0..MaxAdded
    /\ adder \in [Adder -> [pc : AdderPc, count : Int,
                            kept : Seq(1..MaxAdded)]]
    /\ client \in [Client -> [pc : ClientPc, last : Int, new : Int, from : 0..MaxAdded,
                              sent : [1..MaxAdded -> Nat]]]
    /\ raced \subseteq Client
    /\ SentAtMostTwice

StreamInit ==
    /\ events = <<>> /\ offset = 0 /\ added = 0
    /\ adder = [a \in Adder |-> NoAdder]
    /\ client = [c \in Client |-> NoClient]
    /\ raced = {}

-----------------------------------------------------------------------------
(* add_event and trim_events *)

Adds(a) ==
    /\ adder[a].pc = "idle"
    /\ added < MaxAdded
    /\ added' = added + 1
    /\ events' = Append(events, added + 1)
    /\ adder' = [adder EXCEPT ![a].pc = "check"]
    /\ UNCHANGED <<offset, client, raced>>

\* Mutant: a list is trimmed though clients follow it.
TrimChecksSize(a) ==
    /\ adder[a].pc = "check"
    /\ adder' = [adder EXCEPT ![a].pc = IF Len(events) <= MaxEvents
                                        THEN "end" ELSE "count"]
    /\ UNCHANGED <<events, offset, added, client, raced>>

TrimChecks(a) ==
    /\ adder[a].pc = "check"
    /\ adder' = [adder EXCEPT ![a].pc =
                    IF Len(events) <= MaxEvents \/ Clients # {}
                    THEN "end" ELSE "count"]
    /\ UNCHANGED <<events, offset, added, client, raced>>

\* Another thread may have trimmed the list meanwhile: the count is zero then, or
\* less.
TrimCounts(a) ==
    /\ adder[a].pc = "count"
    /\ LET count == Len(events) - KeepEvents
       IN  /\ offset' = offset + count
           /\ adder' = [adder EXCEPT ![a].pc = "slice", ![a].count = count]
    /\ UNCHANGED <<events, added, client, raced>>

\* events[count:], which counts from the end if count is negative.
Slice(count) ==
    LET first == IF count >= 0 THEN count + 1 ELSE Len(events) + count + 1
    IN  SubSeq(events, IF first >= 1 THEN first ELSE 1, Len(events))

TrimSlices(a) ==
    /\ adder[a].pc = "slice"
    /\ adder' = [adder EXCEPT ![a].pc = "assign",
                              ![a].kept = Slice(adder[a].count)]
    /\ UNCHANGED <<events, offset, added, client, raced>>

\* What was appended to the old list since is lost.
TrimAssigns(a) ==
    /\ adder[a].pc = "assign"
    /\ events' = adder[a].kept
    /\ adder' = [adder EXCEPT ![a] = [NoAdder EXCEPT !.pc = "end"]]
    /\ UNCHANGED <<offset, added, client, raced>>

\* event_flag.set() wakes the clients, which look again anyway.
AddEnds(a) ==
    /\ adder[a].pc = "end"
    /\ adder' = [adder EXCEPT ![a] = NoAdder]
    /\ UNCHANGED <<events, offset, added, client, raced>>

-----------------------------------------------------------------------------
(* generate_events *)

\* The client is one of session.clients, and is sent the session as it is.
Connects(c) ==
    /\ client[c].pc = "idle"
    /\ client' = [client EXCEPT ![c].pc = "connected"]
    /\ UNCHANGED <<events, offset, added, adder, raced>>

Trimming == \E a \in Adder : adder[a].pc \in {"count", "slice", "assign"}

\* What was added since the connection is neither in the snapshot nor behind
\* the index.
TakesIndex(c) ==
    /\ client[c].pc = "connected"
    /\ client' = [client EXCEPT ![c].pc = "ready", ![c].last = Count,
                                ![c].from = added]
    /\ raced' = IF Trimming THEN raced \cup {c} ELSE raced
    /\ UNCHANGED <<events, offset, added, adder>>

\* At once after the events before, when the flag is set, or after 15 seconds.
ChecksCount(c) ==
    /\ client[c].pc = "ready"
    /\ client[c].last < Count
    /\ client' = [client EXCEPT ![c].pc = "send", ![c].new = Count]
    /\ UNCHANGED <<events, offset, added, adder, raced>>

\* get_events_since(last_event_index), read after new_index: an event may be
\* among these and behind new_index.
Unsent(c) ==
    {events[i] : i \in {i \in DOMAIN events : offset + i > client[c].last}}

\* Mutant: the index stays where it was.
SendsEventsAgain(c) ==
    /\ client[c].pc = "send"
    /\ client' = [client EXCEPT
         ![c].pc = "ready", ![c].new = 0,
         ![c].sent = [n \in 1..MaxAdded |-> @[n] + IF n \in Unsent(c) THEN 1
                                                                  ELSE 0]]
    /\ UNCHANGED <<events, offset, added, adder, raced>>

SendsEvents(c) ==
    /\ client[c].pc = "send"
    /\ client' = [client EXCEPT
         ![c].pc = "ready", ![c].last = client[c].new, ![c].new = 0,
         ![c].sent = [n \in 1..MaxAdded |-> @[n] + IF n \in Unsent(c) THEN 1
                                                                  ELSE 0]]
    /\ UNCHANGED <<events, offset, added, adder, raced>>

Disconnects(c) ==
    /\ client[c].pc # "idle"
    /\ client' = [client EXCEPT ![c] = NoClient]
    /\ raced' = raced \ {c}
    /\ UNCHANGED <<events, offset, added, adder>>

AdderNext(a) ==
    \/ TrimChecks(a)
    \/ TrimCounts(a)
    \/ TrimSlices(a)
    \/ TrimAssigns(a)

ClientNext(c) ==
    \/ Connects(c)
    \/ TakesIndex(c)
    \/ ChecksCount(c)
    \/ SendsEvents(c)
    \/ Disconnects(c)

-----------------------------------------------------------------------------
(* Properties *)

Due(c) == IF client[c].pc \in {"idle", "connected"} THEN {}
          ELSE client[c].from + 1..added

\* Every event that was added after a client took its index was sent to it or
\* lies behind its index still, whatever trims the list, unless the index was
\* taken during a trim.
StreamHasNoGap ==
    \A c \in Client \ raced : \A n \in Due(c) :
        client[c].sent[n] > 0 \/ n \in Unsent(c)

=============================================================================
