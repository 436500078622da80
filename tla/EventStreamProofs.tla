------------------------- MODULE EventStreamProofs -------------------------
(***************************************************************************)
(* Proof that a client of EventStream misses no event, for any number of   *)
(* threads that add events and of clients, and for every limit of the      *)
(* list.  The specification it is part of is ServerConversation; here a    *)
(* step is any of the stream's own, or a restart of the server.            *)
(***************************************************************************)
EXTENDS EventStream, SequenceTheorems, TLAPS

Restarts ==
    /\ events' = <<>> /\ offset' = 0 /\ added' = 0
    /\ adder' = [a \in Adder |-> NoAdder]
    /\ client' = [c \in Client |-> NoClient]
    /\ raced' = {}

StreamStep ==
    \/ \E a \in Adder : Adds(a) \/ AdderNext(a) \/ AddEnds(a)
    \/ \E c \in Client : ClientNext(c)
    \/ Restarts
    \/ UNCHANGED streamVars

-----------------------------------------------------------------------------
(* Types.                                                                  *)

Event == 1..MaxAdded

AdderRecord == [pc : AdderPc, count : Int, kept : Seq(Event)]
ClientRecord == [pc : ClientPc, last : Int, new : Int, from : 0..MaxAdded,
                 sent : [Event -> Nat]]

StreamTypes ==
    /\ events \in Seq(Event)
    /\ offset \in Int
    /\ added \in 0..MaxAdded
    /\ adder \in [Adder -> AdderRecord]
    /\ client \in [Client -> ClientRecord]

\* A client that took its index outside every trim keeps others from starting,
\* and its last index is no further than the list.
Follows(c) ==
    client[c].pc \in {"ready", "send"} /\ c \notin raced =>
        /\ ~Trimming
        /\ client[c].last <= Count
        /\ client[c].pc = "send" => client[c].new <= Count

\* The events it is due are the last ones of the list, in order.
HasDue(c) ==
    client[c].pc \in {"ready", "send"} /\ c \notin raced =>
        /\ client[c].from <= added
        /\ added - client[c].from <= Len(events)
        /\ \A n \in client[c].from + 1 .. added :
              events[Len(events) - (added - n)] = n

\* Each of them was sent, or its place is behind the last index.
SentOrBehind(c) ==
    client[c].pc \in {"ready", "send"} /\ c \notin raced =>
        \A n \in client[c].from + 1 .. added :
            \/ client[c].sent[n] > 0
            \/ offset + Len(events) - (added - n) > client[c].last

StreamInv ==
    /\ StreamTypes
    /\ \A c \in Client : Follows(c) /\ HasDue(c) /\ SentOrBehind(c)

LEMMA StreamInitInv == StreamInit => StreamInv
<1> SUFFICES ASSUME StreamInit PROVE StreamInv
  OBVIOUS
<1> USE StreamAssumption DEF StreamInit, NoAdder, NoClient
<1>1. StreamTypes
  BY DEF StreamTypes, AdderRecord, ClientRecord, AdderPc, ClientPc, Event
<1>2. added <= MaxAdded /\ \A c \in Client : client[c].pc = "idle"
  OBVIOUS
<1> QED
  BY <1>1, <1>2 DEF StreamInv, Follows, HasDue, SentOrBehind

LEMMA SliceType ==
    ASSUME events \in Seq(Event), NEW count \in Int
    PROVE  Slice(count) \in Seq(Event)
<1> DEFINE first == IF count >= 0 THEN count + 1 ELSE Len(events) + count + 1
<1> DEFINE start == IF first >= 1 THEN first ELSE 1
<1>1. start \in Nat /\ start >= 1
  OBVIOUS
<1>2. \A i \in start .. Len(events) : events[i] \in Event
  BY <1>1
<1>3. SubSeq(events, start, Len(events)) \in Seq(Event)
  BY <1>1, <1>2, SubSeqProperties
<1> QED
  BY <1>3 DEF Slice

\* A record whose field gets a value of its type is one still.
LEMMA AdderField ==
    ASSUME NEW r \in AdderRecord, NEW pc \in AdderPc, NEW count \in Int,
           NEW kept \in Seq(Event)
    PROVE  /\ [r EXCEPT !.pc = pc] \in AdderRecord
           /\ [r EXCEPT !.count = count] \in AdderRecord
           /\ [r EXCEPT !.kept = kept] \in AdderRecord
<1>1. [r EXCEPT !.pc = pc] \in AdderRecord
  BY DEF AdderRecord
<1>2. [r EXCEPT !.count = count] \in AdderRecord
  BY DEF AdderRecord
<1>3. [r EXCEPT !.kept = kept] \in AdderRecord
  BY DEF AdderRecord
<1> QED
  BY <1>1, <1>2, <1>3

LEMMA ClientField ==
    ASSUME NEW r \in ClientRecord, NEW pc \in ClientPc, NEW n \in Int, NEW k \in 0..MaxAdded,
           NEW sent \in [Event -> Nat]
    PROVE  /\ [r EXCEPT !.pc = pc] \in ClientRecord
           /\ [r EXCEPT !.last = n] \in ClientRecord
           /\ [r EXCEPT !.new = n] \in ClientRecord
           /\ [r EXCEPT !.from = k] \in ClientRecord
           /\ [r EXCEPT !.sent = sent] \in ClientRecord
<1>1. [r EXCEPT !.pc = pc] \in ClientRecord
  BY DEF ClientRecord
<1>2. [r EXCEPT !.last = n] \in ClientRecord
  BY DEF ClientRecord
<1>3. [r EXCEPT !.new = n] \in ClientRecord
  BY DEF ClientRecord
<1>4. [r EXCEPT !.from = k] \in ClientRecord
  BY DEF ClientRecord
<1>5. [r EXCEPT !.sent = sent] \in ClientRecord
  BY DEF ClientRecord
<1> QED
  BY <1>1, <1>2, <1>3, <1>4, <1>5

LEMMA StreamTypesStep ==
    ASSUME StreamTypes, StreamStep
    PROVE  StreamTypes'
<1> USE StreamAssumption DEF StreamTypes, AdderRecord
<1>1. ASSUME NEW a \in Adder, Adds(a)
      PROVE  StreamTypes'
  <2>0. added + 1 \in 0..MaxAdded /\ added + 1 \in Event
    BY <1>1 DEF Adds, Event
  <2>1. Append(events, added + 1) \in Seq(Event) /\ added + 1 \in 0..MaxAdded
    BY <2>0, AppendProperties
  <2>2. [adder[a] EXCEPT !.pc = "check"] \in AdderRecord
    BY DEF AdderPc
  <2>3. adder' = [adder EXCEPT ![a] = [adder[a] EXCEPT !.pc = "check"]]
    BY <1>1 DEF Adds
  <2> HIDE DEF AdderRecord
  <2> QED
    BY <1>1, <2>1, <2>2, <2>3 DEF Adds
<1>2. ASSUME NEW a \in Adder, TrimChecks(a)
      PROVE  StreamTypes'
  BY <1>2 DEF TrimChecks, AdderPc
<1>3. ASSUME NEW a \in Adder, TrimCounts(a)
      PROVE  StreamTypes'
  <2> DEFINE count == Len(events) - KeepEvents
             record == [adder[a] EXCEPT !.pc = "slice", !.count = count]
  <2>1. count \in Int /\ offset + count \in Int
    OBVIOUS
  <2>2. record \in AdderRecord
    BY <2>1 DEF AdderPc
  <2>3. adder' = [adder EXCEPT ![a] = record] /\ offset' = offset + count
    BY <1>3 DEF TrimCounts
  <2> HIDE DEF AdderRecord, count, record
  <2> QED
    BY <1>3, <2>1, <2>2, <2>3 DEF TrimCounts
<1>4. ASSUME NEW a \in Adder, TrimSlices(a)
      PROVE  StreamTypes'
  <2>1. Slice(adder[a].count) \in Seq(Event)
    BY SliceType
  <2> QED
    BY <1>4, <2>1 DEF TrimSlices, AdderPc
<1>5. ASSUME NEW a \in Adder, TrimAssigns(a)
      PROVE  StreamTypes'
  <2> DEFINE record == [NoAdder EXCEPT !.pc = "end"]
  <2>0. adder[a].kept \in Seq(Event) /\ <<>> \in Seq(Event)
    OBVIOUS
  <2>1. record \in AdderRecord
    <3>1. NoAdder \in AdderRecord /\ "end" \in AdderPc
      BY <2>0 DEF NoAdder, AdderPc
    <3> QED
      BY <3>1, AdderField
  <2> HIDE DEF AdderRecord, record
  <2>2. adder' = [adder EXCEPT ![a] = record]
    BY <1>5 DEF TrimAssigns, record
  <2> QED
    BY <1>5, <2>0, <2>1, <2>2 DEF TrimAssigns
<1>6. ASSUME NEW a \in Adder, AddEnds(a)
      PROVE  StreamTypes'
  BY <1>6 DEF AddEnds, AdderPc, NoAdder
<1>7. ASSUME NEW c \in Client, ClientNext(c)
      PROVE  StreamTypes'
  <2>1. UNCHANGED <<events, offset, added, adder>>
    BY <1>7 DEF ClientNext, Connects, TakesIndex, ChecksCount, SendsEvents, Disconnects
  <2>2. client' \in [Client -> ClientRecord]
    <3> USE DEF ClientPc
    <3>0. Count \in Int
      BY DEF Count
    <3>1. CASE Connects(c)
      BY <3>1 DEF Connects, ClientRecord
    <3>2. CASE TakesIndex(c)
      <4> DEFINE record == [client[c] EXCEPT !.pc = "ready", !.last = Count,
                                             !.from = added]
      <4>1. record \in ClientRecord
        BY <3>0 DEF ClientRecord
      <4>2. client' = [client EXCEPT ![c] = record]
        BY <3>2 DEF TakesIndex
      <4> QED
        BY <4>1, <4>2
    <3>3. CASE ChecksCount(c)
      <4> DEFINE record == [client[c] EXCEPT !.pc = "send", !.new = Count]
      <4>1. record \in ClientRecord
        BY <3>0 DEF ClientRecord
      <4>2. client' = [client EXCEPT ![c] = record]
        BY <3>3 DEF ChecksCount
      <4> QED
        BY <4>1, <4>2
    <3>4. CASE SendsEvents(c)
      <4> DEFINE sent == [n \in 1..MaxAdded |->
                            client[c].sent[n] + IF n \in Unsent(c) THEN 1 ELSE 0]
                 record == [client[c] EXCEPT !.pc = "ready", !.last = client[c].new,
                                             !.new = 0, !.sent = sent]
      <4>1. sent \in [Event -> Nat]
        <5>1. ASSUME NEW n \in 1..MaxAdded
              PROVE  client[c].sent[n] + (IF n \in Unsent(c) THEN 1 ELSE 0) \in Nat
          <6> DEFINE more == IF n \in Unsent(c) THEN 1 ELSE 0
          <6>1. more \in Nat
            OBVIOUS
          <6>2. client[c].sent[n] \in Nat
            BY DEF ClientRecord, Event
          <6> HIDE DEF more
          <6> QED
            BY <6>1, <6>2 DEF more
        <5> QED
          BY <5>1 DEF Event
      <4> HIDE DEF sent
      <4>2. record \in ClientRecord
        <5> "ready" \in ClientPc /\ client[c].new \in Int /\ 0 \in Int
          BY DEF ClientRecord
        <5>1. [client[c] EXCEPT !.pc = "ready"] \in ClientRecord
          BY ClientField, <4>1
        <5>2. [client[c] EXCEPT !.pc = "ready", !.last = client[c].new] \in ClientRecord
          BY ClientField, <4>1, <5>1
        <5>3. [client[c] EXCEPT !.pc = "ready", !.last = client[c].new, !.new = 0]
                \in ClientRecord
          BY ClientField, <4>1, <5>2
        <5> QED
          BY ClientField, <4>1, <5>3
      <4>3. client' = [client EXCEPT ![c] = record]
        BY <3>4 DEF SendsEvents, sent
      <4> QED
        BY <4>2, <4>3
    <3>5. CASE Disconnects(c)
      <4>1. [n \in 1..MaxAdded |-> 0] \in [Event -> Nat]
        BY DEF Event
      <4>2. NoClient \in ClientRecord
        BY <4>1 DEF NoClient, ClientRecord
      <4> QED
        BY <3>5, <4>2 DEF Disconnects
    <3> QED
      BY <1>7, <3>1, <3>2, <3>3, <3>4, <3>5 DEF ClientNext
  <2> QED
    BY <2>1, <2>2
<1>8. CASE Restarts
  BY <1>8 DEF Restarts, NoAdder, NoClient, AdderPc, ClientPc, ClientRecord, Event
<1>9. CASE UNCHANGED streamVars
  BY <1>9 DEF streamVars
<1> QED
  BY <1>1, <1>2, <1>3, <1>4, <1>5, <1>6, <1>7, <1>8, <1>9 DEF StreamStep, AdderNext

\* While clients follow the list, nobody begins to trim it.
LEMMA FollowsStep ==
    ASSUME StreamInv, StreamStep
    PROVE  \A c \in Client : Follows(c)'
<1> SUFFICES ASSUME NEW c \in Client,
                    client'[c].pc \in {"ready", "send"}, c \notin raced'
             PROVE  /\ ~Trimming'
                    /\ client'[c].last <= Count'
                    /\ client'[c].pc = "send" => client'[c].new <= Count'
  BY DEF Follows
<1> USE DEF StreamInv, StreamTypes, AdderRecord, ClientRecord, Follows
<1>1. ASSUME NEW a \in Adder, Adds(a)
      PROVE  /\ ~Trimming'
             /\ client'[c].last <= Count'
             /\ client'[c].pc = "send" => client'[c].new <= Count'
  <2>1. Len(events') = Len(events) + 1 /\ offset' = offset /\ client' = client /\ raced' = raced
    BY <1>1 DEF Adds
  <2>2. ~Trimming => ~Trimming'
    BY <1>1 DEF Adds, Trimming
  <2> QED
    BY <2>1, <2>2 DEF Count
<1>2. ASSUME NEW a \in Adder, AdderNext(a)
      PROVE  /\ ~Trimming'
             /\ client'[c].last <= Count'
             /\ client'[c].pc = "send" => client'[c].new <= Count'
  <2>1. client' = client /\ raced' = raced
    BY <1>2 DEF AdderNext, TrimChecks, TrimCounts, TrimSlices, TrimAssigns
  <2>2. ~Trimming /\ Clients # {}
    BY <2>1 DEF Clients
  <2>3. TrimChecks(a)
    BY <1>2, <2>2 DEF AdderNext, Trimming, TrimCounts, TrimSlices, TrimAssigns
  <2>4. events' = events /\ offset' = offset /\ ~Trimming'
    BY <2>2, <2>3 DEF TrimChecks, Trimming
  <2> QED
    BY <2>1, <2>4 DEF Count
<1>3. ASSUME NEW a \in Adder, AddEnds(a)
      PROVE  /\ ~Trimming'
             /\ client'[c].last <= Count'
             /\ client'[c].pc = "send" => client'[c].new <= Count'
  <2>1. client' = client /\ raced' = raced /\ events' = events /\ offset' = offset
    BY <1>3 DEF AddEnds
  <2>2. ~Trimming => ~Trimming'
    BY <1>3 DEF AddEnds, Trimming, NoAdder
  <2> QED
    BY <2>1, <2>2 DEF Count
<1>4. ASSUME NEW d \in Client, ClientNext(d)
      PROVE  /\ ~Trimming'
             /\ client'[c].last <= Count'
             /\ client'[c].pc = "send" => client'[c].new <= Count'
  <2>1. UNCHANGED <<events, offset, added, adder>>
    BY <1>4 DEF ClientNext, Connects, TakesIndex, ChecksCount, SendsEvents, Disconnects
  <2>2. Count' = Count /\ Trimming' = Trimming
    BY <2>1 DEF Count, Trimming
  <2>3. CASE d # c
    <3>1. client'[c] = client[c] /\ (c \in raced <=> c \in raced')
      BY <1>4, <2>3
      DEF ClientNext, Connects, TakesIndex, ChecksCount, SendsEvents, Disconnects
    <3> QED
      BY <2>2, <3>1
  <2>4. CASE d = c
    <3>1. CASE TakesIndex(c)
      BY <2>2, <3>1 DEF TakesIndex, Count
    <3>2. CASE ChecksCount(c)
      BY <2>2, <3>2 DEF ChecksCount, Count
    <3>3. CASE SendsEvents(c)
      BY <2>2, <3>3 DEF SendsEvents
    <3> QED
      BY <1>4, <2>4, <3>1, <3>2, <3>3 DEF ClientNext, Connects, Disconnects, NoClient
  <2> QED
    BY <2>3, <2>4
<1>5. ~Restarts
  BY DEF Restarts, NoClient
<1>6. CASE UNCHANGED streamVars
  BY <1>6 DEF streamVars, Trimming, Count
<1> QED
  BY <1>1, <1>2, <1>3, <1>4, <1>5, <1>6 DEF StreamStep

\* What can happen to a client that follows: an event is added, it acts itself, or
\* neither the list nor the client changes.
LEMMA FollowerSteps ==
    ASSUME StreamInv, StreamStep, NEW c \in Client,
           client'[c].pc \in {"ready", "send"}, c \notin raced'
    PROVE  \/ /\ \E a \in Adder : Adds(a)
              /\ client' = client /\ c \notin raced
           \/ /\ UNCHANGED <<events, offset, added>>
              /\ client'[c] = client[c] /\ c \notin raced
           \/ TakesIndex(c)
           \/ (ChecksCount(c) \/ SendsEvents(c)) /\ c \notin raced
<1> USE DEF StreamInv
<1>1. CASE \E a \in Adder : Adds(a)
  BY <1>1 DEF Adds
<1>2. ASSUME NEW a \in Adder, AdderNext(a)
      PROVE  /\ UNCHANGED <<events, offset, added>>
             /\ client'[c] = client[c] /\ c \notin raced
  <2>1. client' = client /\ raced' = raced /\ added' = added
    BY <1>2 DEF AdderNext, TrimChecks, TrimCounts, TrimSlices, TrimAssigns
  <2>2. ~Trimming
    BY <2>1 DEF Follows
  <2>3. TrimChecks(a)
    BY <1>2, <2>2 DEF AdderNext, Trimming, TrimCounts, TrimSlices, TrimAssigns
  <2> QED
    BY <2>1, <2>3 DEF TrimChecks
<1>3. ASSUME NEW a \in Adder, AddEnds(a)
      PROVE  /\ UNCHANGED <<events, offset, added>>
             /\ client'[c] = client[c] /\ c \notin raced
  BY <1>3 DEF AddEnds
<1>4. ASSUME NEW d \in Client, ClientNext(d), d # c
      PROVE  /\ UNCHANGED <<events, offset, added>>
             /\ client'[c] = client[c] /\ c \notin raced
  BY <1>4 DEF ClientNext, Connects, TakesIndex, ChecksCount, SendsEvents,
              Disconnects, StreamTypes
<1>5. CASE ClientNext(c)
  <2>1. ~Connects(c) /\ ~Disconnects(c)
    BY DEF Connects, Disconnects, NoClient, StreamTypes, ClientRecord
  <2>2. TakesIndex(c) \/ ChecksCount(c) \/ SendsEvents(c)
    BY <1>5, <2>1 DEF ClientNext
  <2> QED
    BY <2>2 DEF ChecksCount, SendsEvents
<1>6. ~Restarts
  BY DEF Restarts, NoClient
<1>7. CASE UNCHANGED streamVars
  BY <1>7 DEF streamVars
<1> QED
  BY <1>1, <1>2, <1>3, <1>4, <1>5, <1>6, <1>7 DEF StreamStep

\* An event that is added becomes the last one, and those that were due stay where
\* they are.
LEMMA HasDueStep ==
    ASSUME StreamInv, StreamStep
    PROVE  \A c \in Client : HasDue(c)'
<1> SUFFICES ASSUME NEW c \in Client,
                    client'[c].pc \in {"ready", "send"}, c \notin raced'
             PROVE  /\ client'[c].from <= added'
                    /\ added' - client'[c].from <= Len(events')
                    /\ \A n \in client'[c].from + 1 .. added' :
                          events'[Len(events') - (added' - n)] = n
  BY DEF HasDue
<1> USE DEF StreamInv, StreamTypes
<1>0. client[c].from \in Nat
  BY DEF ClientRecord
<1>1. ASSUME NEW a \in Adder, Adds(a), client' = client, c \notin raced
      PROVE  /\ client'[c].from <= added'
             /\ added' - client'[c].from <= Len(events')
             /\ \A n \in client'[c].from + 1 .. added' :
                   events'[Len(events') - (added' - n)] = n
  <2>1. events' = Append(events, added + 1) /\ added' = added + 1
    BY <1>1 DEF Adds
  <2>2. /\ Len(events') = Len(events) + 1
        /\ \A i \in 1 .. Len(events) : events'[i] = events[i]
        /\ events'[Len(events) + 1] = added + 1
    BY <2>1, AppendProperties
  <2>3. /\ client[c].from <= added
        /\ added - client[c].from <= Len(events)
        /\ \A n \in client[c].from + 1 .. added :
              events[Len(events) - (added - n)] = n
    BY <1>1 DEF HasDue
  <2>4. ASSUME NEW n \in client[c].from + 1 .. added + 1
        PROVE  events'[Len(events') - (added' - n)] = n
    <3>1. CASE n = added + 1
      BY <2>1, <2>2, <3>1
    <3>2. CASE n # added + 1
      <4>1. n \in client[c].from + 1 .. added
        BY <1>0, <3>2
      <4>2. Len(events) - (added - n) \in 1 .. Len(events)
        BY <1>0, <2>3, <4>1
      <4>3. Len(events') - (added' - n) = Len(events) - (added - n)
        BY <2>1, <2>2, <4>1
      <4> QED
        BY <2>2, <2>3, <4>1, <4>2, <4>3
    <3> QED
      BY <3>1, <3>2
  <2>5. client'[c].from = client[c].from
    BY <1>1
  <2>6. client[c].from <= added' /\ added' - client[c].from <= Len(events')
    BY <1>0, <2>1, <2>2, <2>3
  <2>7. \A n \in client[c].from + 1 .. added' : events'[Len(events') - (added' - n)] = n
    BY <2>1, <2>4
  <2> QED
    BY <2>5, <2>6, <2>7
<1>2. ASSUME UNCHANGED <<events, offset, added>>, client'[c].from = client[c].from,
             client[c].pc \in {"ready", "send"}, c \notin raced
      PROVE  /\ client'[c].from <= added'
             /\ added' - client'[c].from <= Len(events')
             /\ \A n \in client'[c].from + 1 .. added' :
                   events'[Len(events') - (added' - n)] = n
  BY <1>2 DEF HasDue
<1>3. ASSUME TakesIndex(c)
      PROVE  /\ client'[c].from <= added'
             /\ added' - client'[c].from <= Len(events')
             /\ \A n \in client'[c].from + 1 .. added' :
                   events'[Len(events') - (added' - n)] = n
  <2>1. client'[c].from = added /\ added' = added /\ events' = events
    BY <1>3 DEF TakesIndex, ClientRecord
  <2> QED
    BY <2>1
<1>4. ASSUME ChecksCount(c) \/ SendsEvents(c), c \notin raced
      PROVE  /\ UNCHANGED <<events, offset, added>>
             /\ client'[c].from = client[c].from
             /\ client[c].pc \in {"ready", "send"}
  BY <1>4 DEF ChecksCount, SendsEvents, ClientRecord
<1> QED
  BY FollowerSteps, <1>1, <1>2, <1>3, <1>4

\* The index of an event, counted from the end, stays when one is appended.
LEMMA SameIndex ==
    ASSUME NEW o \in Int, NEW l \in Nat, NEW a \in Nat, NEW n \in Int
    PROVE  o + (l + 1) - ((a + 1) - n) = o + l - (a - n)
  OBVIOUS

\* The last index moves only when everything behind it was sent.
LEMMA SentOrBehindStep ==
    ASSUME StreamInv, StreamStep
    PROVE  \A c \in Client : SentOrBehind(c)'
<1> SUFFICES ASSUME NEW c \in Client,
                    client'[c].pc \in {"ready", "send"}, c \notin raced',
                    NEW n \in client'[c].from + 1 .. added'
             PROVE  \/ client'[c].sent[n] > 0
                    \/ offset' + Len(events') - (added' - n) > client'[c].last
  BY DEF SentOrBehind
<1> DEFINE Goal == \/ client'[c].sent[n] > 0
                   \/ offset' + Len(events') - (added' - n) > client'[c].last
<1> USE DEF StreamInv, StreamTypes
<1>0. /\ client[c].from \in Nat /\ client[c].last \in Int
      /\ client[c].sent \in [Event -> Nat]
  BY DEF ClientRecord
<1>1. ASSUME NEW a \in Adder, Adds(a), client' = client, c \notin raced
      PROVE  Goal
  <2>1. added' = added + 1 /\ Len(events') = Len(events) + 1 /\ offset' = offset
    BY <1>1, AppendProperties DEF Adds
  <2>2. CASE n = added + 1
    <3>1. client[c].last <= offset + Len(events)
      BY <1>1 DEF Follows, Count
    <3>2. added \in Nat /\ offset \in Int /\ Len(events) \in Nat
      OBVIOUS
    <3>3. offset' + Len(events') - (added' - n) = offset + (Len(events) + 1)
      BY <2>1, <2>2, <3>2
    <3>4. offset + (Len(events) + 1) > client[c].last
      BY <1>0, <3>1, <3>2
    <3> QED
      BY <1>1, <3>3, <3>4
  <2>3. CASE n # added + 1
    <3>1. client[c].pc \in {"ready", "send"} /\ n \in client[c].from + 1 .. added
      BY <1>0, <1>1, <2>1, <2>3
    <3>2. \/ client[c].sent[n] > 0
          \/ offset + Len(events) - (added - n) > client[c].last
      BY <1>1, <3>1 DEF SentOrBehind
    <3>3. Len(events) \in Nat /\ offset \in Int /\ added \in Nat /\ n \in Int
      BY <3>1, <1>0
    <3>4. offset' + Len(events') - (added' - n)
            = offset + (Len(events) + 1) - ((added + 1) - n)
      BY ONLY <2>1
    <3>5. offset + (Len(events) + 1) - ((added + 1) - n)
            = offset + Len(events) - (added - n)
      BY ONLY <3>3, SameIndex
    <3> QED
      BY <1>1, <3>2, <3>4, <3>5
  <2> QED
    BY <2>2, <2>3
<1>2. ASSUME UNCHANGED <<events, offset, added>>, client'[c] = client[c],
             c \notin raced
      PROVE  Goal
  BY <1>2 DEF SentOrBehind
<1>3. ~TakesIndex(c)
  <2> SUFFICES ASSUME TakesIndex(c) PROVE FALSE
    OBVIOUS
  <2>1. client'[c].from = added /\ added' = added
    BY DEF TakesIndex, ClientRecord
  <2> QED
    BY <2>1
<1>4. ASSUME ChecksCount(c), c \notin raced
      PROVE  Goal
  <2>1. /\ UNCHANGED <<events, offset, added>>
        /\ client'[c].from = client[c].from /\ client'[c].last = client[c].last
        /\ client'[c].sent = client[c].sent /\ client[c].pc = "ready"
    BY <1>4 DEF ChecksCount, ClientRecord
  <2> QED
    BY <1>4, <2>1 DEF SentOrBehind
<1>5. ASSUME SendsEvents(c), c \notin raced
      PROVE  Goal
  <2>1. /\ UNCHANGED <<events, offset, added>> /\ client[c].pc = "send"
        /\ client'[c].from = client[c].from
        /\ client'[c].sent = [m \in 1..MaxAdded |->
             client[c].sent[m] + IF m \in Unsent(c) THEN 1 ELSE 0]
    BY <1>5 DEF SendsEvents, ClientRecord
  <2>2. n \in client[c].from + 1 .. added
    BY <2>1
  <2> n \in 1..MaxAdded
    <3> added <= MaxAdded /\ MaxAdded \in Nat
      BY StreamAssumption
    <3> QED
      BY <1>0, <2>2
  <2> DEFINE more == IF n \in Unsent(c) THEN 1 ELSE 0
  <2>8. client'[c].sent[n] = client[c].sent[n] + more
    BY <2>1
  <2>9. more \in Nat /\ client[c].sent[n] \in Nat /\ (n \in Unsent(c) => more = 1)
    BY <1>0 DEF Event
  <2> HIDE DEF more
  <2>3. CASE client[c].sent[n] > 0
    BY <2>8, <2>9, <2>3
  <2>4. CASE offset + Len(events) - (added - n) > client[c].last
    <3> DEFINE i == Len(events) - (added - n)
    <3>1. i \in 1 .. Len(events) /\ events[i] = n
      BY <1>0, <1>5, <2>1, <2>2 DEF HasDue
    <3>2. n \in Unsent(c)
      BY <1>0, <2>2, <2>4, <3>1 DEF Unsent
    <3> QED
      BY <2>8, <2>9, <3>2
  <2> QED
    BY <1>5, <2>1, <2>2, <2>3, <2>4 DEF SentOrBehind
<1> QED
  BY FollowerSteps, <1>1, <1>2, <1>3, <1>4, <1>5

-----------------------------------------------------------------------------
LEMMA StreamInvStep ==
    ASSUME StreamInv, StreamStep
    PROVE  StreamInv'
<1>1. StreamTypes'
  BY StreamTypesStep DEF StreamInv
<1> QED
  BY <1>1, FollowsStep, HasDueStep, SentOrBehindStep DEF StreamInv

\* The invariant says of every event that is due where it is in the list.
LEMMA StreamInvNoGap == StreamInv => StreamHasNoGap
<1> SUFFICES ASSUME StreamInv, NEW c \in Client \ raced, NEW n \in Due(c)
             PROVE  client[c].sent[n] > 0 \/ n \in Unsent(c)
  BY DEF StreamHasNoGap
<1> USE DEF StreamInv, StreamTypes
<1> DEFINE i == Len(events) - (added - n)
<1>1. /\ client[c].from \in Nat /\ client[c].last \in Int
      /\ client[c].pc \in {"ready", "send"} /\ n \in client[c].from + 1 .. added
  BY DEF Due, ClientRecord, ClientPc
<1>2. i \in 1 .. Len(events) /\ events[i] = n
  BY <1>1 DEF HasDue
<1>3. client[c].sent[n] > 0 \/ offset + i > client[c].last
  BY <1>1 DEF SentOrBehind
<1> QED
  BY <1>1, <1>2, <1>3 DEF Unsent

-----------------------------------------------------------------------------
(* No event reaches a client a third time.                                 *)

\* The absolute index of event n, for a client that follows the list.
Index(n) == Count - (added - n)

\* A client without an index was sent nothing.
NothingSent(c) ==
    client[c].pc \in {"idle", "connected"} => \A n \in Event : client[c].sent[n] = 0

\* What was added before its index lies behind it.
StartsBehind(c) ==
    client[c].pc \in {"ready", "send"} /\ c \notin raced =>
        /\ Index(client[c].from) <= client[c].last
        /\ client[c].pc = "send" => client[c].last <= client[c].new

\* An event that lies ahead of the index was sent once at most, and not at all if it
\* also lies ahead of the index that the client is about to take.
SentOnceAhead(c) ==
    client[c].pc \in {"ready", "send"} /\ c \notin raced =>
        \A n \in Event :
            IF n \in client[c].from + 1 .. added
            THEN /\ client[c].sent[n] <= IF Index(n) > client[c].last THEN 1 ELSE 2
                 /\ client[c].pc = "send" /\ Index(n) > client[c].new =>
                        client[c].sent[n] = 0
            ELSE client[c].sent[n] = 0

SentInv ==
    /\ StreamInv
    /\ raced \subseteq Client
    /\ \A c \in Client : NothingSent(c) /\ StartsBehind(c) /\ SentOnceAhead(c)

LEMMA SentInitInv == StreamInit => SentInv
<1> SUFFICES ASSUME StreamInit PROVE SentInv
  OBVIOUS
<1>1. \A c \in Client : client[c].pc = "idle" /\ \A n \in Event : client[c].sent[n] = 0
  BY DEF StreamInit, NoClient, Event
<1>2. raced \subseteq Client
  BY DEF StreamInit
<1> QED
  BY <1>1, <1>2, StreamInitInv DEF SentInv, NothingSent, StartsBehind, SentOnceAhead

LEMMA NothingSentStep ==
    ASSUME SentInv, StreamStep, NEW c \in Client, NEW n \in Event,
           client'[c].pc \in {"idle", "connected"}
    PROVE  client'[c].sent[n] = 0
<1> USE DEF SentInv, StreamInv, StreamTypes
<1>1. CASE client'[c] = client[c]
  BY <1>1 DEF NothingSent
<1>2. CASE client'[c] = NoClient
  BY <1>2 DEF NoClient, Event
<1>3. ASSUME NEW a \in Adder, Adds(a) \/ AdderNext(a) \/ AddEnds(a)
      PROVE  client'[c] = client[c]
  BY <1>3
  DEF Adds, AdderNext, TrimChecks, TrimCounts, TrimSlices, TrimAssigns, AddEnds
<1>4. ASSUME NEW d \in Client, ClientNext(d), d # c
      PROVE  client'[c] = client[c]
  BY <1>4
  DEF ClientNext, Connects, TakesIndex, ChecksCount, SendsEvents, Disconnects
<1>5. CASE ClientNext(c)
  <2>1. CASE Connects(c)
    BY <2>1 DEF Connects, NothingSent, ClientRecord
  <2>2. CASE Disconnects(c)
    BY <2>2, <1>2 DEF Disconnects
  <2>3. CASE TakesIndex(c) \/ ChecksCount(c) \/ SendsEvents(c)
    BY <2>3 DEF TakesIndex, ChecksCount, SendsEvents, ClientRecord
  <2> QED
    BY <1>5, <2>1, <2>2, <2>3 DEF ClientNext
<1>6. CASE Restarts
  BY <1>6, <1>2 DEF Restarts
<1>7. CASE UNCHANGED streamVars
  BY <1>7, <1>1 DEF streamVars
<1> QED
  BY <1>1, <1>3, <1>4, <1>5, <1>6, <1>7 DEF StreamStep

LEMMA RacedStep ==
    ASSUME raced \subseteq Client, StreamStep
    PROVE  raced' \subseteq Client
<1>1. ASSUME NEW a \in Adder, Adds(a) \/ AdderNext(a) \/ AddEnds(a)
      PROVE  raced' = raced
  BY <1>1
  DEF Adds, AdderNext, TrimChecks, TrimCounts, TrimSlices, TrimAssigns, AddEnds
<1>2. ASSUME NEW c \in Client, ClientNext(c)
      PROVE  raced' \subseteq raced \cup {c}
  BY <1>2
  DEF ClientNext, Connects, TakesIndex, ChecksCount, SendsEvents, Disconnects
<1>3. CASE Restarts
  BY <1>3 DEF Restarts
<1>4. CASE UNCHANGED streamVars
  BY <1>4 DEF streamVars
<1> QED
  BY <1>1, <1>2, <1>3, <1>4 DEF StreamStep

\* What SendsEvents sends was added since the client took its index, and lies ahead
\* of it.
LEMMA UnsentIsAhead ==
    ASSUME SentInv, NEW c \in Client, client[c].pc = "send", c \notin raced,
           NEW n \in Unsent(c)
    PROVE  n \in client[c].from + 1 .. added /\ Index(n) > client[c].last
<1> USE DEF SentInv, StreamInv, StreamTypes
<1>1. PICK i \in DOMAIN events : events[i] = n /\ offset + i > client[c].last
  BY DEF Unsent
<1> DEFINE from == client[c].from
           last == client[c].last
           m == i - Len(events) + added
<1>2. /\ from \in Nat /\ last \in Int /\ offset \in Int /\ added \in Nat
      /\ Len(events) \in Nat /\ i \in 1 .. Len(events)
  BY DEF ClientRecord
<1>3. offset + Len(events) - (added - from) <= last
  <2>1. client[c].pc \in {"ready", "send"}
    OBVIOUS
  <2>2. StartsBehind(c)
    OBVIOUS
  <2>3. Index(from) <= last
    BY <2>1, <2>2 DEF StartsBehind
  <2>4. Index(from) = offset + Len(events) - (added - from)
    BY <1>2 DEF Index, Count
  <2> QED
    BY <2>3, <2>4
<1>4. \A k \in from + 1 .. added : events[Len(events) - (added - k)] = k
  BY DEF HasDue
<1>5. offset + i > last /\ events[i] = n
  BY <1>1
<1> HIDE DEF from, last
<1>6. m \in from + 1 .. added /\ Len(events) - (added - m) = i
  <2>1. offset + Len(events) - (added - from) < offset + i
    BY <1>2, <1>3, <1>5
  <2>2. from < m /\ m <= added /\ m \in Int
    BY <1>2, <2>1
  <2> QED
    BY <1>2, <2>2
<1>7. events[Len(events) - (added - m)] = m
  BY <1>4, <1>6
<1>8. n = m
  BY <1>5, <1>6, <1>7
<1>9. offset + Len(events) - (added - n) > last
  BY <1>2, <1>5, <1>6, <1>8
<1> QED
  BY <1>6, <1>8, <1>9 DEF Index, Count, from, last

\* The index of an event stays when another one is appended.
LEMMA IndexStays ==
    ASSUME StreamTypes, NEW a \in Adder, Adds(a), NEW n \in Int
    PROVE  Index(n)' = Index(n) /\ Count' = Count + 1
<1>1. added' = added + 1 /\ offset' = offset /\ Len(events') = Len(events) + 1
  BY AppendProperties DEF Adds, StreamTypes
<1>2. offset \in Int /\ Len(events) \in Nat /\ added \in Nat
  BY DEF StreamTypes
<1> QED
  BY <1>1, <1>2 DEF Index, Count

LEMMA StartsBehindStep ==
    ASSUME SentInv, StreamStep, NEW c \in Client,
           client'[c].pc \in {"ready", "send"}, c \notin raced'
    PROVE  /\ Index(client[c].from)' <= client'[c].last
           /\ client'[c].pc = "send" => client'[c].last <= client'[c].new
<1> USE DEF SentInv, StreamInv, StreamTypes
<1>0. /\ client[c].from \in Nat /\ client[c].last \in Int /\ client[c].new \in Int
      /\ Count \in Int /\ added \in Nat
  BY DEF ClientRecord, Count
<1>1. ASSUME NEW a \in Adder, Adds(a), client' = client, c \notin raced
      PROVE  Index(client[c].from)' = Index(client[c].from)
  <2>1. PICK f \in Int : f = client[c].from
    BY <1>0
  <2>2. StreamTypes /\ client'[c].from = f
    BY <1>1, <2>1
  <2> HIDE DEF SentInv, StreamInv, StreamTypes
  <2>3. Index(f)' = Index(f)
    BY <1>1, <2>2, IndexStays
  <2> QED
    BY <2>1, <2>2, <2>3 DEF Index
<1>2. ASSUME UNCHANGED <<events, offset, added>>, client'[c].from = client[c].from
      PROVE  Index(client[c].from)' = Index(client[c].from)
  BY <1>2 DEF Index, Count
<1>3. CASE TakesIndex(c)
  <2>1. /\ UNCHANGED <<events, offset, added>> /\ client'[c].pc = "ready"
        /\ client'[c].from = added /\ client'[c].last = Count
    BY <1>3 DEF TakesIndex, ClientRecord
  <2>2. Index(client[c].from)' = Count - (added - added)
    BY <2>1 DEF Index, Count
  <2> QED
    BY <1>0, <2>1, <2>2
<1>4. CASE ChecksCount(c) /\ c \notin raced
  <2>1. /\ UNCHANGED <<events, offset, added>> /\ client'[c].from = client[c].from
        /\ client'[c].last = client[c].last /\ client'[c].new = Count
        /\ client[c].pc = "ready" /\ client[c].last < Count
    BY <1>4 DEF ChecksCount, ClientRecord
  <2> QED
    BY <1>0, <1>2, <1>4, <2>1 DEF StartsBehind
<1>5. CASE SendsEvents(c) /\ c \notin raced
  <2>1. /\ UNCHANGED <<events, offset, added>> /\ client'[c].from = client[c].from
        /\ client'[c].last = client[c].new /\ client'[c].pc = "ready"
        /\ client[c].pc = "send"
    BY <1>5 DEF SendsEvents, ClientRecord
  <2>2. Index(client[c].from) <= client[c].last /\ client[c].last <= client[c].new
    BY <1>5, <2>1 DEF StartsBehind
  <2> QED
    BY <1>0, <1>2, <2>1, <2>2 DEF Index
<1>6. CASE client'[c] = client[c] /\ c \notin raced
           /\ Index(client[c].from)' = Index(client[c].from)
  BY <1>6 DEF StartsBehind
<1> QED
  BY FollowerSteps, <1>1, <1>2, <1>3, <1>4, <1>5, <1>6

\* Every send moves the index behind what was due before, so that only an event that
\* came between the two reads is sent again, and that once.
LEMMA SentOnceAheadStep ==
    ASSUME SentInv, StreamStep, NEW c \in Client, NEW n \in Event,
           client'[c].pc \in {"ready", "send"}, c \notin raced'
    PROVE  IF n \in client'[c].from + 1 .. added'
           THEN /\ client'[c].sent[n] <= IF Index(n)' > client'[c].last THEN 1 ELSE 2
                /\ client'[c].pc = "send" /\ Index(n)' > client'[c].new =>
                      client'[c].sent[n] = 0
           ELSE client'[c].sent[n] = 0
<1> DEFINE Goal == IF n \in client'[c].from + 1 .. added'
                   THEN /\ client'[c].sent[n] <=
                              IF Index(n)' > client'[c].last THEN 1 ELSE 2
                        /\ client'[c].pc = "send" /\ Index(n)' > client'[c].new =>
                              client'[c].sent[n] = 0
                   ELSE client'[c].sent[n] = 0
<1> USE DEF SentInv, StreamInv, StreamTypes
<1>0. /\ client[c].from \in Nat /\ client[c].last \in Int /\ client[c].new \in Int
      /\ Count \in Int /\ added \in Nat /\ n \in Int /\ Index(n) \in Int
      /\ client[c].sent[n] \in Nat
  <2>1. client[c] \in ClientRecord
    OBVIOUS
  <2>2. client[c].sent[n] \in Nat
    BY <2>1 DEF ClientRecord
  <2>3. client[c].from \in Nat /\ client[c].last \in Int /\ client[c].new \in Int
    BY <2>1 DEF ClientRecord
  <2>4. Count \in Int /\ added \in Nat /\ n \in Int
    BY DEF Count, Event
  <2> QED
    BY <2>2, <2>3, <2>4 DEF Index
<1>1. ASSUME NEW a \in Adder, Adds(a), client' = client, c \notin raced
      PROVE  Goal
  <2>1. Index(n)' = Index(n) /\ added' = added + 1
    BY <1>0, <1>1, IndexStays DEF Adds
  <2>2. CASE n = added + 1
    <3>1. client[c].sent[n] = 0
      BY <1>0, <1>1, <2>2 DEF SentOnceAhead
    <3> QED
      BY <1>1, <3>1
  <2>3. CASE n # added + 1
    <3>1. n \in client[c].from + 1 .. added <=> n \in client[c].from + 1 .. added'
      BY <1>0, <2>1, <2>3
    <3> QED
      BY <1>1, <2>1, <3>1 DEF SentOnceAhead
  <2> QED
    BY <2>2, <2>3
<1>2. ASSUME UNCHANGED <<events, offset, added>>
      PROVE  Index(n)' = Index(n)
  BY <1>2 DEF Index, Count
<1>3. CASE /\ UNCHANGED <<events, offset, added>>
           /\ client'[c] = client[c] /\ c \notin raced
  BY <1>2, <1>3 DEF SentOnceAhead
<1>4. CASE TakesIndex(c)
  <2>1. /\ added' = added /\ client'[c].from = added
        /\ client'[c].sent = client[c].sent /\ client[c].pc = "connected"
    BY <1>4 DEF TakesIndex, ClientRecord
  <2>2. client[c].sent[n] = 0 /\ n \notin added + 1 .. added
    BY <1>0, <2>1 DEF NothingSent
  <2> QED
    BY <2>1, <2>2
<1>5. CASE ChecksCount(c) /\ c \notin raced
  <2>1. /\ UNCHANGED <<events, offset, added>> /\ client'[c].from = client[c].from
        /\ client'[c].last = client[c].last /\ client'[c].new = Count
        /\ client'[c].sent = client[c].sent /\ client[c].pc = "ready"
    BY <1>5 DEF ChecksCount, ClientRecord
  <2>2. n \in client[c].from + 1 .. added => ~ (Index(n)' > Count)
    BY <1>0, <1>2, <2>1 DEF Index
  <2> QED
    BY <1>2, <1>5, <2>1, <2>2 DEF SentOnceAhead
<1>6. CASE SendsEvents(c) /\ c \notin raced
  <2> DEFINE more == IF n \in Unsent(c) THEN 1 ELSE 0
  <2>1. /\ UNCHANGED <<events, offset, added>> /\ client'[c].from = client[c].from
        /\ client'[c].last = client[c].new /\ client'[c].pc = "ready"
        /\ client[c].pc = "send"
    BY <1>6 DEF SendsEvents, ClientRecord
  <2>2. client'[c].sent[n] = client[c].sent[n] + more
    BY <1>6 DEF SendsEvents, ClientRecord, Event
  <2>3. /\ more \in 0..1
        /\ more = 1 => n \in client[c].from + 1 .. added /\ Index(n) > client[c].last
    BY <1>6, <2>1, UnsentIsAhead
  <2> HIDE DEF more
  <2>4. CASE n \notin client[c].from + 1 .. added
    <3>1. client[c].sent[n] = 0
      BY <1>6, <2>1, <2>4 DEF SentOnceAhead
    <3> QED
      BY <2>1, <2>2, <2>3, <2>4, <3>1
  <2>5. CASE n \in client[c].from + 1 .. added
    <3>1. /\ client[c].sent[n] <= IF Index(n) > client[c].last THEN 1 ELSE 2
          /\ Index(n) > client[c].new => client[c].sent[n] = 0
      BY <1>6, <2>1, <2>5 DEF SentOnceAhead
    <3>2. client[c].last <= client[c].new
      BY <1>6, <2>1 DEF StartsBehind
    <3>3. client'[c].sent[n] <= IF Index(n) > client[c].new THEN 1 ELSE 2
      BY <1>0, <2>2, <2>3, <3>1, <3>2
    <3> QED
      BY <1>2, <2>1, <2>5, <3>3
  <2> QED
    BY <2>4, <2>5
<1> QED
  BY FollowerSteps, <1>1, <1>3, <1>4, <1>5, <1>6

LEMMA SentInvStep ==
    ASSUME SentInv, StreamStep
    PROVE  SentInv'
<1>1. StreamInv' /\ raced' \subseteq Client
  BY StreamInvStep, RacedStep DEF SentInv
<1>2. ASSUME NEW c \in Client
      PROVE  NothingSent(c)' /\ StartsBehind(c)' /\ SentOnceAhead(c)'
  <2>1. NothingSent(c)'
    BY NothingSentStep DEF NothingSent
  <2>2. StartsBehind(c)'
    BY StartsBehindStep DEF StartsBehind, Index
  <2>3. SentOnceAhead(c)'
    BY SentOnceAheadStep DEF SentOnceAhead, Index
  <2> QED
    BY <2>1, <2>2, <2>3
<1> QED
  BY <1>1, <1>2 DEF SentInv

LEMMA SentInvTypeOK == SentInv => StreamTypeOK
<1> SUFFICES ASSUME SentInv PROVE StreamTypeOK
  OBVIOUS
<1> USE DEF SentInv, StreamInv, StreamTypes
<1>1. ASSUME NEW c \in Client \ raced, NEW n \in 1..MaxAdded
      PROVE  client[c].sent[n] <= 2
  <2>1. client[c].sent[n] \in Nat /\ client[c].pc \in ClientPc
    BY DEF ClientRecord, Event
  <2>2. CASE client[c].pc \in {"idle", "connected"}
    BY <2>2 DEF NothingSent, Event
  <2>3. CASE client[c].pc \in {"ready", "send"}
    <3>1. \/ client[c].sent[n] <= IF Index(n) > client[c].last THEN 1 ELSE 2
          \/ client[c].sent[n] = 0
      BY <2>3 DEF SentOnceAhead, Event
    <3> QED
      BY <2>1, <3>1
  <2> QED
    BY <2>1, <2>2, <2>3 DEF ClientPc
<1>2. SentAtMostTwice
  BY <1>1 DEF SentAtMostTwice
<1> QED
  BY <1>2 DEF StreamTypeOK, AdderRecord, ClientRecord, Event

=============================================================================
