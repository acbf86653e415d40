----------------------------- MODULE EventStream -----------------------------
(***************************************************************************)
(* The events of one thread: RuntimeEventRecorder stamps them,             *)
(* InMemoryEventBus fans them out, FileSessionStore keeps them in a JSONL  *)
(* file, and the event route replays the file to a client and then follows *)
(* the bus.                                                                *)
(*                                                                         *)
(* One step is what runs between two awaits. record allocates a seq, then  *)
(* waits for the highest seq of the file, then publishes and starts to     *)
(* append; a usage event may have the file compacted, which reads it whole *)
(* and writes it back. The counter and the bus are lost by a restart, the  *)
(* file is not. A client reconnects with the id it saw last.               *)
(*                                                                         *)
(* HighestIgnored, BacklogAfterGap and CompactedToUsage are ways to get    *)
(* the next definition wrong.                                              *)
(***************************************************************************)
EXTENDS Naturals, FiniteSets, SequencesExt

CONSTANTS
  Recorder,     \* concurrent calls of record and recordOnce
  Client,       \* readers of the event stream
  Key,          \* what recordOnce matches events by
  Plain,        \* the keys of the events that record records, NoKey and Usage
  NoKey, Usage, \* the key of an event that has none, and of a usage event
  MaxEvents,    \* bound: calls of record and recordOnce
  MaxRestarts,  \* bound: restarts of the server
  MaxBeats,     \* bound: heartbeats
  MaxFile       \* the length beyond which a usage event has the file compacted

ASSUME EventStreamAssumption ==
  /\ NoKey \notin Key /\ Usage \notin Key /\ NoKey # Usage /\ Plain \subseteq {NoKey, Usage}
  /\ MaxEvents \in Nat /\ MaxRestarts \in Nat /\ MaxBeats \in Nat /\ MaxFile \in Nat

Event == [id : 1 .. MaxEvents, seq : Nat \ {0}, key : Key \cup {NoKey, Usage}]

VARIABLES
  nextSeq,   \* the counter of the bus, 0 before its first use
  published, \* the events of the bus
  file,      \* events.jsonl
  call,      \* the calls of the recorders
  client,    \* the streams of the clients
  got,       \* the events each client has been sent
  issued, life, beats,
  raced,     \* history: events appended while a compaction was under way
  together   \* history: pairs of events of which one was begun before the other was written

vars == <<nextSeq, published, file, call, client, got, issued, life, beats, raced, together>>

Idle == [pc |-> "idle", id |-> 0, key |-> NoKey, alloc |-> 0, persisted |-> 0, seen |-> <<>>]
Off(lastId) ==
  [pc |-> "off", since |-> lastId, last |-> lastId, backlog |-> {}, read |-> {}, tooLate |-> {}]

Init ==
  /\ nextSeq = 0 /\ published = <<>> /\ file = <<>>
  /\ call = [r \in Recorder |-> Idle]
  /\ client = [c \in Client |-> Off(0)]
  /\ got = [c \in Client |-> {}]
  /\ issued = 0 /\ life = 0 /\ beats = 0 /\ raced = {} /\ together = {}
-----------------------------------------------------------------------------
highestSeq(events) == Max({0} \cup {e.seq : e \in events})

\* The counter starts from the events of the bus, which a restart has emptied.
allocateSeq == (IF nextSeq = 0 THEN highestSeq(ToSet(published)) ELSE nextSeq) + 1

HighestIgnored(r) == call[r].alloc

SeqFor(r) == IF call[r].alloc > call[r].persisted THEN call[r].alloc ELSE call[r].persisted + 1

\* recordOnce finds an event that matches.
IsRecorded(key) == \E i \in 1 .. Len(file) : file[i].key = key

CompactedToUsage(events) == SelectSeq(events, LAMBDA e : e.key = Usage)

\* Of usage of one day and model the last event stays.
Kept(events) ==
  {i \in DOMAIN events :
     events[i].key = Usage => \A j \in i + 1 .. Len(events) : events[j].key # Usage}

\* compactUsageEvents: the events that are kept, in their order.
Compacted(events) ==
  [n \in 1 .. Cardinality(Kept(events)) |->
     events[CHOOSE i \in Kept(events) : Cardinality(Kept(events) \cap 1 .. i) = n]]

BacklogAfterGap(since) == {e \in ToSet(file) : e.seq > since + 1}

\* loadEventsSince, whose order nothing depends on here.
Backlog(since) == {e \in ToSet(file) : e.seq > since}
-----------------------------------------------------------------------------
(***************************************************************************)
(* The recorder.                                                           *)
(***************************************************************************)
Allocated(r, id, key) ==
  [Idle EXCEPT !.pc = "reading", !.id = id, !.key = key, !.alloc = allocateSeq]

Record(r, key) ==
  /\ call[r].pc = "idle" /\ issued < MaxEvents
  /\ issued' = issued + 1
  /\ call' = [call EXCEPT ![r] = Allocated(r, issued + 1, key)]
  /\ nextSeq' = allocateSeq
  /\ UNCHANGED <<published, file, client, got, life, beats, raced, together>>

RecordOnce(r, key) ==
  /\ call[r].pc = "idle" /\ issued < MaxEvents
  /\ issued' = issued + 1
  /\ call' = [call EXCEPT ![r] = [Idle EXCEPT !.pc = "queued", !.id = issued + 1, !.key = key]]
  /\ UNCHANGED <<nextSeq, published, file, client, got, life, beats, raced, together>>

\* The queue of the thread lets one recordOnce through at a time.
FindExisting(r) ==
  /\ call[r].pc = "queued"
  /\ \A q \in Recorder : call[q].key \in Key => call[q].pc = "queued"
  /\ IF IsRecorded(call[r].key)
       THEN call' = [call EXCEPT ![r] = Idle] /\ nextSeq' = nextSeq
       ELSE /\ call' = [call EXCEPT ![r] = Allocated(r, @.id, @.key)]
            /\ nextSeq' = allocateSeq
  /\ UNCHANGED <<published, file, client, got, issued, life, beats, raced, together>>

ReadHighest(r) ==
  /\ call[r].pc = "reading"
  /\ call' = [call EXCEPT ![r].pc = "publish", ![r].persisted = highestSeq(ToSet(file))]
  /\ UNCHANGED <<nextSeq, published, file, client, got, issued, life, beats, raced, together>>

Publish(r) ==
  /\ call[r].pc = "publish"
  /\ LET event == [id |-> call[r].id, seq |-> SeqFor(r), key |-> call[r].key]
         live == {c \in Client : client[c].pc = "live"} IN
       /\ published' = Append(published, event)
       /\ got' = [c \in Client |-> IF c \in live THEN got[c] \cup {event.id} ELSE got[c]]
       /\ client' = [c \in Client |->
                       IF c \in live THEN [client[c] EXCEPT !.last = event.seq] ELSE client[c]]
  /\ call' = [call EXCEPT ![r].pc = "append", ![r].alloc = 0, ![r].persisted = 0]
  /\ UNCHANGED <<nextSeq, file, issued, life, beats, raced, together>>

EventOf(r) == published[CHOOSE i \in DOMAIN published : published[i].id = call[r].id]

AppendEvent(r) ==
  /\ call[r].pc = "append"
  /\ file' = Append(file, EventOf(r))
  /\ raced' = IF \E q \in Recorder : call[q].pc = "rewrite" THEN raced \cup {call[r].id} ELSE raced
  /\ together' = together \cup {{call[r].id, call[q].id} : q \in {p \in Recorder : call[p].pc \notin {"idle", "queued"}}}
  /\ call' = [call EXCEPT ![r] =
                IF @.key = Usage /\ Len(file) >= MaxFile THEN [@ EXCEPT !.pc = "compact"] ELSE Idle]
  /\ UNCHANGED <<nextSeq, published, client, got, issued, life, beats>>

\* compactUsageEventsIfLarge.
ReadForCompaction(r) ==
  /\ call[r].pc = "compact"
  /\ call' = [call EXCEPT ![r].pc = "rewrite", ![r].seen = file]
  /\ UNCHANGED <<nextSeq, published, file, client, got, issued, life, beats, raced, together>>

Rewrite(r) ==
  /\ call[r].pc = "rewrite"
  /\ file' = IF Len(Compacted(call[r].seen)) < Len(call[r].seen)
               THEN Compacted(call[r].seen) ELSE file
  /\ call' = [call EXCEPT ![r] = Idle]
  /\ UNCHANGED <<nextSeq, published, client, got, issued, life, beats, raced, together>>
-----------------------------------------------------------------------------
(***************************************************************************)
(* The event route, its clients, and the server process.                   *)
(***************************************************************************)
\* A client asks for what follows the id it saw last.  What the file held is noted for
\* the property below.
Connect(c) ==
  /\ client[c].pc = "off"
  /\ client' = [client EXCEPT ![c].pc = "replay", ![c].backlog = Backlog(client[c].since),
                  ![c].read = {e.id : e \in ToSet(file)}]
  /\ UNCHANGED <<nextSeq, published, file, call, got, issued, life, beats, raced, together>>

Subscribe(c) ==
  /\ client[c].pc = "replay"
  /\ LET sent == client[c].backlog IN
       /\ got' = [got EXCEPT ![c] = @ \cup {e.id : e \in sent}]
       /\ client' = [client EXCEPT ![c].pc = "live", ![c].backlog = {}, ![c].read = {},
                       ![c].tooLate = {e.id : e \in ToSet(published)} \ client[c].read,
                       ![c].last = IF sent = {} THEN @ ELSE highestSeq(sent)]
  /\ UNCHANGED <<nextSeq, published, file, call, issued, life, beats, raced, together>>

\* A heartbeat takes a seq, and is the last id its client has seen.
Heartbeat(c) ==
  /\ client[c].pc = "live" /\ beats < MaxBeats
  /\ beats' = beats + 1
  /\ nextSeq' = allocateSeq
  /\ client' = [client EXCEPT ![c].last = allocateSeq]
  /\ UNCHANGED <<published, file, call, got, issued, life, raced, together>>

Disconnect(c) ==
  /\ client[c].pc = "live"
  /\ client' = [client EXCEPT ![c] = Off(client[c].last)]
  /\ UNCHANGED <<nextSeq, published, file, call, got, issued, life, beats, raced, together>>

Restart ==
  /\ life < MaxRestarts
  /\ life' = life + 1
  /\ nextSeq' = 0 /\ published' = <<>>
  /\ call' = [r \in Recorder |-> Idle]
  /\ client' = [c \in Client |-> Off(client[c].last)]
  /\ UNCHANGED <<file, got, issued, beats, raced, together>>

Next ==
  \/ \E r \in Recorder :
       \/ \E k \in Plain : Record(r, k)
       \/ \E k \in Key : RecordOnce(r, k)
       \/ FindExisting(r) \/ ReadHighest(r) \/ Publish(r) \/ AppendEvent(r)
       \/ ReadForCompaction(r) \/ Rewrite(r)
  \/ \E c \in Client : Connect(c) \/ Subscribe(c) \/ Heartbeat(c) \/ Disconnect(c)
  \/ Restart

Spec == Init /\ [][Next]_vars
-----------------------------------------------------------------------------
Call == [pc : {"idle", "queued", "reading", "publish", "append", "compact", "rewrite"},
         id : 0 .. MaxEvents, key : Key \cup {NoKey, Usage}, alloc : Nat, persisted : Nat,
         seen : Seq(Event)]
Stream == [pc : {"off", "replay", "live"}, since : Nat, last : Nat, backlog : SUBSET Event,
           read : SUBSET (1 .. MaxEvents), tooLate : SUBSET (1 .. MaxEvents)]

TypeOK ==
  /\ nextSeq \in Nat /\ published \in Seq(Event) /\ file \in Seq(Event)
  /\ call \in [Recorder -> Call] /\ client \in [Client -> Stream]
  /\ got \in [Client -> SUBSET (1 .. MaxEvents)]
  /\ issued \in 0 .. MaxEvents /\ raced \subseteq 1 .. MaxEvents

\* While no event was appended under a compaction, two events of the file share a seq only
\* if one was begun before the other was written: then each may have seen the file, or the
\* counter, without the other.
SharedSeqOnlyIfConcurrent ==
  raced = {} =>
    \A i, j \in DOMAIN file :
      i # j /\ file[i].seq = file[j].seq => {file[i].id, file[j].id} \in together

\* recordOnce leaves one event of a key, whoever calls it again, also after a crash
\* between publishing and appending; unless one of them was appended under a compaction,
\* which may drop it, and another one bring it back.
OncePerKey ==
  \A i, j \in DOMAIN file :
    i # j /\ file[i].key = file[j].key /\ {file[i].id, file[j].id} \cap raced = {} =>
      file[i].key \in {NoKey, Usage}

\* A client that has caught up has been sent every event of the file beyond the id it
\* asked for, but for those that were published before it subscribed and written after
\* the file was read for it. Only an event appended under a compaction spoils that: two
\* compactions may take an event out of the file and put it back.
MissedOnlyInFlight ==
  raced = {} =>
    \A c \in Client, e \in ToSet(file) :
      client[c].pc = "live" /\ e.seq > client[c].since /\ e.id \notin got[c] =>
        e.id \in client[c].tooLate

\* A recorded event that a client has been sent leaves the file only as usage that is
\* superseded, or when it was appended while a compaction had read the file.
LostOnlyByCompaction ==
  [][\A e \in ToSet(file) \ ToSet(file') :
       e.id \in raced \/ (e.key = Usage /\ \E u \in ToSet(file') : u.key = Usage)]_vars

\* What recorders leave in the file: one event of a key, and seqs that differ unless the
\* events were recorded at once.
RecordedOnceInOrder == TypeOK /\ SharedSeqOnlyIfConcurrent /\ OncePerKey
=============================================================================
