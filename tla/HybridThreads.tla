---------------------------- MODULE HybridThreads ----------------------------
(***************************************************************************)
(* One thread in HybridThreadStore: the metadata file, which is canonical, *)
(* and its row in the SQLite index, which list reads. Calls of upsert,     *)
(* get, delete and list overlap; only the appends of one thread are        *)
(* queued. A start indexes every thread again (backfill), or does without  *)
(* the index.                                                              *)
(*                                                                         *)
(* A version stands for the content of one upsert. RowsOnly is a way to    *)
(* get the next definition wrong.                                          *)
(***************************************************************************)
EXTENDS Naturals, Sequences, FiniteSets

CONSTANTS
  Call,        \* calls of the store
  MaxFaults    \* bound: restarts and index writes that fail

ASSUME HybridAssumption == IsFiniteSet(Call) /\ MaxFaults \in Nat

VARIABLES
  meta,        \* the last version in the metadata file, 0 when there is no thread
  row,         \* the version in the index, 0 when there is no row
  hasIndex,    \* SQLite is open
  calls,       \* each call: where it is and the version it holds
  appends,     \* metadataQueues: the upserts that wait to append
  versions,    \* upserts begun
  faults,      \* restarts and failed index writes so far
  raced,       \* history, since the last start: calls overlapped, or an index write failed
  seen         \* history: the lists during which the thread was on disk

hybridVars == <<meta, row, hasIndex, calls, appends, versions, faults, raced, seen>>

Busy == {c \in Call : calls[c].at \notin {"idle", "done", "listed"}}

HybridInit ==
  /\ meta = 0 /\ row = 0 /\ hasIndex \in BOOLEAN /\ versions = 0 /\ faults = 0
  /\ calls = [c \in Call |-> [at |-> "idle", v |-> 0]] /\ appends = <<>>
  /\ raced = FALSE /\ seen = {}

Move(c, at, v) == calls' = [calls EXCEPT ![c] = [at |-> at, v |-> v]]

Enter(c, at, v) == calls[c].at = "idle" /\ Move(c, at, v) /\ raced' = (raced \/ Busy # {})

UpsertThread(c) ==
  /\ Enter(c, "queued", versions + 1)
  /\ versions' = versions + 1 /\ appends' = Append(appends, c)
  /\ UNCHANGED <<meta, row, hasIndex, faults, seen>>

IsFirst(c) == Head(appends) = c

AppendMetadata(c) ==
  /\ calls[c].at = "queued" /\ IsFirst(c)
  /\ appends' = Tail(appends)
  /\ meta' = calls[c].v /\ Move(c, "indexing", calls[c].v)
  /\ seen' = seen \cup {d \in Busy : calls[d].at = "listing"}
  /\ UNCHANGED <<row, hasIndex, versions, faults, raced>>

\* upsertIndexBestEffort, with the thread as the call knows it.
Index(c) ==
  /\ calls[c].at = "indexing" /\ Move(c, "done", 0)
  /\ \/ row' = (IF hasIndex THEN calls[c].v ELSE row) /\ UNCHANGED <<faults, raced>>
     \/ hasIndex /\ faults < MaxFaults /\ faults' = faults + 1 /\ raced' = TRUE /\ row' = row
  /\ UNCHANGED <<meta, hasIndex, appends, versions, seen>>

\* A row without a file is deleted, a thread that is there is indexed again.
Get(c) ==
  /\ Enter(c, IF meta > 0 THEN "indexing" ELSE "done", meta)
  /\ row' = IF meta = 0 /\ hasIndex THEN 0 ELSE row
  /\ UNCHANGED <<meta, hasIndex, appends, versions, faults, seen>>

Delete(c) ==
  /\ Enter(c, "unindexing", 0) /\ meta' = 0
  /\ UNCHANGED <<row, hasIndex, appends, versions, faults, seen>>

DeleteIndexRow(c) ==
  /\ calls[c].at = "unindexing" /\ Move(c, "done", 0)
  /\ row' = IF hasIndex THEN 0 ELSE row
  /\ UNCHANGED <<meta, hasIndex, appends, versions, faults, raced, seen>>

\* The query, or the directories when there is no index.
List(c) ==
  /\ Enter(c, "listing", IF hasIndex THEN row ELSE meta)
  /\ seen' = IF meta > 0 THEN seen \cup {c} ELSE seen
  /\ UNCHANGED <<meta, row, hasIndex, appends, versions, faults>>

RowsOnly(c) == calls[c].v > 0

IsListed(c) == calls[c].v > 0 /\ meta > 0

\* rowHasReadableJsonl for the row of the query: the row of a thread without a file is
\* deleted by its id, whatever it is by now.
ListChecks(c) ==
  /\ calls[c].at = "listing"
  /\ Move(c, IF IsListed(c) THEN "listed" ELSE "done", 0)
  /\ row' = IF hasIndex /\ calls[c].v > 0 /\ ~IsListed(c) THEN 0 ELSE row
  /\ UNCHANGED <<meta, hasIndex, appends, versions, faults, raced, seen>>

Backfilled == meta

\* The calls at work are gone; the next start opens the index, or cannot.
StartAgain ==
  /\ faults < MaxFaults /\ faults' = faults + 1
  /\ calls' = [c \in Call |-> IF c \in Busy THEN [at |-> "done", v |-> 0] ELSE calls[c]]
  /\ appends' = <<>> /\ raced' = FALSE
  /\ \/ hasIndex' = TRUE /\ row' = Backfilled
     \/ hasIndex' = FALSE /\ row' = row
  /\ UNCHANGED <<meta, versions, seen>>

HybridNext ==
  \/ \E c \in Call :
       \/ UpsertThread(c) \/ AppendMetadata(c) \/ Index(c) \/ Get(c)
       \/ Delete(c) \/ DeleteIndexRow(c) \/ List(c) \/ ListChecks(c)
  \/ StartAgain

HybridSpec == HybridInit /\ [][HybridNext]_hybridVars
-----------------------------------------------------------------------------
ThreadTypeOK == {meta, row} \subseteq 0 .. versions /\ versions <= Cardinality(Call) /\ faults \in 0 .. MaxFaults

\* When no call is at work the index shows the thread as its file has it, after any
\* start that opened it, unless calls overlapped or an index write failed since: then a
\* thread may be listed as it was, or not at all, until somebody reads it.
IndexFollowsFile == hasIndex /\ Busy = {} => row = meta \/ raced

\* A thread that is listed was on disk at some moment of the list.
ListedWasThere == \A c \in Call : calls[c].at = "listed" => c \in seen

\* The file keeps the upsert that was called last: an older one never lands after it.
MetadataMovesOn == [][meta > 0 /\ meta' > 0 => meta' >= meta]_hybridVars

\* What lists show of a thread is what is stored, and what is stored moves on.
ThreadIsListedAsStored == [](ThreadTypeOK /\ IndexFollowsFile /\ ListedWasThere) /\ MetadataMovesOn
=============================================================================
