------------------------- MODULE EventStream_proofs -------------------------
(***************************************************************************)
(* Proofs about EventStream for any recorders, clients, keys and bounds.   *)
(***************************************************************************)
EXTENDS EventStream, FiniteSetTheorems, WellFoundedInduction, TLAPS

-----------------------------------------------------------------------------
(***************************************************************************)
(* The highest seq.                                                        *)
(***************************************************************************)
\* A set of naturals has a least member.
LEMMA LeastMember ==
  ASSUME NEW T, T \subseteq Nat, T # {}
  PROVE  \E x \in T : \A y \in T : x <= y
<1>1. PICK x \in T : \A y \in T : ~(<<y, x>> \in OpToRel(<, Nat))
  BY WFMin, NatLessThanWellFounded
<1>2. ASSUME NEW y \in T PROVE ~(y < x)
  <2>1. y \in Nat /\ x \in Nat
    OBVIOUS
  <2>2. QED
    BY <1>1, <2>1, Zenon DEF OpToRel
<1>3. QED
  BY <1>2

\* A set of numbers up to n has a greatest member, and Max is that.
LEMMA MaxOf ==
  ASSUME NEW n \in Nat, NEW S, S \subseteq 0 .. n, S # {}
  PROVE  Max(S) \in S /\ \A x \in S : x <= Max(S)
<1> DEFINE T == {k \in Nat : \E x \in S : k = n - x}
<1>1. T # {}
  <2>1. PICK x \in S : TRUE
    OBVIOUS
  <2>2. n - x \in Nat
    OBVIOUS
  <2>3. QED
    BY <2>2
<1>2. PICK k \in T : \A j \in T : k <= j
  BY <1>1, LeastMember
<1>3. PICK m \in S : k = n - m
  OBVIOUS
<1>4. ASSUME NEW x \in S PROVE m >= x
  <2>1. n - x \in T
    OBVIOUS
  <2>2. QED
    BY <2>1, <1>2, <1>3
<1>5. QED
  BY <1>4 DEF Max

\* The events of a log have seqs up to some number.
LEMMA SeqsAreBounded ==
  ASSUME NEW s \in Seq(Event)
  PROVE  \E m \in Nat : \A e \in ToSet(s) : e.seq <= m
<1> DEFINE P(k) == \E m \in Nat : \A i \in 1 .. k : s[i].seq <= m
<1>1. P(0)
  BY 0 \in Nat
<1>2. ASSUME NEW k \in 1 .. Len(s), P(k - 1) PROVE P(k)
  <2>1. PICK m \in Nat : \A i \in 1 .. k - 1 : s[i].seq <= m
    BY <1>2
  <2>2. \A i \in 1 .. k : s[i].seq \in Nat
    <3>1. \A i \in 1 .. k : s[i] \in Event
      OBVIOUS
    <3>2. QED
      BY <3>1 DEF Event
  <2>3. PICK x \in Nat : m <= x /\ s[k].seq <= x
    <3>1. s[k].seq \in Nat
      BY <2>2
    <3>2. QED
      BY <3>1, <2>1
  <2>4. ASSUME NEW i \in 1 .. k PROVE s[i].seq <= x
    BY <2>1, <2>2, <2>3
  <2>5. QED
    BY <2>3, <2>4
<1> HIDE DEF P
<1>3. \A k \in 0 .. Len(s) : P(k)
  <2> DEFINE T == {k \in 0 .. Len(s) : ~P(k)}
  <2>1. SUFFICES ASSUME T # {} PROVE FALSE
    OBVIOUS
  <2>2. PICK k \in T : \A j \in T : k <= j
    <3>1. T \subseteq Nat
      OBVIOUS
    <3>2. QED
      BY ONLY <2>1, <3>1, LeastMember
  <2>3. k \in 1 .. Len(s) /\ k - 1 \in 0 .. Len(s)
    BY <1>1, <2>2
  <2>4. P(k - 1)
    BY <2>2, <2>3
  <2>5. QED
    BY <1>2, <2>2, <2>3, <2>4
<1>4. P(Len(s))
  <2>1. Len(s) \in 0 .. Len(s)
    OBVIOUS
  <2>2. QED
    BY <1>3, <2>1
<1>5. PICK m \in Nat : \A i \in 1 .. Len(s) : s[i].seq <= m
  BY <1>4 DEF P
<1>6. QED
  BY <1>5 DEF ToSet

\* highestSeq is at least the seq of each event.
LEMMA HighestOf ==
  ASSUME NEW B, B \subseteq Event, NEW m \in Nat, \A e \in B : e.seq <= m
  PROVE  highestSeq(B) \in Nat /\ \A e \in B : e.seq <= highestSeq(B)
<1> DEFINE S == {0} \cup {e.seq : e \in B}
<1>1. ASSUME NEW e \in B PROVE e.seq \in 0 .. m
  BY DEF Event
<1>2. S \subseteq 0 .. m /\ S # {}
  BY <1>1
<1>3. Max(S) \in S /\ \A x \in S : x <= Max(S)
  BY <1>2, MaxOf
<1>4. QED
  BY <1>2, <1>3 DEF highestSeq

LEMMA HighestIs ==
  ASSUME NEW s \in Seq(Event)
  PROVE  highestSeq(ToSet(s)) \in Nat /\ \A e \in ToSet(s) : e.seq <= highestSeq(ToSet(s))
<1>1. ToSet(s) \subseteq Event
  BY DEF ToSet
<1>2. QED
  BY <1>1, SeqsAreBounded, HighestOf
-----------------------------------------------------------------------------
(***************************************************************************)
(* Compaction.                                                             *)
(***************************************************************************)
\* How many of a set of numbers are at most i.
Rank(S, i) == Cardinality(S \cap 1 .. i)

\* One more number is counted or not.
LEMMA RankOfNext ==
  ASSUME NEW n \in Nat, NEW S \in SUBSET (1 .. n), NEW i \in 1 .. n
  PROVE  /\ Rank(S, i - 1) \in Nat
         /\ Rank(S, i) = IF i \in S THEN Rank(S, i - 1) + 1 ELSE Rank(S, i - 1)
<1>1. IsFiniteSet(S \cap 1 .. (i - 1))
  <2>1. IsFiniteSet(1 .. (i - 1))
    <3>1. i - 1 \in Int
      OBVIOUS
    <3>2. QED
      BY ONLY <3>1, 1 \in Int, FS_Interval
  <2>2. QED
    BY <2>1, FS_Subset
<1>2. Rank(S, i - 1) \in Nat
  BY <1>1, FS_CardinalityType DEF Rank
<1>3. CASE i \in S
  <2>1. S \cap 1 .. i = (S \cap 1 .. (i - 1)) \cup {i} /\ i \notin S \cap 1 .. (i - 1)
    BY <1>3
  <2>2. QED
    BY <2>1, <1>1, <1>2, <1>3, FS_AddElement DEF Rank
<1>4. CASE i \notin S
  <2>1. S \cap 1 .. i = S \cap 1 .. (i - 1)
    BY <1>4
  <2>2. QED
    BY <2>1, <1>2, <1>4 DEF Rank
<1>5. QED
  BY <1>3, <1>4

\* Nothing is counted up to 0, everything up to n.
LEMMA RankOfEnds ==
  ASSUME NEW n \in Nat, NEW S \in SUBSET (1 .. n)
  PROVE  Rank(S, 0) = 0 /\ Rank(S, n) = Cardinality(S) /\ Cardinality(S) \in Nat /\ IsFiniteSet(S)
<1>1. S \cap 1 .. 0 = {} /\ S \cap 1 .. n = S
  <2>1. 1 .. 0 = {}
    OBVIOUS
  <2>2. QED
    BY <2>1
<1>2. IsFiniteSet(S)
  <2>1. IsFiniteSet(1 .. n)
    <3>1. n \in Int
      OBVIOUS
    <3>2. QED
      BY ONLY <3>1, 1 \in Int, FS_Interval
  <2>2. QED
    BY <2>1, FS_Subset
<1>3. QED
  BY <1>1, <1>2, FS_EmptySet, FS_CardinalityType DEF Rank

\* Of every rank there is a member,
LEMMA RankIsTaken ==
  ASSUME NEW n \in Nat, NEW S \in SUBSET (1 .. n), NEW k \in 1 .. Cardinality(S)
  PROVE  \E i \in S : Rank(S, i) = k
<1>1. Rank(S, 0) = 0 /\ Rank(S, n) = Cardinality(S) /\ Cardinality(S) \in Nat
  BY RankOfEnds
<1>2. PICK i \in 0 .. n : Rank(S, i) >= k /\ \A j \in 0 .. n : Rank(S, j) >= k => i <= j
  <2> DEFINE T == {i \in 0 .. n : Rank(S, i) >= k}
  <2>1. n \in T /\ T \subseteq Nat
    BY <1>1
  <2>2. PICK i \in T : \A j \in T : i <= j
    BY ONLY <2>1, LeastMember
  <2>3. QED
    BY <2>2
<1>3. i \in 1 .. n /\ i - 1 \in 0 .. n /\ ~(i <= i - 1)
  BY <1>1, <1>2
<1>4. /\ Rank(S, i - 1) \in Nat
      /\ Rank(S, i) = IF i \in S THEN Rank(S, i - 1) + 1 ELSE Rank(S, i - 1)
  <2>1. \A m \in 1 .. n : /\ Rank(S, m - 1) \in Nat
                          /\ Rank(S, m) = IF m \in S THEN Rank(S, m - 1) + 1 ELSE Rank(S, m - 1)
    BY RankOfNext
  <2>2. QED
    BY <1>3, <2>1
<1>5. Rank(S, i) >= k /\ ~(Rank(S, i - 1) >= k) /\ k \in Nat
  BY <1>1, <1>2, <1>3
<1>6. i \in S /\ Rank(S, i) = k
  BY <1>4, <1>5
<1>7. QED
  BY <1>6

\* and no two have the same.
LEMMA RankIsUnique ==
  ASSUME NEW n \in Nat, NEW S \in SUBSET (1 .. n), NEW i \in S, NEW j \in S, Rank(S, i) = Rank(S, j)
  PROVE  i = j
<1>1. ASSUME NEW a \in S, NEW b \in S, a < b PROVE Rank(S, a) < Rank(S, b)
  <2>1. a \in 1 .. n /\ b \in 1 .. n
    OBVIOUS
  <2>2. IsFiniteSet(S \cap 1 .. (b - 1))
    BY RankOfEnds, FS_Subset
  <2>3. S \cap 1 .. a \subseteq S \cap 1 .. (b - 1)
    BY <1>1, <2>1
  <2>4. Rank(S, a) <= Rank(S, b - 1) /\ Rank(S, a) \in Nat
    BY <2>2, <2>3, FS_Subset, FS_CardinalityType DEF Rank
  <2>5. Rank(S, b - 1) \in Nat /\ Rank(S, b) = Rank(S, b - 1) + 1
    BY <2>1, RankOfNext
  <2>6. QED
    BY <2>4, <2>5
<1>2. Rank(S, i) \in Nat
  <2>1. IsFiniteSet(S \cap 1 .. i)
    BY RankOfEnds, FS_Subset
  <2>2. QED
    BY <2>1, FS_CardinalityType DEF Rank
<1>3. ~(i < j) /\ ~(j < i)
  BY <1>1, <1>2
<1>4. QED
  BY <1>3

\* What is left of a log has each kept event once.
LEMMA CompactedIs ==
  ASSUME NEW s \in Seq(Event)
  PROVE  /\ Compacted(s) \in Seq(Event)
         /\ \E at \in [DOMAIN Compacted(s) -> Kept(s)] :
              /\ \A n \in DOMAIN Compacted(s) : Compacted(s)[n] = s[at[n]]
              /\ \A n, m \in DOMAIN Compacted(s) : at[n] = at[m] => n = m
              /\ \A i \in Kept(s) : \E n \in DOMAIN Compacted(s) : at[n] = i
<1> DEFINE K == Kept(s)
           c == Cardinality(K)
           at == [n \in 1 .. c |-> CHOOSE i \in K : Rank(K, i) = n]
<1>1. Len(s) \in Nat /\ K \in SUBSET (1 .. Len(s))
  BY DEF Kept
<1>2. c \in Nat /\ Rank(K, Len(s)) = c
  BY ONLY <1>1, RankOfEnds
<1>3. \A n \in 1 .. c : \E i \in K : Rank(K, i) = n
  BY ONLY <1>1, RankIsTaken
<1>4. Compacted(s) = [n \in 1 .. c |-> s[at[n]]]
  BY DEF Compacted, Rank
<1> HIDE DEF K
<1>5. \A n \in 1 .. c : at[n] \in K /\ Rank(K, at[n]) = n
  BY <1>3
<1> HIDE DEF c, at
<1>6. ASSUME NEW n \in 1 .. c PROVE s[at[n]] \in Event
  <2>1. at[n] \in 1 .. Len(s)
    BY <1>1, <1>5
  <2>2. QED
    BY <2>1
<1>7. Compacted(s) \in Seq(Event) /\ DOMAIN Compacted(s) = 1 .. c
  BY <1>2, <1>4, <1>6
<1>8. ASSUME NEW i \in K PROVE \E n \in 1 .. c : at[n] = i
  <2>1. i \in 1 .. Len(s) /\ Rank(K, i) \in 1 .. c
    <3>1. i \in 1 .. Len(s)
      BY <1>1
    <3>2. /\ Rank(K, i - 1) \in Nat
          /\ Rank(K, i) = Rank(K, i - 1) + 1
      BY <1>1, <3>1, RankOfNext
    <3>3. Rank(K, i) <= c
      <4>1. IsFiniteSet(K) /\ K \cap 1 .. i \subseteq K
        BY ONLY <1>1, RankOfEnds
      <4>2. QED
        BY <4>1, FS_Subset DEF Rank, c
    <3>4. QED
      BY <1>2, <3>1, <3>2, <3>3
  <2>2. at[Rank(K, i)] \in K /\ Rank(K, at[Rank(K, i)]) = Rank(K, i)
    BY <1>5, <2>1
  <2>3. at[Rank(K, i)] = i
    BY ONLY <1>1, <2>2, RankIsUnique
  <2>4. QED
    BY <2>1, <2>3
<1>9. at \in [1 .. c -> K]
  BY <1>5 DEF at
<1>10. \A n, m \in 1 .. c : at[n] = at[m] => n = m
  BY <1>5
<1>11. QED
  BY <1>4, <1>7, <1>8, <1>9, <1>10 DEF K

\* The events that compaction keeps.
KeptOf(s) == {s[i] : i \in Kept(s)}

\* They are of the log, all but usage among them, and one of usage where there is any.
LEMMA KeptIs ==
  ASSUME NEW s \in Seq(Event)
  PROVE  /\ KeptOf(s) \subseteq ToSet(s)
         /\ \A e \in ToSet(s) : e.key # Usage => e \in KeptOf(s)
         /\ \A e \in ToSet(s) : e.key = Usage => \E u \in KeptOf(s) : u.key = Usage
<1>1. KeptOf(s) \subseteq ToSet(s)
  BY DEF KeptOf, Kept, ToSet
<1>2. ASSUME NEW e \in ToSet(s), e.key # Usage PROVE e \in KeptOf(s)
  BY <1>2 DEF KeptOf, Kept, ToSet
<1>3. ASSUME NEW e \in ToSet(s), e.key = Usage PROVE \E u \in KeptOf(s) : u.key = Usage
  <2> DEFINE T == {k \in 0 .. Len(s) : k > 0 /\ s[k].key = Usage}
  <2>1. Len(s) \in Nat /\ T \subseteq 0 .. Len(s) /\ T # {}
    BY <1>3 DEF ToSet
  <2>2. Max(T) \in T /\ \A k \in T : k <= Max(T)
    BY ONLY <2>1, MaxOf
  <2>3. Max(T) \in DOMAIN s /\ s[Max(T)].key = Usage
    BY <2>1, <2>2
  <2>4. \A j \in Max(T) + 1 .. Len(s) : s[j].key # Usage
    <3>1. PICK m \in 0 .. Len(s) : m = Max(T)
      BY <2>2
    <3>2. ASSUME NEW j \in m + 1 .. Len(s), s[j].key = Usage PROVE FALSE
      <4>1. j \in T /\ ~(j <= m)
        BY <3>2
      <4>2. QED
        BY ONLY <2>2, <3>1, <4>1
    <3>3. QED
      BY ONLY <3>1, <3>2
  <2>5. QED
    BY ONLY <2>3, <2>4 DEF KeptOf, Kept
<1>4. QED
  BY <1>1, <1>2, <1>3

\* Compaction leaves them, and all of them when it comes again.
LEMMA CompactedKeeps ==
  ASSUME NEW s \in Seq(Event)
  PROVE  ToSet(Compacted(s)) = KeptOf(s) /\ KeptOf(Compacted(s)) = KeptOf(s)
<1> DEFINE t == Compacted(s)
<1>1. PICK at \in [DOMAIN t -> Kept(s)] :
        /\ \A n \in DOMAIN t : t[n] = s[at[n]]
        /\ \A n, m \in DOMAIN t : at[n] = at[m] => n = m
        /\ \A i \in Kept(s) : \E n \in DOMAIN t : at[n] = i
  BY CompactedIs
<1>2. t \in Seq(Event)
  BY CompactedIs
<1> HIDE DEF t
<1>3. ToSet(t) = KeptOf(s)
  BY <1>1 DEF ToSet, KeptOf
<1>4. \A i, j \in Kept(s) : s[i].key = Usage /\ s[j].key = Usage => i = j
  BY DEF Kept
<1>5. Kept(t) = DOMAIN t
  <2>1. ASSUME NEW n \in DOMAIN t, NEW m \in n + 1 .. Len(t),
               t[n].key = Usage, t[m].key = Usage
        PROVE  FALSE
    <3>1. m \in DOMAIN t /\ n # m
      BY <1>2
    <3>2. at[n] = at[m]
      BY <1>1, <1>4, <2>1, <3>1
    <3>3. QED
      BY <1>1, <3>1, <3>2
  <2>2. QED
    BY <2>1 DEF Kept
<1>6. KeptOf(t) = ToSet(t)
  BY <1>5 DEF KeptOf, ToSet
<1>7. QED
  BY <1>3, <1>6 DEF t
-----------------------------------------------------------------------------
(***************************************************************************)
(* The inductive invariant.                                                *)
(***************************************************************************)
Ids(S) == {e.id : e \in S}

\* A call that has yet to publish its event, and one that works on the log.
Waits(r) == call[r].pc \in {"queued", "reading", "publish"}
Records(r) == call[r].pc \in {"reading", "publish", "append"}
Rewrites(r) == call[r].pc = "rewrite"

\* Ids are given once, and an event has one from when its call is made.
CallIds ==
  /\ \A r \in Recorder : call[r].pc # "idle" => call[r].id \in 1 .. issued
  /\ \A r, q \in Recorder :
       r # q /\ call[r].pc # "idle" /\ call[q].pc # "idle" => call[r].id # call[q].id
BusIds == Ids(ToSet(published)) \subseteq 1 .. issued
FileIds == Ids(ToSet(file)) \subseteq 1 .. issued
SeenIds == \A r \in Recorder : Rewrites(r) => Ids(ToSet(call[r].seen)) \subseteq 1 .. issued
ReadIds == \A c \in Client : client[c].read \subseteq 1 .. issued
IdsAreGiven == CallIds /\ BusIds /\ FileIds /\ SeenIds /\ ReadIds

\* The bus has the event of a call when it has been published.
BusTellsTheCall ==
  \A r \in Recorder :
    /\ Waits(r) => call[r].id \notin Ids(ToSet(published))
    /\ call[r].pc = "append" =>
         /\ call[r].id \in Ids(ToSet(published))
         /\ \A e \in ToSet(published) : e.id = call[r].id => e.key = call[r].key

BacklogIsBounded ==
  \A c \in Client : \E m \in Nat : \A e \in client[c].backlog : e.seq <= m

\* Two places of a log tell one key only of events that were appended under a compaction.
Once(s) ==
  \A i, j \in DOMAIN s :
    i # j /\ s[i].key = s[j].key /\ s[i].id \notin raced /\ s[j].id \notin raced =>
      s[i].key \in {NoKey, Usage}

\* Past the queue is one recordOnce of the thread, and no event of its key in the file.
OneAtATime ==
  /\ \A r, q \in Recorder : call[r].key \in Key /\ call[q].key \in Key /\ r # q =>
       call[r].pc = "queued" \/ call[q].pc = "queued"
  /\ \A r \in Recorder, e \in ToSet(file) :
       Records(r) /\ call[r].key \in Key /\ e.key = call[r].key => e.id \in raced

\* What a compaction has read is the file, but for usage and what was appended meanwhile.
ReadIsTheFile ==
  /\ \A r \in Recorder, e \in Event :
       Rewrites(r) /\ e.key # Usage /\ e.id \notin raced =>
         (e \in ToSet(call[r].seen) <=> e \in ToSet(file))
  /\ \A r \in Recorder : call[r].pc = "compact" => \E e \in ToSet(file) : e.key = Usage
  /\ \A r \in Recorder : Rewrites(r) => \E e \in ToSet(call[r].seen) : e.key = Usage

OnceEverywhere == Once(file) /\ \A r \in Recorder : Rewrites(r) => Once(call[r].seen)

\* Two places of a log tell one seq only of events that were recorded together.
Apart(s) ==
  \A i, j \in DOMAIN s : i # j /\ s[i].seq = s[j].seq => {s[i].id, s[j].id} \in together

\* While nothing was appended under a compaction: a rewrite brings nothing back; the seq a
\* call has read, and the one it has taken, is beyond those of the events that were written
\* before it began.
AllApart == Apart(file) /\ \A r \in Recorder : Rewrites(r) => Apart(call[r].seen)
NothingComesBack == \A r \in Recorder : Rewrites(r) => KeptOf(call[r].seen) = KeptOf(file)
SeqsAreBeyond ==
  \A r \in Recorder, e \in ToSet(file) : {e.id, call[r].id} \notin together =>
    /\ call[r].pc = "publish" => call[r].persisted >= e.seq
    /\ call[r].pc = "append" =>
         \A p \in ToSet(published) : p.id = call[r].id => p.seq > e.seq
CalmFile == AllApart /\ NothingComesBack /\ SeqsAreBeyond

\* And: what is not yet written has not been read,
Pends(r) == Waits(r) \/ call[r].pc = "append"
NotYetWritten == \A r \in Recorder : Pends(r) => call[r].id \notin Ids(ToSet(file))
NotYetRead ==
  \A c \in Client, r \in Recorder :
    client[c].pc = "replay" /\ Pends(r) => call[r].id \notin client[c].read
\* and what a client misses it was sent, or comes too late.
AppendIsTold ==
  \A c \in Client, r \in Recorder :
    client[c].pc = "live" /\ call[r].pc = "append" => call[r].id \in got[c] \cup client[c].tooLate
ReplayHasAll ==
  \A c \in Client, e \in ToSet(file) :
    client[c].pc = "replay" /\ e.seq > client[c].since =>
      e \in client[c].backlog \/ (e.id \in Ids(ToSet(published)) /\ e.id \notin client[c].read)
LiveHasAll ==
  \A c \in Client, e \in ToSet(file) :
    client[c].pc = "live" /\ e.seq > client[c].since => e.id \in got[c] \/ e.id \in client[c].tooLate
CalmStreams == NotYetWritten /\ NotYetRead /\ AppendIsTold /\ ReplayHasAll /\ LiveHasAll

IInv ==
  /\ TypeOK /\ IdsAreGiven /\ BusTellsTheCall /\ BacklogIsBounded
  /\ OneAtATime /\ ReadIsTheFile /\ OnceEverywhere
  /\ raced = {} => CalmFile /\ CalmStreams
-----------------------------------------------------------------------------
(***************************************************************************)
(* What the steps do.                                                      *)
(***************************************************************************)
\* What an append adds to a log.
LEMMA AppendAdds ==
  ASSUME NEW s \in Seq(Event), NEW e \in Event
  PROVE  /\ Append(s, e) \in Seq(Event) /\ ToSet(Append(s, e)) = ToSet(s) \cup {e}
         /\ DOMAIN Append(s, e) = DOMAIN s \cup {Len(s) + 1} /\ Len(s) + 1 \notin DOMAIN s
         /\ \A i \in DOMAIN s : Append(s, e)[i] = s[i]
         /\ Append(s, e)[Len(s) + 1] = e
<1>1. /\ Append(s, e) \in Seq(Event) /\ DOMAIN Append(s, e) = 1 .. Len(s) + 1
      /\ DOMAIN s = 1 .. Len(s) /\ Len(s) \in Nat
      /\ \A i \in DOMAIN s : Append(s, e)[i] = s[i]
      /\ Append(s, e)[Len(s) + 1] = e
  OBVIOUS
<1>2. DOMAIN Append(s, e) = DOMAIN s \cup {Len(s) + 1} /\ Len(s) + 1 \notin DOMAIN s
  BY <1>1
<1>3. ToSet(Append(s, e)) = ToSet(s) \cup {e}
  BY <1>1, <1>2, Zenon DEF ToSet
<1>4. QED
  BY <1>1, <1>2, <1>3

\* The members of a log are events.
LEMMA ToSetIs ==
  ASSUME NEW s \in Seq(Event)
  PROVE  ToSet(s) \subseteq Event /\ \A i \in DOMAIN s : s[i] \in ToSet(s)
BY DEF ToSet

\* The next seq is a number.
LEMMA AllocateIs ==
  ASSUME TypeOK
  PROVE  allocateSeq \in Nat
<1>1. highestSeq(ToSet(published)) \in Nat
  BY HighestIs DEF TypeOK
<1>2. QED
  BY <1>1 DEF allocateSeq, TypeOK

\* A call appends the event it has published.
LEMMA EventOfIs ==
  ASSUME TypeOK, BusTellsTheCall, NEW r \in Recorder, call[r].pc = "append"
  PROVE  /\ EventOf(r) \in ToSet(published) /\ EventOf(r) \in Event
         /\ EventOf(r).id = call[r].id /\ EventOf(r).key = call[r].key
<1>1. PICK n \in DOMAIN published : published[n].id = call[r].id
  BY DEF BusTellsTheCall, Ids, ToSet
<1> DEFINE j == CHOOSE i \in DOMAIN published : published[i].id = call[r].id
<1>2. j \in DOMAIN published /\ published[j].id = call[r].id
  BY <1>1
<1>3. published[j] \in ToSet(published) /\ published[j] \in Event
  BY <1>2, ToSetIs DEF TypeOK
<1>4. QED
  BY <1>2, <1>3 DEF EventOf, BusTellsTheCall

\* What a call publishes.
Published(r) == [id |-> call[r].id, seq |-> SeqFor(r), key |-> call[r].key]

\* It is an event, whose seq is beyond what the call has read.
LEMMA PublishedIs ==
  ASSUME TypeOK, IdsAreGiven, NEW r \in Recorder, call[r].pc = "publish"
  PROVE  /\ Published(r) \in Event /\ SeqFor(r) > call[r].persisted
         /\ published \in Seq(Event)
<1>1. call[r] \in Call
  BY DEF TypeOK
<1>2. SeqFor(r) \in Nat \ {0} /\ SeqFor(r) > call[r].persisted
  BY <1>1 DEF SeqFor, Call
<1>3. call[r].id \in 1 .. MaxEvents
  BY EventStreamAssumption DEF IdsAreGiven, CallIds, TypeOK
<1>4. QED
  BY <1>1, <1>2, <1>3 DEF Published, Event, Call, TypeOK

\* The types of the variables, at the start
LEMMA TypeInit == Init => TypeOK
BY EventStreamAssumption DEF Init, TypeOK, Idle, Off, Call, Stream

\* A call that is over, and one that has its seq, are calls.
LEMMA CallIs ==
  /\ Idle \in Call
  /\ \A r \in Recorder, id \in 0 .. MaxEvents, k \in Key \cup {NoKey, Usage} :
       allocateSeq \in Nat => Allocated(r, id, k) \in Call
<1>1. Idle \in Call
  BY EventStreamAssumption DEF Idle, Call
<1>2. ASSUME NEW r \in Recorder, NEW id \in 0 .. MaxEvents, NEW k \in Key \cup {NoKey, Usage},
             allocateSeq \in Nat
      PROVE  Allocated(r, id, k) \in Call
  BY <1>1, <1>2 DEF Allocated, Call
<1>3. QED
  BY <1>1, <1>2

\* and after each step.
LEMMA TypeStep ==
  TypeOK /\ IdsAreGiven /\ BusTellsTheCall /\ BacklogIsBounded /\ [Next]_vars => TypeOK'
<1> SUFFICES ASSUME TypeOK, IdsAreGiven, BusTellsTheCall, BacklogIsBounded, [Next]_vars
             PROVE  TypeOK'
  OBVIOUS
<1> USE EventStreamAssumption
<1>0. allocateSeq \in Nat /\ ToSet(file) \subseteq Event /\ ToSet(published) \subseteq Event
  BY AllocateIs, ToSetIs DEF TypeOK
<1>1. ASSUME NEW r \in Recorder, NEW k \in Plain, Record(r, k) PROVE TypeOK'
  <2>1. issued' \in 0 .. MaxEvents /\ issued + 1 \in 0 .. MaxEvents
    BY <1>1 DEF Record, TypeOK
  <2>2. Allocated(r, issued + 1, k) \in Call
    <3>1. k \in Key \cup {NoKey, Usage} /\ issued + 1 \in 0 .. MaxEvents
      BY <2>1
    <3>2. QED
      BY <1>0, <3>1, CallIs
  <2>3. QED
    BY <1>0, <1>1, <2>1, <2>2 DEF Record, TypeOK
<1>2. ASSUME NEW r \in Recorder, NEW k \in Key, RecordOnce(r, k) PROVE TypeOK'
  <2>1. issued' \in 0 .. MaxEvents /\ issued + 1 \in 0 .. MaxEvents
    BY <1>2 DEF RecordOnce, TypeOK
  <2>2. [Idle EXCEPT !.pc = "queued", !.id = issued + 1, !.key = k] \in Call
    BY <2>1, CallIs DEF Call
  <2>3. QED
    BY <1>2, <2>1, <2>2 DEF RecordOnce, TypeOK
<1>3. ASSUME NEW r \in Recorder, FindExisting(r) PROVE TypeOK'
  <2>1. call[r] \in Call
    BY DEF TypeOK
  <2>2. Allocated(r, call[r].id, call[r].key) \in Call /\ Idle \in Call
    BY <1>0, <2>1, CallIs DEF Call
  <2>3. QED
    BY <1>0, <1>3, <2>2 DEF FindExisting, TypeOK
<1>4. ASSUME NEW r \in Recorder, ReadHighest(r) PROVE TypeOK'
  <2>1. highestSeq(ToSet(file)) \in Nat
    BY HighestIs DEF TypeOK
  <2>2. call \in [Recorder -> Call]
    BY DEF TypeOK
  <2>3. call' = [call EXCEPT ![r] = [call[r] EXCEPT !.pc = "publish", !.persisted = highestSeq(ToSet(file))]]
    BY <1>4, <2>2 DEF ReadHighest
  <2>4. [call[r] EXCEPT !.pc = "publish", !.persisted = highestSeq(ToSet(file))] \in Call
    BY <2>1, <2>2 DEF Call
  <2>5. call' \in [Recorder -> Call]
    BY <2>2, <2>3, <2>4
  <2>6. QED
    BY <1>4, <2>5 DEF ReadHighest, TypeOK
<1>5. ASSUME NEW r \in Recorder, Publish(r) PROVE TypeOK'
  <2>1. Published(r) \in Event /\ published \in Seq(Event)
    BY <1>5, PublishedIs DEF Publish
  <2>2. published' = Append(published, Published(r)) /\ published' \in Seq(Event)
    BY <1>5, <2>1 DEF Publish, Published
  <2>3. Published(r).id \in 1 .. MaxEvents /\ Published(r).seq \in Nat
    BY <2>1 DEF Event
  <2>4. client' \in [Client -> Stream] /\ got' \in [Client -> SUBSET (1 .. MaxEvents)]
    <3>1. /\ client \in [Client -> Stream] /\ got \in [Client -> SUBSET (1 .. MaxEvents)]
          /\ client' = [c \in Client |-> IF client[c].pc = "live"
                                         THEN [client[c] EXCEPT !.last = Published(r).seq] ELSE client[c]]
          /\ got' = [c \in Client |-> IF client[c].pc = "live" THEN got[c] \cup {Published(r).id} ELSE got[c]]
      BY <1>5 DEF Publish, Published, TypeOK
    <3>2. \A t \in Stream : [t EXCEPT !.last = Published(r).seq] \in Stream
      BY <2>3 DEF Stream
    <3>3. client' \in [Client -> Stream]
      BY <3>1, <3>2
    <3>4. got' \in [Client -> SUBSET (1 .. MaxEvents)]
      BY <2>3, <3>1
    <3>5. QED
      BY <3>3, <3>4
  <2>5. call' \in [Recorder -> Call]
    <3>1. call \in [Recorder -> Call]
      BY DEF TypeOK
    <3>2. call' = [call EXCEPT ![r] = [@ EXCEPT !.pc = "append", !.alloc = 0, !.persisted = 0]]
      BY <1>5, <3>1 DEF Publish
    <3>3. [call[r] EXCEPT !.pc = "append", !.alloc = 0, !.persisted = 0] \in Call
      BY <3>1 DEF Call
    <3>4. QED
      BY <3>1, <3>2, <3>3
  <2>6. QED
    BY <1>5, <2>2, <2>4, <2>5 DEF Publish, TypeOK
<1>6. ASSUME NEW r \in Recorder, AppendEvent(r) PROVE TypeOK'
  <2>1. EventOf(r) \in Event /\ EventOf(r).id = call[r].id
    BY <1>6, EventOfIs DEF AppendEvent
  <2>2. file' \in Seq(Event)
    BY <1>6, <2>1 DEF AppendEvent, TypeOK
  <2>3. call' \in [Recorder -> Call]
    <3>1. Idle \in Call /\ [call[r] EXCEPT !.pc = "compact"] \in Call
      <4>1. call[r] \in Call
        BY DEF TypeOK
      <4>2. QED
        BY <4>1, CallIs DEF Call
    <3>2. QED
      BY <1>6, <3>1 DEF AppendEvent, TypeOK
  <2>4. raced' \subseteq 1 .. MaxEvents
    BY <1>6, <2>1 DEF AppendEvent, TypeOK, Event
  <2>5. QED
    BY <1>6, <2>2, <2>3, <2>4 DEF AppendEvent, TypeOK
<1>7. ASSUME NEW r \in Recorder, ReadForCompaction(r) PROVE TypeOK'
  <2>1. call \in [Recorder -> Call] /\ file \in Seq(Event)
    BY DEF TypeOK
  <2>2. call' = [call EXCEPT ![r] = [call[r] EXCEPT !.pc = "rewrite", !.seen = file]]
    BY <1>7, <2>1 DEF ReadForCompaction
  <2>3. [call[r] EXCEPT !.pc = "rewrite", !.seen = file] \in Call
    BY <2>1 DEF Call
  <2>4. call' \in [Recorder -> Call]
    BY <2>1, <2>2, <2>3
  <2>5. QED
    BY <1>7, <2>4 DEF ReadForCompaction, TypeOK
<1>8. ASSUME NEW r \in Recorder, Rewrite(r) PROVE TypeOK'
  <2>1. Compacted(call[r].seen) \in Seq(Event)
    BY CompactedIs DEF TypeOK, Call
  <2>2. Idle \in Call
    BY DEF Idle, Call
  <2>3. QED
    BY <1>8, <2>1, <2>2 DEF Rewrite, TypeOK
<1>9. ASSUME NEW c \in Client, Connect(c) PROVE TypeOK'
  <2>1. Backlog(client[c].since) \subseteq Event /\ {e.id : e \in ToSet(file)} \subseteq 1 .. MaxEvents
    BY <1>0 DEF Backlog, Event
  <2>2. client \in [Client -> Stream]
    BY DEF TypeOK
  <2>3. PICK s \in Stream :
          s = [client[c] EXCEPT !.pc = "replay", !.backlog = Backlog(client[c].since),
                                !.read = {e.id : e \in ToSet(file)}]
    BY <2>1, <2>2 DEF Stream
  <2>4. client' = [client EXCEPT ![c] = s]
    BY <1>9, <2>2, <2>3 DEF Connect
  <2>5. client' \in [Client -> Stream]
    BY <2>2, <2>4
  <2>6. QED
    BY <1>9, <2>5 DEF Connect, TypeOK
<1>10. ASSUME NEW c \in Client, Subscribe(c) PROVE TypeOK'
  <2>1. client[c] \in Stream
    BY DEF TypeOK
  <2>2. client[c].backlog \subseteq Event /\ highestSeq(client[c].backlog) \in Nat
    <3>1. client[c].backlog \subseteq Event
      BY <2>1 DEF Stream
    <3>2. PICK m \in Nat : \A e \in client[c].backlog : e.seq <= m
      BY DEF BacklogIsBounded
    <3>3. QED
      BY <3>1, <3>2, HighestOf
  <2>3. {e.id : e \in client[c].backlog} \subseteq 1 .. MaxEvents
    BY <2>2 DEF Event
  <2>4. {e.id : e \in ToSet(published)} \subseteq 1 .. MaxEvents
    BY <1>0 DEF Event
  <2>5. client' \in [Client -> Stream]
    <3>1. PICK l \in Nat : l = IF client[c].backlog = {} THEN client[c].last ELSE highestSeq(client[c].backlog)
      BY <2>1, <2>2 DEF Stream
    <3>2. PICK x \in SUBSET (1 .. MaxEvents) : x = {e.id : e \in ToSet(published)} \ client[c].read
      BY <2>4
    <3>3. client \in [Client -> Stream]
      BY DEF TypeOK
    <3>4. client' = [client EXCEPT ![c] = [client[c] EXCEPT !.pc = "live", !.backlog = {}, !.read = {},
                                                            !.tooLate = x, !.last = l]]
      BY <1>10, <3>1, <3>2, <3>3 DEF Subscribe
    <3>5. [client[c] EXCEPT !.pc = "live", !.backlog = {}, !.read = {}, !.tooLate = x, !.last = l] \in Stream
      BY <2>1 DEF Stream
    <3>6. QED
      BY <3>3, <3>4, <3>5
  <2>6. got' \in [Client -> SUBSET (1 .. MaxEvents)]
    BY <1>10, <2>3 DEF Subscribe, TypeOK
  <2>7. QED
    BY <1>10, <2>5, <2>6 DEF Subscribe, TypeOK
<1>11. ASSUME NEW c \in Client, Heartbeat(c) PROVE TypeOK'
  <2>1. client \in [Client -> Stream]
    BY DEF TypeOK
  <2>2. client' = [client EXCEPT ![c] = [client[c] EXCEPT !.last = allocateSeq]]
    BY <1>11, <2>1 DEF Heartbeat
  <2>3. [client[c] EXCEPT !.last = allocateSeq] \in Stream
    BY <1>0, <2>1 DEF Stream
  <2>4. client' \in [Client -> Stream]
    BY <2>1, <2>2, <2>3
  <2>5. QED
    BY <1>0, <1>11, <2>4 DEF Heartbeat, TypeOK
<1>12. ASSUME NEW c \in Client, Disconnect(c) PROVE TypeOK'
  <2>1. Off(client[c].last) \in Stream
    BY DEF TypeOK, Off, Stream
  <2>2. QED
    BY <1>12, <2>1 DEF Disconnect, TypeOK
<1>13. CASE Restart
  <2>1. Idle \in Call /\ \A c \in Client : Off(client[c].last) \in Stream
    BY DEF TypeOK, Off, Stream, Idle, Call
  <2>2. published' \in Seq(Event)
    BY <1>13 DEF Restart
  <2>3. QED
    BY <1>13, <2>1, <2>2 DEF Restart, TypeOK
<1>14. CASE UNCHANGED vars
  BY <1>14 DEF TypeOK, vars
<1>15. QED
  BY <1>1, <1>2, <1>3, <1>4, <1>5, <1>6, <1>7, <1>8, <1>9, <1>10, <1>11, <1>12, <1>13, <1>14
     DEF Next

\* What a call that comes out of the queue does.
LEMMA FindIs ==
  ASSUME TypeOK, NEW r \in Recorder, FindExisting(r)
  PROVE  /\ call[r].pc = "queued" /\ \A q \in Recorder : q # r => call'[q] = call[q]
         /\ \/ call'[r] = Idle
            \/ /\ ~IsRecorded(call[r].key) /\ call'[r].pc = "reading"
               /\ call'[r].id = call[r].id /\ call'[r].key = call[r].key
<1>1. call \in [Recorder -> Call]
  BY DEF TypeOK
<1>2. CASE IsRecorded(call[r].key)
  BY <1>1, <1>2 DEF FindExisting
<1>3. CASE ~IsRecorded(call[r].key)
  <2>1. call'[r] = Allocated(r, call[r].id, call[r].key) /\ \A q \in Recorder : q # r => call'[q] = call[q]
    BY <1>1, <1>3 DEF FindExisting
  <2>2. QED
    BY <1>3, <2>1 DEF FindExisting, Allocated, Idle
<1>4. QED
  BY <1>2, <1>3

\* What a client that subscribes is sent, and what comes too late for it.
LEMMA SubscribeIs ==
  ASSUME TypeOK, NEW c \in Client, Subscribe(c)
  PROVE  /\ \A d \in Client : d # c => client'[d] = client[d] /\ got'[d] = got[d]
         /\ client[c].pc = "replay" /\ client'[c].pc = "live"
         /\ client'[c].backlog = {} /\ client'[c].read = {} /\ client'[c].since = client[c].since
         /\ client'[c].tooLate = Ids(ToSet(published)) \ client[c].read
         /\ got'[c] = got[c] \cup Ids(client[c].backlog)
<1>1. client \in [Client -> Stream] /\ got \in [Client -> SUBSET (1 .. MaxEvents)]
  BY DEF TypeOK
<1> DEFINE sent == client[c].backlog
           l == IF sent = {} THEN client[c].last ELSE highestSeq(sent)
<1>2. client' = [client EXCEPT ![c].pc = "live", ![c].backlog = {}, ![c].read = {},
                   ![c].tooLate = Ids(ToSet(published)) \ client[c].read, ![c].last = l]
  BY <1>1 DEF Subscribe, Ids
<1>3. got' = [got EXCEPT ![c] = @ \cup Ids(sent)] /\ client[c].pc = "replay"
  BY DEF Subscribe, Ids
<1> HIDE DEF l
<1>4. QED
  BY <1>1, <1>2, <1>3 DEF Stream

\* Each step keeps each part of the invariant: what a client is to be sent is bounded,
LEMMA BacklogStep ==
  TypeOK /\ BacklogIsBounded /\ [Next]_vars => BacklogIsBounded'
<1> SUFFICES ASSUME TypeOK, BacklogIsBounded, [Next]_vars
             PROVE  BacklogIsBounded'
  OBVIOUS
<1>1. ASSUME NEW r \in Recorder, NEW k \in Plain, Record(r, k) PROVE BacklogIsBounded'
  BY <1>1 DEF Record, TypeOK, BacklogIsBounded
<1>2. ASSUME NEW r \in Recorder, NEW k \in Key, RecordOnce(r, k) PROVE BacklogIsBounded'
  BY <1>2 DEF RecordOnce, TypeOK, BacklogIsBounded
<1>3. ASSUME NEW r \in Recorder, FindExisting(r) PROVE BacklogIsBounded'
  BY <1>3 DEF FindExisting, TypeOK, BacklogIsBounded
<1>4. ASSUME NEW r \in Recorder, ReadHighest(r) PROVE BacklogIsBounded'
  BY <1>4 DEF ReadHighest, TypeOK, BacklogIsBounded
<1>5. ASSUME NEW r \in Recorder, Publish(r) PROVE BacklogIsBounded'
  BY <1>5 DEF Publish, TypeOK, BacklogIsBounded
<1>6. ASSUME NEW r \in Recorder, AppendEvent(r) PROVE BacklogIsBounded'
  BY <1>6 DEF AppendEvent, TypeOK, BacklogIsBounded
<1>7. ASSUME NEW r \in Recorder, ReadForCompaction(r) PROVE BacklogIsBounded'
  BY <1>7 DEF ReadForCompaction, TypeOK, BacklogIsBounded
<1>8. ASSUME NEW r \in Recorder, Rewrite(r) PROVE BacklogIsBounded'
  BY <1>8 DEF Rewrite, TypeOK, BacklogIsBounded
<1>9. ASSUME NEW c \in Client, Connect(c) PROVE BacklogIsBounded'
  <2>1. \E m \in Nat : \A e \in Backlog(client[c].since) : e.seq <= m
    <3>1. PICK m \in Nat : \A e \in ToSet(file) : e.seq <= m
      BY SeqsAreBounded DEF TypeOK
    <3>2. QED
      BY <3>1 DEF Backlog
  <2>2. QED
    BY <1>9, <2>1 DEF Connect, TypeOK, BacklogIsBounded
<1>10. ASSUME NEW c \in Client, Subscribe(c) PROVE BacklogIsBounded'
  <2>1. \A d \in Client : client'[d].backlog = {} \/ client'[d].backlog = client[d].backlog
    BY <1>10, SubscribeIs
  <2>2. QED
    BY <2>1, 0 \in Nat DEF BacklogIsBounded
<1>11. ASSUME NEW c \in Client, Heartbeat(c) PROVE BacklogIsBounded'
  BY <1>11 DEF Heartbeat, TypeOK, BacklogIsBounded
<1>12. ASSUME NEW c \in Client, Disconnect(c) PROVE BacklogIsBounded'
  <2>1. \A d \in Client : client'[d].backlog = {} \/ client'[d].backlog = client[d].backlog
    BY <1>12 DEF Disconnect, TypeOK, Off
  <2>2. QED
    BY <2>1, 0 \in Nat DEF BacklogIsBounded
<1>13. CASE Restart
  <2>1. \A d \in Client : client'[d].backlog = {}
    BY <1>13 DEF Restart, TypeOK, Off
  <2>2. QED
    BY <2>1, 0 \in Nat DEF BacklogIsBounded
<1>14. CASE UNCHANGED vars
  BY <1>14 DEF vars, TypeOK, BacklogIsBounded
<1>15. QED
  BY <1>1, <1>2, <1>3, <1>4, <1>5, <1>6, <1>7, <1>8, <1>9, <1>10, <1>11, <1>12, <1>13, <1>14
     DEF Next

\* ids are given once,
LEMMA IdsStep ==
  TypeOK /\ IdsAreGiven /\ BusTellsTheCall /\ [Next]_vars => IdsAreGiven'
<1> SUFFICES ASSUME TypeOK, IdsAreGiven, BusTellsTheCall, [Next]_vars
             PROVE  IdsAreGiven'
  OBVIOUS
<1>0. /\ issued + 1 \in 1 .. issued + 1 /\ issued + 1 \notin 1 .. issued
      /\ 1 .. issued \subseteq 1 .. issued + 1
      /\ ToSet(<<>>) = {} /\ Ids({}) = {}
  BY DEF TypeOK, ToSet, Ids
<1>1. ASSUME NEW r \in Recorder, NEW k \in Plain, Record(r, k) PROVE IdsAreGiven'
  <2>1. CallIds'
    BY <1>1, <1>0 DEF Record, TypeOK, CallIds, IdsAreGiven, Rewrites, Allocated, Idle
  <2>2. BusIds'
    BY <1>1, <1>0 DEF Record, TypeOK, BusIds, IdsAreGiven, Rewrites, Allocated, Idle
  <2>3. FileIds'
    BY <1>1, <1>0 DEF Record, TypeOK, FileIds, IdsAreGiven, Rewrites, Allocated, Idle
  <2>4. SeenIds'
    BY <1>1, <1>0 DEF Record, TypeOK, SeenIds, IdsAreGiven, Rewrites, Allocated, Idle
  <2>5. ReadIds'
    BY <1>1, <1>0 DEF Record, TypeOK, ReadIds, IdsAreGiven, Rewrites, Allocated, Idle
  <2>6. QED
    BY <2>1, <2>2, <2>3, <2>4, <2>5 DEF IdsAreGiven
<1>2. ASSUME NEW r \in Recorder, NEW k \in Key, RecordOnce(r, k) PROVE IdsAreGiven'
  <2>1. CallIds'
    BY <1>2, <1>0 DEF RecordOnce, TypeOK, CallIds, IdsAreGiven, Rewrites, Idle
  <2>2. BusIds'
    BY <1>2, <1>0 DEF RecordOnce, TypeOK, BusIds, IdsAreGiven, Rewrites, Idle
  <2>3. FileIds'
    BY <1>2, <1>0 DEF RecordOnce, TypeOK, FileIds, IdsAreGiven, Rewrites, Idle
  <2>4. SeenIds'
    BY <1>2, <1>0 DEF RecordOnce, TypeOK, SeenIds, IdsAreGiven, Rewrites, Idle
  <2>5. ReadIds'
    BY <1>2, <1>0 DEF RecordOnce, TypeOK, ReadIds, IdsAreGiven, Rewrites, Idle
  <2>6. QED
    BY <2>1, <2>2, <2>3, <2>4, <2>5 DEF IdsAreGiven
<1>3. ASSUME NEW r \in Recorder, FindExisting(r) PROVE IdsAreGiven'
  <2>1. CallIds'
    BY <1>3, FindIs DEF FindExisting, IdsAreGiven, CallIds, Idle
  <2>2. BusIds'
    BY <1>3, <1>0 DEF FindExisting, TypeOK, BusIds, IdsAreGiven, Rewrites
  <2>3. FileIds'
    BY <1>3, <1>0 DEF FindExisting, TypeOK, FileIds, IdsAreGiven, Rewrites
  <2>4. SeenIds'
    BY <1>3, FindIs DEF FindExisting, IdsAreGiven, SeenIds, Rewrites, Idle
  <2>5. ReadIds'
    BY <1>3, <1>0 DEF FindExisting, TypeOK, ReadIds, IdsAreGiven, Rewrites
  <2>6. QED
    BY <2>1, <2>2, <2>3, <2>4, <2>5 DEF IdsAreGiven
<1>4. ASSUME NEW r \in Recorder, ReadHighest(r) PROVE IdsAreGiven'
  <2>1. CallIds'
    BY <1>4, <1>0 DEF ReadHighest, TypeOK, CallIds, IdsAreGiven, Rewrites
  <2>2. BusIds'
    BY <1>4, <1>0 DEF ReadHighest, TypeOK, BusIds, IdsAreGiven, Rewrites
  <2>3. FileIds'
    BY <1>4, <1>0 DEF ReadHighest, TypeOK, FileIds, IdsAreGiven, Rewrites
  <2>4. SeenIds'
    BY <1>4, <1>0 DEF ReadHighest, TypeOK, SeenIds, IdsAreGiven, Rewrites
  <2>5. ReadIds'
    BY <1>4, <1>0 DEF ReadHighest, TypeOK, ReadIds, IdsAreGiven, Rewrites
  <2>6. QED
    BY <2>1, <2>2, <2>3, <2>4, <2>5 DEF IdsAreGiven
<1>5. ASSUME NEW r \in Recorder, Publish(r) PROVE IdsAreGiven'
  <2>1. CallIds'
    BY <1>5, <1>0 DEF Publish, TypeOK, CallIds, IdsAreGiven, Rewrites
  <2>2. BusIds'
    <3>1. ToSet(published') = ToSet(published) \cup {Published(r)} /\ Published(r).id = call[r].id
      BY <1>5, PublishedIs, AppendAdds DEF Publish, Published
    <3>2. QED
      BY <1>5, <3>1 DEF Publish, IdsAreGiven, BusIds, CallIds, Ids
  <2>3. FileIds'
    BY <1>5, <1>0 DEF Publish, TypeOK, FileIds, IdsAreGiven, Rewrites
  <2>4. SeenIds'
    BY <1>5, <1>0 DEF Publish, TypeOK, SeenIds, IdsAreGiven, Rewrites
  <2>5. ReadIds'
    BY <1>5, <1>0 DEF Publish, TypeOK, ReadIds, IdsAreGiven, Rewrites
  <2>6. QED
    BY <2>1, <2>2, <2>3, <2>4, <2>5 DEF IdsAreGiven
<1>6. ASSUME NEW r \in Recorder, AppendEvent(r) PROVE IdsAreGiven'
  <2>1. CallIds'
    BY <1>6, <1>0 DEF AppendEvent, TypeOK, CallIds, IdsAreGiven, Rewrites, Idle
  <2>2. BusIds'
    BY <1>6, <1>0 DEF AppendEvent, TypeOK, BusIds, IdsAreGiven, Rewrites, Idle
  <2>3. FileIds'
    <3>1. ToSet(file') = ToSet(file) \cup {EventOf(r)} /\ EventOf(r).id = call[r].id
      BY <1>6, EventOfIs, AppendAdds DEF AppendEvent, TypeOK
    <3>2. QED
      BY <1>6, <3>1 DEF AppendEvent, IdsAreGiven, FileIds, CallIds, Ids
  <2>4. SeenIds'
    BY <1>6, <1>0 DEF AppendEvent, TypeOK, SeenIds, IdsAreGiven, Rewrites, Idle
  <2>5. ReadIds'
    BY <1>6, <1>0 DEF AppendEvent, TypeOK, ReadIds, IdsAreGiven, Rewrites, Idle
  <2>6. QED
    BY <2>1, <2>2, <2>3, <2>4, <2>5 DEF IdsAreGiven
<1>7. ASSUME NEW r \in Recorder, ReadForCompaction(r) PROVE IdsAreGiven'
  <2>1. CallIds'
    BY <1>7, <1>0 DEF ReadForCompaction, TypeOK, CallIds, IdsAreGiven, Rewrites
  <2>2. BusIds'
    BY <1>7, <1>0 DEF ReadForCompaction, TypeOK, BusIds, IdsAreGiven, Rewrites
  <2>3. FileIds'
    BY <1>7, <1>0 DEF ReadForCompaction, TypeOK, FileIds, IdsAreGiven, Rewrites
  <2>4. SeenIds'
    <3>1. call'[r].seen = file /\ \A q \in Recorder : q # r => call'[q] = call[q]
      BY <1>7 DEF ReadForCompaction, TypeOK, Call
    <3>2. QED
      BY <1>7, <3>1 DEF ReadForCompaction, IdsAreGiven, SeenIds, FileIds, Rewrites
  <2>5. ReadIds'
    BY <1>7, <1>0 DEF ReadForCompaction, TypeOK, ReadIds, IdsAreGiven, Rewrites
  <2>6. QED
    BY <2>1, <2>2, <2>3, <2>4, <2>5 DEF IdsAreGiven
<1>8. ASSUME NEW r \in Recorder, Rewrite(r) PROVE IdsAreGiven'
  <2>1. CallIds'
    BY <1>8, <1>0 DEF Rewrite, TypeOK, CallIds, IdsAreGiven, Rewrites, Idle
  <2>2. BusIds'
    BY <1>8, <1>0 DEF Rewrite, TypeOK, BusIds, IdsAreGiven, Rewrites, Idle
  <2>3. FileIds'
    <3>1. ToSet(file') \subseteq ToSet(call[r].seen) \cup ToSet(file)
      <4>1. call[r].seen \in Seq(Event)
        BY DEF TypeOK, Call
      <4>2. QED
        BY <1>8, <4>1, CompactedKeeps, KeptIs DEF Rewrite
    <3>2. QED
      BY <1>8, <3>1 DEF Rewrite, Rewrites, IdsAreGiven, FileIds, SeenIds, Ids
  <2>4. SeenIds'
    BY <1>8, <1>0 DEF Rewrite, TypeOK, SeenIds, IdsAreGiven, Rewrites, Idle
  <2>5. ReadIds'
    BY <1>8, <1>0 DEF Rewrite, TypeOK, ReadIds, IdsAreGiven, Rewrites, Idle
  <2>6. QED
    BY <2>1, <2>2, <2>3, <2>4, <2>5 DEF IdsAreGiven
<1>9. ASSUME NEW c \in Client, Connect(c) PROVE IdsAreGiven'
  <2>1. CallIds'
    BY <1>9, <1>0 DEF Connect, TypeOK, CallIds, IdsAreGiven, Rewrites
  <2>2. BusIds'
    BY <1>9, <1>0 DEF Connect, TypeOK, BusIds, IdsAreGiven, Rewrites
  <2>3. FileIds'
    BY <1>9, <1>0 DEF Connect, TypeOK, FileIds, IdsAreGiven, Rewrites
  <2>4. SeenIds'
    BY <1>9, <1>0 DEF Connect, TypeOK, SeenIds, IdsAreGiven, Rewrites
  <2>5. ReadIds'
    BY <1>9 DEF Connect, TypeOK, IdsAreGiven, ReadIds, FileIds, Ids
  <2>6. QED
    BY <2>1, <2>2, <2>3, <2>4, <2>5 DEF IdsAreGiven
<1>10. ASSUME NEW c \in Client, Subscribe(c) PROVE IdsAreGiven'
  <2>1. CallIds'
    BY <1>10, <1>0 DEF Subscribe, TypeOK, CallIds, IdsAreGiven, Rewrites
  <2>2. BusIds'
    BY <1>10, <1>0 DEF Subscribe, TypeOK, BusIds, IdsAreGiven, Rewrites
  <2>3. FileIds'
    BY <1>10, <1>0 DEF Subscribe, TypeOK, FileIds, IdsAreGiven, Rewrites
  <2>4. SeenIds'
    BY <1>10, <1>0 DEF Subscribe, TypeOK, SeenIds, IdsAreGiven, Rewrites
  <2>5. ReadIds'
    BY <1>10, SubscribeIs DEF Subscribe, IdsAreGiven, ReadIds
  <2>6. QED
    BY <2>1, <2>2, <2>3, <2>4, <2>5 DEF IdsAreGiven
<1>11. ASSUME NEW c \in Client, Heartbeat(c) PROVE IdsAreGiven'
  <2>1. CallIds'
    BY <1>11, <1>0 DEF Heartbeat, TypeOK, CallIds, IdsAreGiven, Rewrites
  <2>2. BusIds'
    BY <1>11, <1>0 DEF Heartbeat, TypeOK, BusIds, IdsAreGiven, Rewrites
  <2>3. FileIds'
    BY <1>11, <1>0 DEF Heartbeat, TypeOK, FileIds, IdsAreGiven, Rewrites
  <2>4. SeenIds'
    BY <1>11, <1>0 DEF Heartbeat, TypeOK, SeenIds, IdsAreGiven, Rewrites
  <2>5. ReadIds'
    BY <1>11, <1>0 DEF Heartbeat, TypeOK, ReadIds, IdsAreGiven, Rewrites
  <2>6. QED
    BY <2>1, <2>2, <2>3, <2>4, <2>5 DEF IdsAreGiven
<1>12. ASSUME NEW c \in Client, Disconnect(c) PROVE IdsAreGiven'
  <2>1. CallIds'
    BY <1>12, <1>0 DEF Disconnect, TypeOK, CallIds, IdsAreGiven, Rewrites, Off
  <2>2. BusIds'
    BY <1>12, <1>0 DEF Disconnect, TypeOK, BusIds, IdsAreGiven, Rewrites, Off
  <2>3. FileIds'
    BY <1>12, <1>0 DEF Disconnect, TypeOK, FileIds, IdsAreGiven, Rewrites, Off
  <2>4. SeenIds'
    BY <1>12, <1>0 DEF Disconnect, TypeOK, SeenIds, IdsAreGiven, Rewrites, Off
  <2>5. ReadIds'
    BY <1>12, <1>0 DEF Disconnect, TypeOK, ReadIds, IdsAreGiven, Rewrites, Off
  <2>6. QED
    BY <2>1, <2>2, <2>3, <2>4, <2>5 DEF IdsAreGiven
<1>13. CASE Restart
  <2>1. CallIds'
    BY <1>13, <1>0 DEF Restart, TypeOK, CallIds, IdsAreGiven, Rewrites, Off, Idle
  <2>2. BusIds'
    BY <1>13, <1>0 DEF Restart, TypeOK, BusIds, IdsAreGiven, Rewrites, Off, Idle
  <2>3. FileIds'
    BY <1>13, <1>0 DEF Restart, TypeOK, FileIds, IdsAreGiven, Rewrites, Off, Idle
  <2>4. SeenIds'
    BY <1>13, <1>0 DEF Restart, TypeOK, SeenIds, IdsAreGiven, Rewrites, Off, Idle
  <2>5. ReadIds'
    BY <1>13, <1>0 DEF Restart, TypeOK, ReadIds, IdsAreGiven, Rewrites, Off, Idle
  <2>6. QED
    BY <2>1, <2>2, <2>3, <2>4, <2>5 DEF IdsAreGiven
<1>14. CASE UNCHANGED vars
  BY <1>14 DEF vars, TypeOK, IdsAreGiven, CallIds, BusIds, FileIds, SeenIds, ReadIds, Rewrites
<1>15. QED
  BY <1>1, <1>2, <1>3, <1>4, <1>5, <1>6, <1>7, <1>8, <1>9, <1>10, <1>11, <1>12, <1>13, <1>14
     DEF Next

\* and the bus has what is published.
LEMMA BusStep ==
  TypeOK /\ IdsAreGiven /\ BusTellsTheCall /\ [Next]_vars => BusTellsTheCall'
<1> SUFFICES ASSUME TypeOK, IdsAreGiven, BusTellsTheCall, [Next]_vars
             PROVE  BusTellsTheCall'
  OBVIOUS
<1>0. /\ issued + 1 \notin 1 .. issued /\ ToSet(<<>>) = {} /\ Ids({}) = {} /\ BusIds /\ CallIds
  BY DEF TypeOK, ToSet, Ids, IdsAreGiven
<1>1. ASSUME NEW r \in Recorder, NEW k \in Plain, Record(r, k) PROVE BusTellsTheCall'
  BY <1>1, <1>0 DEF Record, TypeOK, BusTellsTheCall, Waits, BusIds, Allocated, Idle
<1>2. ASSUME NEW r \in Recorder, NEW k \in Key, RecordOnce(r, k) PROVE BusTellsTheCall'
  BY <1>2, <1>0 DEF RecordOnce, TypeOK, BusTellsTheCall, Waits, BusIds, Idle
<1>3. ASSUME NEW r \in Recorder, FindExisting(r) PROVE BusTellsTheCall'
  BY <1>3, FindIs DEF FindExisting, BusTellsTheCall, Waits, Idle
<1>4. ASSUME NEW r \in Recorder, ReadHighest(r) PROVE BusTellsTheCall'
  BY <1>4 DEF ReadHighest, TypeOK, BusTellsTheCall, Waits
<1>5. ASSUME NEW r \in Recorder, Publish(r) PROVE BusTellsTheCall'
  <2>1. ToSet(published') = ToSet(published) \cup {Published(r)}
    BY <1>5, PublishedIs, AppendAdds DEF Publish, Published
  <2>2. /\ \A q \in Recorder : q # r => call'[q] = call[q]
        /\ call'[r].pc = "append" /\ call'[r].id = call[r].id /\ call'[r].key = call[r].key
    BY <1>5 DEF Publish, TypeOK, Call
  <2>3. Published(r).id = call[r].id /\ Published(r).key = call[r].key
    BY DEF Published
  <2>4. call[r].id \notin Ids(ToSet(published))
    BY <1>5 DEF Publish, BusTellsTheCall, Waits
  <2>5. Ids(ToSet(published')) = Ids(ToSet(published)) \cup {call[r].id}
    BY <2>1, <2>3 DEF Ids
  <2>6. ASSUME NEW q \in Recorder, q # r, call[q].pc # "idle" PROVE call[q].id # call[r].id
    BY <1>5, <1>0, <2>6 DEF Publish, CallIds
  <2>7. ASSUME NEW q \in Recorder, Waits(q)' PROVE call'[q].id \notin Ids(ToSet(published'))
    BY <2>2, <2>5, <2>6, <2>7 DEF BusTellsTheCall, Waits
  <2>8. ASSUME NEW q \in Recorder, call'[q].pc = "append"
        PROVE  /\ call'[q].id \in Ids(ToSet(published'))
               /\ \A e \in ToSet(published') : e.id = call'[q].id => e.key = call'[q].key
    <3>1. CASE q = r
      BY <2>1, <2>2, <2>3, <2>4, <2>5, <3>1 DEF Ids
    <3>2. CASE q # r
      BY <2>1, <2>2, <2>3, <2>5, <2>6, <2>8, <3>2 DEF BusTellsTheCall
    <3>3. QED
      BY <3>1, <3>2
  <2>9. QED
    BY <2>7, <2>8 DEF BusTellsTheCall
<1>6. ASSUME NEW r \in Recorder, AppendEvent(r) PROVE BusTellsTheCall'
  <2>1. call'[r].pc \in {"idle", "compact"} /\ \A q \in Recorder : q # r => call'[q] = call[q]
    BY <1>6 DEF AppendEvent, TypeOK, Call, Idle
  <2>2. QED
    BY <1>6, <2>1 DEF AppendEvent, BusTellsTheCall, Waits
<1>7. ASSUME NEW r \in Recorder, ReadForCompaction(r) PROVE BusTellsTheCall'
  BY <1>7 DEF ReadForCompaction, TypeOK, BusTellsTheCall, Waits
<1>8. ASSUME NEW r \in Recorder, Rewrite(r) PROVE BusTellsTheCall'
  BY <1>8 DEF Rewrite, TypeOK, BusTellsTheCall, Waits, Idle
<1>9. ASSUME NEW c \in Client, Connect(c) PROVE BusTellsTheCall'
  BY <1>9 DEF Connect, TypeOK, BusTellsTheCall, Waits
<1>10. ASSUME NEW c \in Client, Subscribe(c) PROVE BusTellsTheCall'
  BY <1>10 DEF Subscribe, TypeOK, BusTellsTheCall, Waits
<1>11. ASSUME NEW c \in Client, Heartbeat(c) PROVE BusTellsTheCall'
  BY <1>11 DEF Heartbeat, TypeOK, BusTellsTheCall, Waits
<1>12. ASSUME NEW c \in Client, Disconnect(c) PROVE BusTellsTheCall'
  BY <1>12 DEF Disconnect, TypeOK, BusTellsTheCall, Waits
<1>13. CASE Restart
  BY <1>13 DEF Restart, TypeOK, BusTellsTheCall, Waits, Idle
<1>14. CASE UNCHANGED vars
  BY <1>14 DEF vars, TypeOK, BusTellsTheCall, Waits
<1>15. QED
  BY <1>1, <1>2, <1>3, <1>4, <1>5, <1>6, <1>7, <1>8, <1>9, <1>10, <1>11, <1>12, <1>13, <1>14
     DEF Next

\* What an append and a rewrite do to the file.
LEMMA AppendIs ==
  ASSUME TypeOK, BusTellsTheCall, NEW r \in Recorder, AppendEvent(r)
  PROVE  /\ file' = Append(file, EventOf(r)) /\ ToSet(file') = ToSet(file) \cup {EventOf(r)}
         /\ EventOf(r) \in Event /\ EventOf(r) \in ToSet(published)
         /\ EventOf(r).id = call[r].id /\ EventOf(r).key = call[r].key
         /\ call[r].pc = "append" /\ \A q \in Recorder : q # r => call'[q] = call[q]
         /\ \/ call'[r] = Idle
            \/ /\ call'[r].pc = "compact" /\ call[r].key = Usage
               /\ call'[r].key = Usage /\ call'[r].id = call[r].id
         /\ raced \subseteq raced'
         /\ \A q \in Recorder : Rewrites(q) => raced' = raced \cup {call[r].id}
<1>1. /\ EventOf(r) \in ToSet(published) /\ EventOf(r) \in Event
      /\ EventOf(r).id = call[r].id /\ EventOf(r).key = call[r].key
  BY EventOfIs DEF AppendEvent
<1>2. file' = Append(file, EventOf(r)) /\ ToSet(file') = ToSet(file) \cup {EventOf(r)}
  BY <1>1, AppendAdds DEF AppendEvent, TypeOK
<1>3. \A q \in Recorder : q # r => call'[q] = call[q]
  BY DEF AppendEvent, TypeOK
<1>4. \/ call'[r] = Idle
      \/ /\ call'[r].pc = "compact" /\ call[r].key = Usage
         /\ call'[r].key = Usage /\ call'[r].id = call[r].id
  BY DEF AppendEvent, TypeOK, Call
<1>5. raced \subseteq raced' /\ \A q \in Recorder : Rewrites(q) => raced' = raced \cup {call[r].id}
  BY DEF AppendEvent, Rewrites
<1>6. QED
  BY <1>1, <1>2, <1>3, <1>4, <1>5 DEF AppendEvent

\* What a rewrite does to the file.
LEMMA RewriteIs ==
  ASSUME TypeOK, NEW r \in Recorder, Rewrite(r)
  PROVE  /\ \/ file' = file
            \/ /\ file' = Compacted(call[r].seen)
               /\ ToSet(file') = KeptOf(call[r].seen)
         /\ call[r].seen \in Seq(Event) /\ Rewrites(r)
         /\ KeptOf(call[r].seen) \subseteq ToSet(call[r].seen) /\ ToSet(call[r].seen) \subseteq Event
         /\ call'[r] = Idle /\ \A q \in Recorder : q # r => call'[q] = call[q]
         /\ raced' = raced
<1>1. call[r].seen \in Seq(Event)
  BY DEF TypeOK, Call
<1>2. KeptOf(call[r].seen) \subseteq ToSet(call[r].seen) /\ ToSet(call[r].seen) \subseteq Event
  BY <1>1, KeptIs, ToSetIs
<1>3. QED
  BY <1>1, <1>2, CompactedKeeps DEF Rewrite, Rewrites, TypeOK

\* One recordOnce at a time works on the log.
LEMMA OneAtATimeStep ==
  TypeOK /\ BusTellsTheCall /\ OneAtATime /\ ReadIsTheFile /\ [Next]_vars => OneAtATime'
<1> SUFFICES ASSUME TypeOK, BusTellsTheCall, OneAtATime, ReadIsTheFile, [Next]_vars
             PROVE  OneAtATime'
  OBVIOUS
<1>0. NoKey \notin Key /\ Usage \notin Key /\ Plain \cap Key = {}
  BY EventStreamAssumption
<1>1. ASSUME NEW r \in Recorder, NEW k \in Plain, Record(r, k) PROVE OneAtATime'
  BY <1>1, <1>0 DEF Record, TypeOK, OneAtATime, Records, Allocated, Idle
<1>2. ASSUME NEW r \in Recorder, NEW k \in Key, RecordOnce(r, k) PROVE OneAtATime'
  BY <1>2, <1>0 DEF RecordOnce, TypeOK, OneAtATime, Records, Idle
<1>3. ASSUME NEW r \in Recorder, FindExisting(r) PROVE OneAtATime'
  <2>1. ASSUME NEW e \in ToSet(file), e.key = call[r].key PROVE IsRecorded(call[r].key)
    BY <2>1 DEF IsRecorded, ToSet, TypeOK
  <2>2. QED
    BY <1>3, <1>0, <2>1, FindIs DEF FindExisting, OneAtATime, Records, Idle
<1>4. ASSUME NEW r \in Recorder, ReadHighest(r) PROVE OneAtATime'
  BY <1>4 DEF ReadHighest, TypeOK, OneAtATime, Records
<1>5. ASSUME NEW r \in Recorder, Publish(r) PROVE OneAtATime'
  BY <1>5 DEF Publish, TypeOK, OneAtATime, Records
<1>6. ASSUME NEW r \in Recorder, AppendEvent(r) PROVE OneAtATime'
  <2>1. ASSUME NEW p \in Recorder, NEW q \in Recorder, p # q,
               call'[p].key \in Key, call'[q].key \in Key
        PROVE  call'[p].pc = "queued" \/ call'[q].pc = "queued"
    BY <1>6, <1>0, <2>1, AppendIs DEF OneAtATime, Idle
  <2>2. ASSUME NEW q \in Recorder, NEW e \in ToSet(file'),
               Records(q)', call'[q].key \in Key, e.key = call'[q].key
        PROVE  e.id \in raced'
    <3>1. q # r /\ call'[q] = call[q] /\ Records(q)
      BY <1>6, <2>2, AppendIs DEF Records, Idle
    <3>2. e # EventOf(r)
      BY <1>6, <2>2, <3>1, AppendIs DEF OneAtATime, Records
    <3>3. QED
      BY <1>6, <2>2, <3>1, <3>2, AppendIs DEF OneAtATime
  <2>3. QED
    BY <2>1, <2>2 DEF OneAtATime
<1>7. ASSUME NEW r \in Recorder, ReadForCompaction(r) PROVE OneAtATime'
  BY <1>7 DEF ReadForCompaction, TypeOK, OneAtATime, Records
<1>8. ASSUME NEW r \in Recorder, Rewrite(r) PROVE OneAtATime'
  <2>1. ASSUME NEW p \in Recorder, NEW q \in Recorder, p # q,
               call'[p].key \in Key, call'[q].key \in Key
        PROVE  call'[p].pc = "queued" \/ call'[q].pc = "queued"
    BY <1>8, <1>0, <2>1, RewriteIs DEF OneAtATime, Idle
  <2>2. ASSUME NEW q \in Recorder, NEW e \in ToSet(file'),
               Records(q)', call'[q].key \in Key, e.key = call'[q].key
        PROVE  e.id \in raced'
    <3>1. call'[q] = call[q] /\ Records(q) /\ raced' = raced /\ e.key # Usage
      BY <1>8, <1>0, <2>2, RewriteIs DEF Records, Idle
    <3>2. e \in ToSet(file) \/ (e \in ToSet(call[r].seen) /\ e \in Event)
      <4>1. ToSet(file') = ToSet(file) \/ ToSet(file') \subseteq ToSet(call[r].seen)
        BY <1>8, RewriteIs
      <4>2. QED
        BY <1>8, <2>2, <4>1, RewriteIs
    <3>3. e.id \in raced \/ e \in ToSet(file)
      BY <1>8, <3>1, <3>2, RewriteIs DEF ReadIsTheFile
    <3>4. QED
      BY <2>2, <3>1, <3>3 DEF OneAtATime
  <2>3. QED
    BY <2>1, <2>2 DEF OneAtATime
<1>9. ASSUME NEW c \in Client, Connect(c) PROVE OneAtATime'
  BY <1>9 DEF Connect, TypeOK, OneAtATime, Records
<1>10. ASSUME NEW c \in Client, Subscribe(c) PROVE OneAtATime'
  BY <1>10 DEF Subscribe, TypeOK, OneAtATime, Records
<1>11. ASSUME NEW c \in Client, Heartbeat(c) PROVE OneAtATime'
  BY <1>11 DEF Heartbeat, TypeOK, OneAtATime, Records
<1>12. ASSUME NEW c \in Client, Disconnect(c) PROVE OneAtATime'
  BY <1>12 DEF Disconnect, TypeOK, OneAtATime, Records
<1>13. CASE Restart
  BY <1>13, <1>0 DEF Restart, TypeOK, OneAtATime, Records, Idle
<1>14. CASE UNCHANGED vars
  BY <1>14 DEF vars, TypeOK, OneAtATime, Records
<1>15. QED
  BY <1>1, <1>2, <1>3, <1>4, <1>5, <1>6, <1>7, <1>8, <1>9, <1>10, <1>11, <1>12, <1>13, <1>14
     DEF Next

\* What a compaction has read stays the file, but for usage and what is appended meanwhile.
LEMMA ReadIsTheFileStep ==
  TypeOK /\ BusTellsTheCall /\ ReadIsTheFile /\ [Next]_vars => ReadIsTheFile'
<1> SUFFICES ASSUME TypeOK, BusTellsTheCall, ReadIsTheFile, [Next]_vars
             PROVE  ReadIsTheFile'
  OBVIOUS
<1>1. ASSUME NEW r \in Recorder, NEW k \in Plain, Record(r, k) PROVE ReadIsTheFile'
  BY <1>1 DEF Record, TypeOK, ReadIsTheFile, Rewrites, Allocated, Idle
<1>2. ASSUME NEW r \in Recorder, NEW k \in Key, RecordOnce(r, k) PROVE ReadIsTheFile'
  BY <1>2 DEF RecordOnce, TypeOK, ReadIsTheFile, Rewrites, Idle
<1>3. ASSUME NEW r \in Recorder, FindExisting(r) PROVE ReadIsTheFile'
  BY <1>3, FindIs DEF FindExisting, ReadIsTheFile, Rewrites, Idle
<1>4. ASSUME NEW r \in Recorder, ReadHighest(r) PROVE ReadIsTheFile'
  <2>1. /\ call'[r].pc \notin {"compact", "rewrite"} /\ file' = file /\ raced' = raced
        /\ \A q \in Recorder : q # r => call'[q] = call[q]
    BY <1>4 DEF ReadHighest, TypeOK, Call
  <2>2. QED
    BY <2>1 DEF ReadIsTheFile, Rewrites
<1>5. ASSUME NEW r \in Recorder, Publish(r) PROVE ReadIsTheFile'
  <2>1. /\ call'[r].pc \notin {"compact", "rewrite"} /\ file' = file /\ raced' = raced
        /\ \A q \in Recorder : q # r => call'[q] = call[q]
    BY <1>5 DEF Publish, TypeOK, Call
  <2>2. QED
    BY <2>1 DEF ReadIsTheFile, Rewrites
<1>6. ASSUME NEW r \in Recorder, AppendEvent(r) PROVE ReadIsTheFile'
  <2>1. ASSUME NEW q \in Recorder, NEW e \in Event, Rewrites(q)', e.key # Usage, e.id \notin raced'
        PROVE  e \in ToSet(call'[q].seen) <=> e \in ToSet(file')
    <3>1. q # r /\ call'[q] = call[q] /\ Rewrites(q)
      BY <1>6, <2>1, AppendIs DEF Rewrites, Idle
    <3>2. e.id \notin raced /\ e # EventOf(r)
      BY <1>6, <2>1, <3>1, AppendIs
    <3>3. QED
      BY <1>6, <2>1, <3>1, <3>2, AppendIs DEF ReadIsTheFile
  <2>2. ASSUME NEW q \in Recorder, call'[q].pc = "compact" PROVE \E e \in ToSet(file') : e.key = Usage
    BY <1>6, <2>2, AppendIs DEF ReadIsTheFile, Idle
  <2>3. ASSUME NEW q \in Recorder, Rewrites(q)' PROVE \E e \in ToSet(call'[q].seen) : e.key = Usage
    BY <1>6, <2>3, AppendIs DEF ReadIsTheFile, Idle, Rewrites
  <2>4. QED
    BY <2>1, <2>2, <2>3 DEF ReadIsTheFile
<1>7. ASSUME NEW r \in Recorder, ReadForCompaction(r) PROVE ReadIsTheFile'
  <2>1. /\ call[r].pc = "compact" /\ call'[r].seen = file /\ file' = file /\ raced' = raced
        /\ call'[r].pc = "rewrite" /\ \A q \in Recorder : q # r => call'[q] = call[q]
    BY <1>7 DEF ReadForCompaction, TypeOK, Call
  <2>2. QED
    BY <2>1 DEF ReadIsTheFile, Rewrites
<1>8. ASSUME NEW r \in Recorder, Rewrite(r) PROVE ReadIsTheFile'
  <2>1. ASSUME NEW q \in Recorder, NEW e \in Event, Rewrites(q)', e.key # Usage, e.id \notin raced'
        PROVE  e \in ToSet(call'[q].seen) <=> e \in ToSet(file')
    <3>1. call'[q] = call[q] /\ Rewrites(q) /\ e.id \notin raced
      BY <1>8, <2>1, RewriteIs DEF Rewrites, Idle
    <3>2. e \in ToSet(file') <=> e \in ToSet(file)
      <4>1. CASE file' = file
        BY <4>1
      <4>2. CASE ToSet(file') = KeptOf(call[r].seen)
        <5>1. e \in KeptOf(call[r].seen) <=> e \in ToSet(call[r].seen)
          BY <1>8, <2>1, RewriteIs, KeptIs
        <5>2. e \in ToSet(call[r].seen) <=> e \in ToSet(file)
          BY <1>8, <2>1, <3>1, RewriteIs DEF ReadIsTheFile
        <5>3. QED
          BY <4>2, <5>1, <5>2
      <4>3. QED
        BY <1>8, <4>1, <4>2, RewriteIs
    <3>3. QED
      BY <2>1, <3>1, <3>2 DEF ReadIsTheFile
  <2>2. ASSUME NEW q \in Recorder, call'[q].pc = "compact" PROVE \E e \in ToSet(file') : e.key = Usage
    <3>1. \E e \in ToSet(file) : e.key = Usage
      BY <1>8, <2>2, RewriteIs DEF ReadIsTheFile, Idle
    <3>2. \E e \in KeptOf(call[r].seen) : e.key = Usage
      BY <1>8, RewriteIs, KeptIs DEF ReadIsTheFile
    <3>3. QED
      BY <1>8, <3>1, <3>2, RewriteIs
  <2>3. ASSUME NEW q \in Recorder, Rewrites(q)' PROVE \E e \in ToSet(call'[q].seen) : e.key = Usage
    BY <1>8, <2>3, RewriteIs DEF ReadIsTheFile, Idle, Rewrites
  <2>4. QED
    BY <2>1, <2>2, <2>3 DEF ReadIsTheFile
<1>9. ASSUME NEW c \in Client, Connect(c) PROVE ReadIsTheFile'
  BY <1>9 DEF Connect, TypeOK, ReadIsTheFile, Rewrites
<1>10. ASSUME NEW c \in Client, Subscribe(c) PROVE ReadIsTheFile'
  BY <1>10 DEF Subscribe, TypeOK, ReadIsTheFile, Rewrites
<1>11. ASSUME NEW c \in Client, Heartbeat(c) PROVE ReadIsTheFile'
  BY <1>11 DEF Heartbeat, TypeOK, ReadIsTheFile, Rewrites
<1>12. ASSUME NEW c \in Client, Disconnect(c) PROVE ReadIsTheFile'
  BY <1>12 DEF Disconnect, TypeOK, ReadIsTheFile, Rewrites
<1>13. CASE Restart
  BY <1>13 DEF Restart, TypeOK, ReadIsTheFile, Rewrites, Idle
<1>14. CASE UNCHANGED vars
  BY <1>14 DEF vars, TypeOK, ReadIsTheFile, Rewrites
<1>15. QED
  BY <1>1, <1>2, <1>3, <1>4, <1>5, <1>6, <1>7, <1>8, <1>9, <1>10, <1>11, <1>12, <1>13, <1>14
     DEF Next

\* No step takes a recorded event out of the file but usage and what was appended under a
\* compaction.
LEMMA LostStep ==
  ASSUME TypeOK, BusTellsTheCall, ReadIsTheFile, [Next]_vars, NEW e \in ToSet(file) \ ToSet(file')
  PROVE  e.id \in raced \/ (e.key = Usage /\ \E u \in ToSet(file') : u.key = Usage)
<1>1. ASSUME NEW r \in Recorder, Rewrite(r)
      PROVE  e.id \in raced \/ (e.key = Usage /\ \E u \in ToSet(file') : u.key = Usage)
  <2>1. ToSet(file') = KeptOf(call[r].seen)
    BY <1>1, RewriteIs
  <2>2. \E u \in KeptOf(call[r].seen) : u.key = Usage
    BY <1>1, RewriteIs, KeptIs DEF ReadIsTheFile
  <2>3. ASSUME e.key # Usage, e.id \notin raced PROVE FALSE
    <3>1. e \in Event
      BY ToSetIs DEF TypeOK
    <3>2. e \in ToSet(call[r].seen)
      BY <1>1, <2>3, <3>1, RewriteIs DEF ReadIsTheFile
    <3>3. QED
      BY <1>1, <2>1, <2>3, <3>2, RewriteIs, KeptIs
  <2>4. QED
    BY <2>1, <2>2, <2>3
<1>2. ASSUME NEW r \in Recorder, AppendEvent(r) PROVE FALSE
  BY <1>2, AppendIs
<1>3. CASE file' = file
  BY <1>3
<1>4. QED
  BY <1>1, <1>2, <1>3
     DEF Next, Record, RecordOnce, FindExisting, ReadHighest, Publish, ReadForCompaction, Connect,
         Subscribe, Heartbeat, Disconnect, Restart, vars

\* What is true of each two places of a log is true of each two places of what is left of it.
LEMMA OnceCompacted ==
  ASSUME NEW s \in Seq(Event), Once(s)
  PROVE  Once(Compacted(s))
<1>1. PICK at \in [DOMAIN Compacted(s) -> Kept(s)] :
        /\ \A n \in DOMAIN Compacted(s) : Compacted(s)[n] = s[at[n]]
        /\ \A n, m \in DOMAIN Compacted(s) : at[n] = at[m] => n = m
        /\ \A i \in Kept(s) : \E n \in DOMAIN Compacted(s) : at[n] = i
  BY CompactedIs
<1>2. Kept(s) \subseteq DOMAIN s
  BY DEF Kept
<1>3. QED
  BY <1>1, <1>2 DEF Once

\* The same of the seqs.
LEMMA ApartCompacted ==
  ASSUME NEW s \in Seq(Event), Apart(s)
  PROVE  Apart(Compacted(s))
<1>1. PICK at \in [DOMAIN Compacted(s) -> Kept(s)] :
        /\ \A n \in DOMAIN Compacted(s) : Compacted(s)[n] = s[at[n]]
        /\ \A n, m \in DOMAIN Compacted(s) : at[n] = at[m] => n = m
        /\ \A i \in Kept(s) : \E n \in DOMAIN Compacted(s) : at[n] = i
  BY CompactedIs
<1>2. Kept(s) \subseteq DOMAIN s
  BY DEF Kept
<1>3. QED
  BY <1>1, <1>2 DEF Apart

\* No step brings a second event of a key.
LEMMA OnceStep ==
  TypeOK /\ BusTellsTheCall /\ OneAtATime /\ OnceEverywhere /\ [Next]_vars => OnceEverywhere'
<1> SUFFICES ASSUME TypeOK, BusTellsTheCall, OneAtATime, OnceEverywhere, [Next]_vars
             PROVE  OnceEverywhere'
  OBVIOUS
<1>1. ASSUME NEW r \in Recorder, NEW k \in Plain, Record(r, k) PROVE OnceEverywhere'
  BY <1>1 DEF Record, TypeOK, OnceEverywhere, Once, Rewrites, Allocated, Idle
<1>2. ASSUME NEW r \in Recorder, NEW k \in Key, RecordOnce(r, k) PROVE OnceEverywhere'
  BY <1>2 DEF RecordOnce, TypeOK, OnceEverywhere, Once, Rewrites, Idle
<1>3. ASSUME NEW r \in Recorder, FindExisting(r) PROVE OnceEverywhere'
  BY <1>3, FindIs DEF FindExisting, OnceEverywhere, Once, Rewrites, Idle
<1>4. ASSUME NEW r \in Recorder, ReadHighest(r) PROVE OnceEverywhere'
  <2>1. /\ call'[r].pc # "rewrite" /\ file' = file /\ raced' = raced
        /\ \A q \in Recorder : q # r => call'[q] = call[q]
    BY <1>4 DEF ReadHighest, TypeOK, Call
  <2>2. QED
    BY <2>1 DEF OnceEverywhere, Once, Rewrites
<1>5. ASSUME NEW r \in Recorder, Publish(r) PROVE OnceEverywhere'
  <2>1. /\ call'[r].pc # "rewrite" /\ file' = file /\ raced' = raced
        /\ \A q \in Recorder : q # r => call'[q] = call[q]
    BY <1>5 DEF Publish, TypeOK, Call
  <2>2. QED
    BY <2>1 DEF OnceEverywhere, Once, Rewrites
<1>6. ASSUME NEW r \in Recorder, AppendEvent(r) PROVE OnceEverywhere'
  <2>1. Once(file)'
    <3>1. SUFFICES ASSUME NEW i \in DOMAIN file', NEW j \in DOMAIN file', i # j,
                          file'[i].key = file'[j].key,
                          file'[i].id \notin raced', file'[j].id \notin raced'
                   PROVE  file'[i].key \in {NoKey, Usage}
      BY DEF Once
    <3>2. /\ file \in Seq(Event) /\ EventOf(r) \in Event /\ file' = Append(file, EventOf(r))
          /\ EventOf(r).key = call[r].key /\ raced \subseteq raced'
      BY <1>6, AppendIs DEF TypeOK
    <3>3. /\ DOMAIN file' = DOMAIN file \cup {Len(file) + 1} /\ file'[Len(file) + 1] = EventOf(r)
          /\ \A n \in DOMAIN file : file'[n] = file[n] /\ file[n] \in ToSet(file)
      BY <3>2, AppendAdds, ToSetIs
    <3>4. \A e \in ToSet(file) : call[r].key \in Key /\ e.key = call[r].key => e.id \in raced
      BY <1>6 DEF AppendEvent, OneAtATime, Records
    <3>5. call[r].key \in Key \cup {NoKey, Usage}
      BY DEF TypeOK, Call
    <3>6. CASE i \in DOMAIN file /\ j \in DOMAIN file
      BY <3>1, <3>2, <3>3, <3>6 DEF OnceEverywhere, Once
    <3>7. CASE ~(i \in DOMAIN file /\ j \in DOMAIN file)
      <4>1. file'[i].key = call[r].key /\ \E e \in ToSet(file) : e.key = call[r].key /\ e.id \notin raced
        BY <3>1, <3>2, <3>3, <3>7
      <4>2. QED
        BY <3>4, <3>5, <4>1
    <3>8. QED
      BY <3>6, <3>7
  <2>2. ASSUME NEW q \in Recorder, Rewrites(q)' PROVE Once(call[q].seen)'
    BY <1>6, <2>2, AppendIs DEF OnceEverywhere, Once, Rewrites, Idle
  <2>3. QED
    BY <2>1, <2>2 DEF OnceEverywhere
<1>7. ASSUME NEW r \in Recorder, ReadForCompaction(r) PROVE OnceEverywhere'
  <2>1. /\ call'[r].seen = file /\ file' = file /\ raced' = raced
        /\ \A q \in Recorder : q # r => call'[q] = call[q]
    BY <1>7 DEF ReadForCompaction, TypeOK, Call
  <2>2. QED
    BY <2>1 DEF OnceEverywhere, Once, Rewrites
<1>8. ASSUME NEW r \in Recorder, Rewrite(r) PROVE OnceEverywhere'
  <2>1. Once(file)'
    <3>1. CASE file' = file
      BY <1>8, <3>1, RewriteIs DEF OnceEverywhere, Once
    <3>2. CASE file' = Compacted(call[r].seen)
      <4>1. Once(call[r].seen)
        BY <1>8, RewriteIs DEF OnceEverywhere
      <4>2. Once(Compacted(call[r].seen))
        BY <1>8, <4>1, RewriteIs, OnceCompacted
      <4>3. QED
        BY <1>8, <3>2, <4>2, RewriteIs DEF Once
    <3>3. QED
      BY <1>8, <3>1, <3>2, RewriteIs
  <2>2. ASSUME NEW q \in Recorder, Rewrites(q)' PROVE Once(call[q].seen)'
    BY <1>8, <2>2, RewriteIs DEF OnceEverywhere, Once, Rewrites, Idle
  <2>3. QED
    BY <2>1, <2>2 DEF OnceEverywhere
<1>9. ASSUME NEW c \in Client, Connect(c) PROVE OnceEverywhere'
  BY <1>9 DEF Connect, TypeOK, OnceEverywhere, Once, Rewrites
<1>10. ASSUME NEW c \in Client, Subscribe(c) PROVE OnceEverywhere'
  BY <1>10 DEF Subscribe, TypeOK, OnceEverywhere, Once, Rewrites
<1>11. ASSUME NEW c \in Client, Heartbeat(c) PROVE OnceEverywhere'
  BY <1>11 DEF Heartbeat, TypeOK, OnceEverywhere, Once, Rewrites
<1>12. ASSUME NEW c \in Client, Disconnect(c) PROVE OnceEverywhere'
  BY <1>12 DEF Disconnect, TypeOK, OnceEverywhere, Once, Rewrites
<1>13. CASE Restart
  BY <1>13 DEF Restart, TypeOK, OnceEverywhere, Once, Rewrites, Idle
<1>14. CASE UNCHANGED vars
  BY <1>14 DEF vars, TypeOK, OnceEverywhere, Once, Rewrites
<1>15. QED
  BY <1>1, <1>2, <1>3, <1>4, <1>5, <1>6, <1>7, <1>8, <1>9, <1>10, <1>11, <1>12, <1>13, <1>14
     DEF Next

\* Nor one of the same seq, unless they were recorded together.
LEMMA ApartStep ==
  TypeOK /\ IdsAreGiven /\ BusTellsTheCall /\ CalmFile /\ raced' = {} /\ [Next]_vars => AllApart'
<1> SUFFICES ASSUME TypeOK, IdsAreGiven, BusTellsTheCall, CalmFile, raced' = {}, [Next]_vars
             PROVE  AllApart'
  OBVIOUS
<1> USE DEF CalmFile
<1>1. ASSUME NEW r \in Recorder, NEW k \in Plain, Record(r, k) PROVE AllApart'
  <2>1. /\ call'[r].pc # "rewrite" /\ file' = file /\ together' = together
        /\ \A q \in Recorder : q # r => call'[q] = call[q]
    BY <1>1 DEF Record, TypeOK, Allocated, Idle
  <2>2. QED
    BY <2>1 DEF AllApart, Apart, Rewrites
<1>2. ASSUME NEW r \in Recorder, NEW k \in Key, RecordOnce(r, k) PROVE AllApart'
  <2>1. /\ call'[r].pc # "rewrite" /\ file' = file /\ together' = together
        /\ \A q \in Recorder : q # r => call'[q] = call[q]
    BY <1>2 DEF RecordOnce, TypeOK, Idle
  <2>2. QED
    BY <2>1 DEF AllApart, Apart, Rewrites
<1>3. ASSUME NEW r \in Recorder, FindExisting(r) PROVE AllApart'
  <2>1. /\ call'[r].pc # "rewrite" /\ file' = file /\ together' = together
        /\ \A q \in Recorder : q # r => call'[q] = call[q]
    BY <1>3, FindIs DEF FindExisting, Idle
  <2>2. QED
    BY <2>1 DEF AllApart, Apart, Rewrites
<1>4. ASSUME NEW r \in Recorder, ReadHighest(r) PROVE AllApart'
  <2>1. /\ call'[r].pc # "rewrite" /\ file' = file /\ together' = together
        /\ \A q \in Recorder : q # r => call'[q] = call[q]
    BY <1>4 DEF ReadHighest, TypeOK, Call
  <2>2. QED
    BY <2>1 DEF AllApart, Apart, Rewrites
<1>5. ASSUME NEW r \in Recorder, Publish(r) PROVE AllApart'
  <2>1. /\ call'[r].pc # "rewrite" /\ file' = file /\ together' = together
        /\ \A q \in Recorder : q # r => call'[q] = call[q]
    BY <1>5 DEF Publish, TypeOK, Call
  <2>2. QED
    BY <2>1 DEF AllApart, Apart, Rewrites
<1>6. ASSUME NEW r \in Recorder, AppendEvent(r) PROVE AllApart'
  <2>0. together \subseteq together'
    BY <1>6 DEF AppendEvent
  <2>1. Apart(file)'
    <3>1. SUFFICES ASSUME NEW i \in DOMAIN file', NEW j \in DOMAIN file', i # j,
                          file'[i].seq = file'[j].seq
                   PROVE  {file'[i].id, file'[j].id} \in together
      BY <2>0 DEF Apart
    <3>2. /\ file \in Seq(Event) /\ EventOf(r) \in Event /\ file' = Append(file, EventOf(r))
          /\ EventOf(r) \in ToSet(published) /\ EventOf(r).id = call[r].id
          /\ call[r].pc = "append"
      BY <1>6, AppendIs DEF TypeOK
    <3>3. /\ DOMAIN file' = DOMAIN file \cup {Len(file) + 1} /\ file'[Len(file) + 1] = EventOf(r)
          /\ \A n \in DOMAIN file : file'[n] = file[n] /\ file[n] \in ToSet(file)
          /\ ToSet(file) \subseteq Event
      BY <3>2, AppendAdds, ToSetIs
    <3>4. ASSUME NEW e \in ToSet(file), e.seq = EventOf(r).seq PROVE {e.id, call[r].id} \in together
      <4>1. e.seq \in Nat /\ ~(EventOf(r).seq > e.seq)
        BY <3>3, <3>4 DEF Event
      <4>2. QED
        BY <3>2, <4>1 DEF SeqsAreBeyond
    <3>5. CASE i \in DOMAIN file /\ j \in DOMAIN file
      BY <3>1, <3>3, <3>5 DEF AllApart, Apart
    <3>6. CASE i = Len(file) + 1
      <4>1. j \in DOMAIN file /\ {file'[j].id, file'[i].id} \in together
        BY <3>1, <3>2, <3>3, <3>4, <3>6
      <4>2. {file'[j].id, file'[i].id} = {file'[i].id, file'[j].id}
        OBVIOUS
      <4>3. QED
        BY <4>1, <4>2
    <3>7. CASE j = Len(file) + 1
      BY <3>1, <3>2, <3>3, <3>4, <3>7
    <3>8. QED
      BY <3>1, <3>3, <3>5, <3>6, <3>7
  <2>2. ASSUME NEW q \in Recorder, Rewrites(q)' PROVE Apart(call[q].seen)'
    BY <1>6, <2>0, <2>2, AppendIs DEF AllApart, Apart, Rewrites, Idle
  <2>3. QED
    BY <2>1, <2>2 DEF AllApart
<1>7. ASSUME NEW r \in Recorder, ReadForCompaction(r) PROVE AllApart'
  <2>1. /\ call'[r].seen = file /\ file' = file /\ together' = together
        /\ \A q \in Recorder : q # r => call'[q] = call[q]
    BY <1>7 DEF ReadForCompaction, TypeOK, Call
  <2>2. QED
    BY <2>1 DEF AllApart, Apart, Rewrites
<1>8. ASSUME NEW r \in Recorder, Rewrite(r) PROVE AllApart'
  <2>0. together' = together
    BY <1>8 DEF Rewrite
  <2>1. Apart(file)'
    <3>1. CASE file' = file
      BY <2>0, <3>1 DEF AllApart, Apart
    <3>2. CASE file' = Compacted(call[r].seen)
      <4>1. Apart(call[r].seen)
        BY <1>8, RewriteIs DEF AllApart
      <4>2. Apart(Compacted(call[r].seen))
        BY <1>8, <4>1, RewriteIs, ApartCompacted
      <4>3. QED
        BY <2>0, <3>2, <4>2 DEF Apart
    <3>3. QED
      BY <1>8, <3>1, <3>2, RewriteIs
  <2>2. ASSUME NEW q \in Recorder, Rewrites(q)' PROVE Apart(call[q].seen)'
    <3>1. call'[q] = call[q] /\ Rewrites(q)
      BY <1>8, <2>2, RewriteIs DEF Rewrites, Idle
    <3>2. QED
      BY <2>0, <3>1 DEF AllApart, Apart
  <2>3. QED
    BY <2>1, <2>2 DEF AllApart
<1>9. ASSUME NEW c \in Client, Connect(c) PROVE AllApart'
  BY <1>9 DEF Connect, TypeOK, AllApart, Apart, Rewrites
<1>10. ASSUME NEW c \in Client, Subscribe(c) PROVE AllApart'
  BY <1>10 DEF Subscribe, TypeOK, AllApart, Apart, Rewrites
<1>11. ASSUME NEW c \in Client, Heartbeat(c) PROVE AllApart'
  BY <1>11 DEF Heartbeat, TypeOK, AllApart, Apart, Rewrites
<1>12. ASSUME NEW c \in Client, Disconnect(c) PROVE AllApart'
  BY <1>12 DEF Disconnect, TypeOK, AllApart, Apart, Rewrites
<1>13. CASE Restart
  BY <1>13 DEF Restart, TypeOK, AllApart, Apart, Rewrites, Idle
<1>14. CASE UNCHANGED vars
  BY <1>14 DEF vars, TypeOK, AllApart, Apart, Rewrites
<1>15. QED
  BY <1>1, <1>2, <1>3, <1>4, <1>5, <1>6, <1>7, <1>8, <1>9, <1>10, <1>11, <1>12, <1>13, <1>14
     DEF Next

\* Compactions keep the same events,
LEMMA NothingComesBackStep ==
  TypeOK /\ IdsAreGiven /\ BusTellsTheCall /\ CalmFile /\ raced' = {} /\ [Next]_vars => NothingComesBack'
<1> SUFFICES ASSUME TypeOK, IdsAreGiven, BusTellsTheCall, CalmFile, raced' = {}, [Next]_vars
             PROVE  NothingComesBack'
  OBVIOUS
<1> USE DEF CalmFile
<1>1. ASSUME NEW r \in Recorder, NEW k \in Plain, Record(r, k) PROVE NothingComesBack'
  BY <1>1 DEF Record, TypeOK, NothingComesBack, Rewrites, Allocated, Idle
<1>2. ASSUME NEW r \in Recorder, NEW k \in Key, RecordOnce(r, k) PROVE NothingComesBack'
  BY <1>2 DEF RecordOnce, TypeOK, NothingComesBack, Rewrites, Idle
<1>3. ASSUME NEW r \in Recorder, FindExisting(r) PROVE NothingComesBack'
  BY <1>3, FindIs DEF FindExisting, NothingComesBack, Rewrites, Idle
<1>4. ASSUME NEW r \in Recorder, ReadHighest(r) PROVE NothingComesBack'
  <2>1. /\ call'[r].pc # "rewrite" /\ file' = file
        /\ \A q \in Recorder : q # r => call'[q] = call[q]
    BY <1>4 DEF ReadHighest, TypeOK, Call
  <2>2. QED
    BY <2>1 DEF NothingComesBack, Rewrites
<1>5. ASSUME NEW r \in Recorder, Publish(r) PROVE NothingComesBack'
  <2>1. /\ call'[r].pc # "rewrite" /\ file' = file
        /\ \A q \in Recorder : q # r => call'[q] = call[q]
    BY <1>5 DEF Publish, TypeOK, Call
  <2>2. QED
    BY <2>1 DEF NothingComesBack, Rewrites
<1>6. ASSUME NEW r \in Recorder, AppendEvent(r) PROVE NothingComesBack'
  <2>1. \A q \in Recorder : ~Rewrites(q)'
    BY <1>6, AppendIs DEF Rewrites, Idle
  <2>2. QED
    BY <2>1 DEF NothingComesBack
<1>7. ASSUME NEW r \in Recorder, ReadForCompaction(r) PROVE NothingComesBack'
  <2>1. /\ call'[r].seen = file /\ file' = file
        /\ \A q \in Recorder : q # r => call'[q] = call[q]
    BY <1>7 DEF ReadForCompaction, TypeOK, Call
  <2>2. QED
    BY <2>1 DEF NothingComesBack, Rewrites
<1>8. ASSUME NEW r \in Recorder, Rewrite(r) PROVE NothingComesBack'
  <2>1. KeptOf(file') = KeptOf(file)
    <3>1. CASE file' = file
      BY <3>1
    <3>2. CASE file' = Compacted(call[r].seen)
      BY <1>8, <3>2, RewriteIs, CompactedKeeps DEF NothingComesBack
    <3>3. QED
      BY <1>8, <3>1, <3>2, RewriteIs
  <2>2. QED
    BY <1>8, <2>1, RewriteIs DEF NothingComesBack, Rewrites, Idle
<1>9. ASSUME NEW c \in Client, Connect(c) PROVE NothingComesBack'
  BY <1>9 DEF Connect, TypeOK, NothingComesBack, Rewrites
<1>10. ASSUME NEW c \in Client, Subscribe(c) PROVE NothingComesBack'
  BY <1>10 DEF Subscribe, TypeOK, NothingComesBack, Rewrites
<1>11. ASSUME NEW c \in Client, Heartbeat(c) PROVE NothingComesBack'
  BY <1>11 DEF Heartbeat, TypeOK, NothingComesBack, Rewrites
<1>12. ASSUME NEW c \in Client, Disconnect(c) PROVE NothingComesBack'
  BY <1>12 DEF Disconnect, TypeOK, NothingComesBack, Rewrites
<1>13. CASE Restart
  BY <1>13 DEF Restart, TypeOK, NothingComesBack, Rewrites, Idle
<1>14. CASE UNCHANGED vars
  BY <1>14 DEF vars, TypeOK, NothingComesBack, Rewrites
<1>15. QED
  BY <1>1, <1>2, <1>3, <1>4, <1>5, <1>6, <1>7, <1>8, <1>9, <1>10, <1>11, <1>12, <1>13, <1>14
     DEF Next

\* so that a rewrite adds nothing to the file.
LEMMA RewriteStays ==
  ASSUME TypeOK, NothingComesBack, NEW r \in Recorder, Rewrite(r)
  PROVE  ToSet(file') \subseteq ToSet(file)
<1>1. KeptOf(file) \subseteq ToSet(file)
  BY KeptIs DEF TypeOK
<1>2. QED
  BY <1>1, RewriteIs DEF NothingComesBack

\* The seq of a call stays beyond those of the events written before it began.
LEMMA SeqsAreBeyondStep ==
  TypeOK /\ IdsAreGiven /\ BusTellsTheCall /\ CalmFile /\ raced' = {} /\ [Next]_vars => SeqsAreBeyond'
<1> SUFFICES ASSUME TypeOK, IdsAreGiven, BusTellsTheCall, CalmFile, raced' = {}, [Next]_vars
             PROVE  SeqsAreBeyond'
  OBVIOUS
<1> USE DEF CalmFile
<1>1. ASSUME NEW r \in Recorder, NEW k \in Plain, Record(r, k) PROVE SeqsAreBeyond'
  <2>1. /\ call'[r].pc \notin {"publish", "append"} /\ file' = file /\ together' = together
        /\ published' = published /\ \A q \in Recorder : q # r => call'[q] = call[q]
    BY <1>1 DEF Record, TypeOK, Allocated, Idle
  <2>2. QED
    BY <2>1 DEF SeqsAreBeyond
<1>2. ASSUME NEW r \in Recorder, NEW k \in Key, RecordOnce(r, k) PROVE SeqsAreBeyond'
  <2>1. /\ call'[r].pc \notin {"publish", "append"} /\ file' = file /\ together' = together
        /\ published' = published /\ \A q \in Recorder : q # r => call'[q] = call[q]
    BY <1>2 DEF RecordOnce, TypeOK, Idle
  <2>2. QED
    BY <2>1 DEF SeqsAreBeyond
<1>3. ASSUME NEW r \in Recorder, FindExisting(r) PROVE SeqsAreBeyond'
  <2>1. /\ call'[r].pc \notin {"publish", "append"} /\ file' = file /\ together' = together
        /\ published' = published /\ \A q \in Recorder : q # r => call'[q] = call[q]
    BY <1>3, FindIs DEF FindExisting, Idle
  <2>2. QED
    BY <2>1 DEF SeqsAreBeyond
<1>4. ASSUME NEW r \in Recorder, ReadHighest(r) PROVE SeqsAreBeyond'
  <2>1. /\ call'[r].pc = "publish" /\ call'[r].persisted = highestSeq(ToSet(file))
        /\ file' = file /\ together' = together /\ call'[r].id = call[r].id
        /\ published' = published /\ \A q \in Recorder : q # r => call'[q] = call[q]
    BY <1>4 DEF ReadHighest, TypeOK, Call
  <2>2. highestSeq(ToSet(file)) \in Nat /\ \A e \in ToSet(file) : highestSeq(ToSet(file)) >= e.seq
    <3>1. /\ highestSeq(ToSet(file)) \in Nat /\ ToSet(file) \subseteq Event
          /\ \A e \in ToSet(file) : e.seq <= highestSeq(ToSet(file))
      BY HighestIs, ToSetIs DEF TypeOK
    <3>2. QED
      BY <3>1 DEF Event
  <2>3. QED
    BY <2>1, <2>2 DEF SeqsAreBeyond
<1>5. ASSUME NEW r \in Recorder, Publish(r) PROVE SeqsAreBeyond'
  <2>1. /\ ToSet(published') = ToSet(published) \cup {Published(r)}
        /\ SeqFor(r) > call[r].persisted /\ Published(r) \in Event
    BY <1>5, PublishedIs, AppendAdds DEF Publish, Published
  <2>2. /\ \A q \in Recorder : q # r => call'[q] = call[q]
        /\ call'[r].pc = "append" /\ call'[r].id = call[r].id
        /\ file' = file /\ together' = together
    BY <1>5 DEF Publish, TypeOK, Call
  <2>3. Published(r).id = call[r].id /\ Published(r).seq = SeqFor(r)
    BY DEF Published
  <2>4. call[r].id \notin Ids(ToSet(published)) /\ call[r].pc = "publish"
    BY <1>5 DEF Publish, BusTellsTheCall, Waits
  <2>5. ASSUME NEW q \in Recorder, NEW e \in ToSet(file), {e.id, call'[q].id} \notin together,
               call'[q].pc = "append", NEW p \in ToSet(published'), p.id = call'[q].id
        PROVE  p.seq > e.seq
    <3>1. CASE q = r
      <4>1. p = Published(r)
        BY <2>1, <2>2, <2>4, <2>5, <3>1 DEF Ids
      <4>2. call[r].persisted >= e.seq
        BY <2>2, <2>4, <2>5, <3>1 DEF SeqsAreBeyond
      <4>3. e.seq \in Nat /\ call[r].persisted \in Nat /\ p.seq \in Nat
        <5>1. e \in Event /\ call[r] \in Call
          BY ToSetIs DEF TypeOK
        <5>2. QED
          BY <2>1, <4>1, <5>1 DEF Event, Call
      <4>4. QED
        BY <2>1, <2>3, <4>1, <4>2, <4>3
    <3>2. CASE q # r
      <4>1. call[q].pc = "append" /\ call'[q] = call[q] /\ call[q].id # call[r].id
        BY <2>2, <2>4, <2>5, <3>2 DEF IdsAreGiven, CallIds
      <4>2. p \in ToSet(published)
        BY <2>1, <2>3, <2>5, <4>1
      <4>3. QED
        BY <2>5, <4>1, <4>2 DEF SeqsAreBeyond
    <3>3. QED
      BY <3>1, <3>2
  <2>6. ASSUME NEW q \in Recorder, NEW e \in ToSet(file), {e.id, call'[q].id} \notin together,
               call'[q].pc = "publish"
        PROVE  call'[q].persisted >= e.seq
    BY <2>2, <2>6 DEF SeqsAreBeyond
  <2>7. QED
    BY <2>2, <2>5, <2>6 DEF SeqsAreBeyond
<1>6. ASSUME NEW r \in Recorder, AppendEvent(r) PROVE SeqsAreBeyond'
  <2>1. /\ ToSet(file') = ToSet(file) \cup {EventOf(r)} /\ EventOf(r).id = call[r].id
        /\ call'[r].pc \notin {"publish", "append"} /\ \A q \in Recorder : q # r => call'[q] = call[q]
    BY <1>6, AppendIs DEF Idle
  <2>2. /\ together \subseteq together'
        /\ \A q \in Recorder : call[q].pc \in {"publish", "append"} =>
             {call[r].id, call[q].id} \in together'
        /\ published' = published
    BY <1>6 DEF AppendEvent
  <2>3. QED
    BY <2>1, <2>2 DEF SeqsAreBeyond
<1>7. ASSUME NEW r \in Recorder, ReadForCompaction(r) PROVE SeqsAreBeyond'
  <2>1. /\ call'[r].pc \notin {"publish", "append"} /\ file' = file /\ together' = together
        /\ published' = published /\ \A q \in Recorder : q # r => call'[q] = call[q]
    BY <1>7 DEF ReadForCompaction, TypeOK, Call
  <2>2. QED
    BY <2>1 DEF SeqsAreBeyond
<1>8. ASSUME NEW r \in Recorder, Rewrite(r) PROVE SeqsAreBeyond'
  <2>1. ToSet(file') \subseteq ToSet(file)
    BY <1>8, RewriteStays
  <2>2. /\ call'[r].pc \notin {"publish", "append"} /\ \A q \in Recorder : q # r => call'[q] = call[q]
        /\ published' = published /\ together' = together
    BY <1>8, RewriteIs DEF Rewrite, Idle
  <2>3. QED
    BY <2>1, <2>2 DEF SeqsAreBeyond
<1>9. ASSUME NEW c \in Client, Connect(c) PROVE SeqsAreBeyond'
  BY <1>9 DEF Connect, TypeOK, SeqsAreBeyond
<1>10. ASSUME NEW c \in Client, Subscribe(c) PROVE SeqsAreBeyond'
  BY <1>10 DEF Subscribe, TypeOK, SeqsAreBeyond
<1>11. ASSUME NEW c \in Client, Heartbeat(c) PROVE SeqsAreBeyond'
  BY <1>11 DEF Heartbeat, TypeOK, SeqsAreBeyond
<1>12. ASSUME NEW c \in Client, Disconnect(c) PROVE SeqsAreBeyond'
  BY <1>12 DEF Disconnect, TypeOK, SeqsAreBeyond
<1>13. CASE Restart
  BY <1>13 DEF Restart, SeqsAreBeyond, Idle
<1>14. CASE UNCHANGED vars
  BY <1>14 DEF vars, TypeOK, SeqsAreBeyond
<1>15. QED
  BY <1>1, <1>2, <1>3, <1>4, <1>5, <1>6, <1>7, <1>8, <1>9, <1>10, <1>11, <1>12, <1>13, <1>14
     DEF Next

\* What the steps do to the streams.
LEMMA StreamsAre ==
  ASSUME TypeOK
  PROVE  /\ \A r \in Recorder : Publish(r) =>
              \A c \in Client :
                /\ client'[c].pc = client[c].pc /\ client'[c].since = client[c].since
                /\ client'[c].backlog = client[c].backlog /\ client'[c].read = client[c].read
                /\ client'[c].tooLate = client[c].tooLate /\ got[c] \subseteq got'[c]
                /\ client[c].pc = "live" => call[r].id \in got'[c]
         /\ \A c \in Client : Connect(c) =>
              /\ client'[c].pc = "replay" /\ client'[c].since = client[c].since
              /\ client'[c].backlog = Backlog(client[c].since) /\ client'[c].read = Ids(ToSet(file))
              /\ \A d \in Client : d # c => client'[d] = client[d]
         /\ \A b \in Client : Heartbeat(b) =>
              \A c \in Client :
                /\ client'[c].pc = client[c].pc /\ client'[c].since = client[c].since
                /\ client'[c].backlog = client[c].backlog /\ client'[c].read = client[c].read
                /\ client'[c].tooLate = client[c].tooLate
         /\ \A b \in Client : Disconnect(b) =>
              client'[b].pc = "off" /\ \A c \in Client : c # b => client'[c] = client[c]
         /\ Restart => \A c \in Client : client'[c].pc = "off"
<1>0. client \in [Client -> Stream] /\ got \in [Client -> SUBSET (1 .. MaxEvents)]
  BY DEF TypeOK
<1>1. ASSUME NEW r \in Recorder, Publish(r), NEW c \in Client
      PROVE  /\ client'[c].pc = client[c].pc /\ client'[c].since = client[c].since
             /\ client'[c].backlog = client[c].backlog /\ client'[c].read = client[c].read
             /\ client'[c].tooLate = client[c].tooLate /\ got[c] \subseteq got'[c]
             /\ client[c].pc = "live" => call[r].id \in got'[c]
  BY <1>0, <1>1 DEF Publish, Stream
<1>2. ASSUME NEW c \in Client, Connect(c)
      PROVE  /\ client'[c].pc = "replay" /\ client'[c].since = client[c].since
             /\ client'[c].backlog = Backlog(client[c].since) /\ client'[c].read = Ids(ToSet(file))
             /\ \A d \in Client : d # c => client'[d] = client[d]
  <2> DEFINE B == Backlog(client[c].since)
             R == Ids(ToSet(file))
  <2>1. client' = [client EXCEPT ![c].pc = "replay", ![c].backlog = B, ![c].read = R]
    BY <1>2 DEF Connect, Ids
  <2> HIDE DEF B, R
  <2>2. /\ client'[c].pc = "replay" /\ client'[c].since = client[c].since
        /\ client'[c].backlog = B /\ client'[c].read = R
        /\ \A d \in Client : d # c => client'[d] = client[d]
    BY <1>0, <2>1 DEF Stream
  <2>3. QED
    BY <2>2 DEF B, R
<1>3. ASSUME NEW b \in Client, Heartbeat(b), NEW c \in Client
      PROVE  /\ client'[c].pc = client[c].pc /\ client'[c].since = client[c].since
             /\ client'[c].backlog = client[c].backlog /\ client'[c].read = client[c].read
             /\ client'[c].tooLate = client[c].tooLate
  BY <1>0, <1>3 DEF Heartbeat, Stream
<1>4. ASSUME NEW b \in Client, Disconnect(b)
      PROVE  client'[b].pc = "off" /\ \A c \in Client : c # b => client'[c] = client[c]
  BY <1>0, <1>4 DEF Disconnect, Off
<1>5. ASSUME Restart, NEW c \in Client PROVE client'[c].pc = "off"
  BY <1>5 DEF Restart, Off
<1>6. QED
  BY <1>1, <1>2, <1>3, <1>4, <1>5

\* Where a client that replays has come from.
LEMMA ReplayIs ==
  ASSUME TypeOK, [Next]_vars, NEW c \in Client, client'[c].pc = "replay"
  PROVE  /\ client'[c].since = client[c].since
         /\ \/ /\ client[c].pc = "replay" /\ client'[c].read = client[c].read
               /\ client'[c].backlog = client[c].backlog
            \/ client'[c].read = Ids(ToSet(file)) /\ client'[c].backlog = Backlog(client[c].since) /\ file' = file
<1>1. CASE client' = client
  BY <1>1
<1>2. ASSUME NEW r \in Recorder, Publish(r)
      PROVE  /\ client'[c].since = client[c].since
             /\ client[c].pc = "replay" /\ client'[c].read = client[c].read
             /\ client'[c].backlog = client[c].backlog
  BY <1>2, StreamsAre
<1>3. ASSUME NEW d \in Client, Connect(d)
      PROVE  /\ client'[c].since = client[c].since
             /\ \/ /\ client[c].pc = "replay" /\ client'[c].read = client[c].read
                   /\ client'[c].backlog = client[c].backlog
                \/ /\ client'[c].read = Ids(ToSet(file)) /\ client'[c].backlog = Backlog(client[c].since)
                   /\ file' = file
  BY <1>3, StreamsAre DEF Connect
<1>4. ASSUME NEW d \in Client, Subscribe(d) PROVE client'[c] = client[c]
  BY <1>4, SubscribeIs
<1>5. ASSUME NEW d \in Client, Heartbeat(d)
      PROVE  /\ client'[c].since = client[c].since
             /\ client[c].pc = "replay" /\ client'[c].read = client[c].read
             /\ client'[c].backlog = client[c].backlog
  BY <1>5, StreamsAre
<1>6. ASSUME NEW d \in Client, Disconnect(d) PROVE client'[c] = client[c]
  BY <1>6, StreamsAre
<1>7. ~Restart
  BY StreamsAre
<1>8. QED
  BY <1>1, <1>2, <1>3, <1>4, <1>5, <1>6, <1>7
     DEF Next, Record, RecordOnce, FindExisting, ReadHighest, AppendEvent, ReadForCompaction, Rewrite, vars

\* The same of one that is live.
LEMMA LiveIs ==
  ASSUME TypeOK, [Next]_vars, NEW c \in Client, client'[c].pc = "live"
  PROVE  /\ client'[c].since = client[c].since /\ got[c] \subseteq got'[c]
         /\ \/ client[c].pc = "live" /\ client'[c].tooLate = client[c].tooLate
            \/ /\ client[c].pc = "replay" /\ file' = file /\ call' = call
               /\ client'[c].tooLate = Ids(ToSet(published)) \ client[c].read
               /\ got'[c] = got[c] \cup Ids(client[c].backlog)
<1>1. CASE client' = client /\ got' = got
  BY <1>1
<1>2. ASSUME NEW r \in Recorder, Publish(r)
      PROVE  /\ client'[c].since = client[c].since /\ got[c] \subseteq got'[c]
             /\ client[c].pc = "live" /\ client'[c].tooLate = client[c].tooLate
  BY <1>2, StreamsAre
<1>3. ASSUME NEW d \in Client, Connect(d) PROVE client'[c] = client[c] /\ got' = got
  BY <1>3, StreamsAre DEF Connect
<1>4. ASSUME NEW d \in Client, Subscribe(d)
      PROVE  /\ client'[c].since = client[c].since /\ got[c] \subseteq got'[c]
             /\ \/ client[c].pc = "live" /\ client'[c].tooLate = client[c].tooLate
                \/ /\ client[c].pc = "replay" /\ file' = file /\ call' = call
                   /\ client'[c].tooLate = Ids(ToSet(published)) \ client[c].read
                   /\ got'[c] = got[c] \cup Ids(client[c].backlog)
  <2>1. file' = file /\ call' = call
    BY <1>4 DEF Subscribe
  <2>2. QED
    BY <1>4, <2>1, SubscribeIs
<1>5. ASSUME NEW d \in Client, Heartbeat(d)
      PROVE  /\ client'[c].since = client[c].since /\ got' = got
             /\ client[c].pc = "live" /\ client'[c].tooLate = client[c].tooLate
  <2>1. got' = got
    BY <1>5 DEF Heartbeat
  <2>2. QED
    BY <1>5, <2>1, StreamsAre
<1>6. ASSUME NEW d \in Client, Disconnect(d) PROVE client'[c] = client[c] /\ got' = got
  <2>1. got' = got
    BY <1>6 DEF Disconnect
  <2>2. QED
    BY <1>6, <2>1, StreamsAre
<1>7. ~Restart
  BY StreamsAre
<1>8. QED
  BY <1>1, <1>2, <1>3, <1>4, <1>5, <1>6, <1>7
     DEF Next, Record, RecordOnce, FindExisting, ReadHighest, AppendEvent, ReadForCompaction, Rewrite, vars

\* A call that pends after a step is a new one or pended before.
LEMMA PendsIs ==
  ASSUME TypeOK, BusTellsTheCall, [Next]_vars
  PROVE  \A q \in Recorder : Pends(q)' =>
           \/ Pends(q) /\ call'[q].id = call[q].id
           \/ call'[q].id = issued + 1 /\ file' = file /\ client' = client /\ call'[q].pc # "append"
<1> SUFFICES ASSUME NEW q \in Recorder, Pends(q)'
             PROVE  \/ Pends(q) /\ call'[q].id = call[q].id
                    \/ /\ call'[q].id = issued + 1 /\ file' = file /\ client' = client
                       /\ call'[q].pc # "append"
  OBVIOUS
<1> USE DEF Pends, Waits
<1>1. ASSUME NEW r \in Recorder, NEW k \in Plain, Record(r, k)
      PROVE  \/ Pends(q) /\ call'[q].id = call[q].id
             \/ call'[q].id = issued + 1 /\ file' = file /\ client' = client /\ call'[q].pc # "append"
  BY <1>1 DEF Record, TypeOK, Allocated, Idle
<1>2. ASSUME NEW r \in Recorder, NEW k \in Key, RecordOnce(r, k)
      PROVE  \/ Pends(q) /\ call'[q].id = call[q].id
             \/ call'[q].id = issued + 1 /\ file' = file /\ client' = client /\ call'[q].pc # "append"
  BY <1>2 DEF RecordOnce, TypeOK, Idle
<1>3. ASSUME NEW r \in Recorder, FindExisting(r) PROVE Pends(q) /\ call'[q].id = call[q].id
  BY <1>3, FindIs DEF Idle
<1>4. ASSUME NEW r \in Recorder, ReadHighest(r) PROVE Pends(q) /\ call'[q].id = call[q].id
  BY <1>4 DEF ReadHighest, TypeOK, Call
<1>5. ASSUME NEW r \in Recorder, Publish(r) PROVE Pends(q) /\ call'[q].id = call[q].id
  BY <1>5 DEF Publish, TypeOK, Call
<1>6. ASSUME NEW r \in Recorder, AppendEvent(r) PROVE Pends(q) /\ call'[q].id = call[q].id
  BY <1>6, AppendIs DEF Idle
<1>7. ASSUME NEW r \in Recorder, ReadForCompaction(r) PROVE Pends(q) /\ call'[q].id = call[q].id
  BY <1>7 DEF ReadForCompaction, TypeOK, Call
<1>8. ASSUME NEW r \in Recorder, Rewrite(r) PROVE Pends(q) /\ call'[q].id = call[q].id
  BY <1>8, RewriteIs DEF Idle
<1>9. CASE Restart
  BY <1>9 DEF Restart, Idle
<1>10. CASE call' = call
  BY <1>10
<1>11. QED
  BY <1>1, <1>2, <1>3, <1>4, <1>5, <1>6, <1>7, <1>8, <1>9, <1>10
     DEF Next, Connect, Subscribe, Heartbeat, Disconnect, vars

\* The event of a call is not in the file before it is appended,
LEMMA NotYetWrittenStep ==
  TypeOK /\ IdsAreGiven /\ BusTellsTheCall /\ CalmFile /\ CalmStreams /\ [Next]_vars
    => NotYetWritten'
<1> SUFFICES ASSUME TypeOK, IdsAreGiven, BusTellsTheCall, CalmFile, CalmStreams, [Next]_vars,
                    NEW q \in Recorder, Pends(q)'
             PROVE  call'[q].id \notin Ids(ToSet(file'))
  BY DEF NotYetWritten
<1>1. \/ Pends(q) /\ call'[q].id = call[q].id
      \/ call'[q].id = issued + 1 /\ file' = file
  BY PendsIs
<1>2. CASE call'[q].id = issued + 1 /\ file' = file
  <2>1. issued + 1 \notin 1 .. issued
    BY DEF TypeOK
  <2>2. QED
    BY <1>2, <2>1 DEF IdsAreGiven, FileIds
<1>3. CASE Pends(q) /\ call'[q].id = call[q].id
  <2>1. call[q].id \notin Ids(ToSet(file))
    BY <1>3 DEF CalmStreams, NotYetWritten
  <2>2. ASSUME NEW r \in Recorder, AppendEvent(r) PROVE call[q].id \notin Ids(ToSet(file'))
    <3>1. q # r
      BY <2>2, AppendIs DEF Pends, Waits, Idle
    <3>2. call[q].id # call[r].id
      BY <1>3, <2>2, <3>1 DEF AppendEvent, Pends, Waits, IdsAreGiven, CallIds
    <3>3. Ids(ToSet(file')) = Ids(ToSet(file)) \cup {call[r].id}
      BY <2>2, AppendIs DEF Ids
    <3>4. QED
      BY <2>1, <3>2, <3>3
  <2>3. ASSUME NEW r \in Recorder, Rewrite(r) PROVE call[q].id \notin Ids(ToSet(file'))
    BY <2>1, <2>3, RewriteStays DEF CalmFile, Ids
  <2>4. CASE file' = file
    BY <1>3, <2>1, <2>4
  <2>5. QED
    BY <1>3, <2>2, <2>3, <2>4
       DEF Next, Record, RecordOnce, FindExisting, ReadHighest, Publish, ReadForCompaction, Connect,
           Subscribe, Heartbeat, Disconnect, Restart, vars
<1>4. QED
  BY <1>1, <1>2, <1>3

\* nor has a client read it;
LEMMA NotYetReadStep ==
  TypeOK /\ IdsAreGiven /\ BusTellsTheCall /\ CalmStreams /\ [Next]_vars => NotYetRead'
<1> SUFFICES ASSUME TypeOK, IdsAreGiven, BusTellsTheCall, CalmStreams, [Next]_vars,
                    NEW q \in Recorder, Pends(q)', NEW c \in Client, client'[c].pc = "replay"
             PROVE  call'[q].id \notin client'[c].read
  BY DEF NotYetRead
<1>1. \/ Pends(q) /\ call'[q].id = call[q].id
      \/ call'[q].id = issued + 1 /\ client' = client
  BY PendsIs
<1>2. CASE call'[q].id = issued + 1 /\ client' = client
  <2>1. issued + 1 \notin 1 .. issued
    BY DEF TypeOK
  <2>2. QED
    BY <1>2, <2>1 DEF IdsAreGiven, ReadIds
<1>3. CASE Pends(q) /\ call'[q].id = call[q].id
  <2>1. CASE client[c].pc = "replay" /\ client'[c].read = client[c].read
    BY <1>3, <2>1 DEF CalmStreams, NotYetRead
  <2>2. CASE client'[c].read = Ids(ToSet(file))
    BY <1>3, <2>2 DEF CalmStreams, NotYetWritten
  <2>3. QED
    BY <2>1, <2>2, ReplayIs
<1>4. QED
  BY <1>1, <1>2, <1>3

\* Only publishing brings a call to its append,
LEMMA Appending ==
  ASSUME TypeOK, BusTellsTheCall, [Next]_vars, NEW q \in Recorder, call[q].pc # "append", call'[q].pc = "append"
  PROVE  Publish(q)
<1>1. ASSUME NEW r \in Recorder, NEW k \in Plain, Record(r, k) PROVE FALSE
  BY <1>1 DEF Record, TypeOK, Allocated, Idle
<1>2. ASSUME NEW r \in Recorder, NEW k \in Key, RecordOnce(r, k) PROVE FALSE
  BY <1>2 DEF RecordOnce, TypeOK, Idle
<1>3. ASSUME NEW r \in Recorder, FindExisting(r) PROVE FALSE
  BY <1>3, FindIs DEF Idle
<1>4. ASSUME NEW r \in Recorder, ReadHighest(r) PROVE FALSE
  BY <1>4 DEF ReadHighest, TypeOK, Call
<1>5. ASSUME NEW r \in Recorder, Publish(r) PROVE r = q
  BY <1>5 DEF Publish, TypeOK
<1>6. ASSUME NEW r \in Recorder, AppendEvent(r) PROVE FALSE
  BY <1>6, AppendIs DEF Idle
<1>7. ASSUME NEW r \in Recorder, ReadForCompaction(r) PROVE FALSE
  BY <1>7 DEF ReadForCompaction, TypeOK, Call
<1>8. ASSUME NEW r \in Recorder, Rewrite(r) PROVE FALSE
  BY <1>8, RewriteIs DEF Idle
<1>9. ~Restart
  BY DEF Restart, Idle
<1>10. call' # call
  OBVIOUS
<1>11. QED
  BY <1>1, <1>2, <1>3, <1>4, <1>5, <1>6, <1>7, <1>8, <1>9, <1>10
     DEF Next, Connect, Subscribe, Heartbeat, Disconnect, vars

\* only an append adds to the file,
LEMMA FileGrows ==
  ASSUME TypeOK, NothingComesBack, [Next]_vars, NEW e \in ToSet(file'), e \notin ToSet(file)
  PROVE  \E r \in Recorder : AppendEvent(r)
<1>1. \A r \in Recorder : ~Rewrite(r)
  BY RewriteStays
<1>2. file' # file
  OBVIOUS
<1>3. QED
  BY <1>1, <1>2
     DEF Next, Record, RecordOnce, FindExisting, ReadHighest, Publish, ReadForCompaction, Connect,
         Subscribe, Heartbeat, Disconnect, Restart, vars

\* and the bus forgets nothing while a client reads.
LEMMA BusGrows ==
  ASSUME TypeOK, IdsAreGiven, [Next]_vars, NEW c \in Client, client'[c].pc # "off"
  PROVE  Ids(ToSet(published)) \subseteq Ids(ToSet(published'))
<1>1. ASSUME NEW r \in Recorder, Publish(r) PROVE Ids(ToSet(published)) \subseteq Ids(ToSet(published'))
  <2>1. ToSet(published') = ToSet(published) \cup {Published(r)}
    BY <1>1, PublishedIs, AppendAdds DEF Publish, Published
  <2>2. QED
    BY <2>1 DEF Ids
<1>2. ~Restart
  BY StreamsAre
<1>3. CASE published' = published
  BY <1>3
<1>4. QED
  BY <1>1, <1>2, <1>3
     DEF Next, Record, RecordOnce, FindExisting, ReadHighest, AppendEvent, ReadForCompaction, Rewrite,
         Connect, Subscribe, Heartbeat, Disconnect, vars

\* one that is live has been sent it, or it comes too late.
LEMMA AppendIsToldStep ==
  TypeOK /\ IdsAreGiven /\ BusTellsTheCall /\ CalmStreams /\ [Next]_vars => AppendIsTold'
<1> SUFFICES ASSUME TypeOK, IdsAreGiven, BusTellsTheCall, CalmStreams, [Next]_vars,
                    NEW q \in Recorder, call'[q].pc = "append",
                    NEW c \in Client, client'[c].pc = "live"
             PROVE  call'[q].id \in got'[c] \cup client'[c].tooLate
  BY DEF AppendIsTold
<1>1. Pends(q) /\ call'[q].id = call[q].id
  BY PendsIs DEF Pends
<1>2. \/ client[c].pc = "live" /\ client'[c].tooLate = client[c].tooLate
      \/ /\ client[c].pc = "replay" /\ call' = call
         /\ client'[c].tooLate = Ids(ToSet(published)) \ client[c].read
  BY LiveIs
<1>3. got[c] \subseteq got'[c]
  BY LiveIs
<1>4. CASE client[c].pc = "live" /\ client'[c].tooLate = client[c].tooLate /\ call[q].pc = "append"
  BY <1>1, <1>3, <1>4 DEF CalmStreams, AppendIsTold
<1>5. CASE client[c].pc = "live" /\ client'[c].tooLate = client[c].tooLate /\ call[q].pc # "append"
  <2>1. Publish(q)
    BY <1>5, Appending
  <2>2. QED
    BY <1>1, <1>5, <2>1, StreamsAre
<1>6. CASE /\ client[c].pc = "replay" /\ call' = call
           /\ client'[c].tooLate = Ids(ToSet(published)) \ client[c].read
  BY <1>1, <1>6 DEF CalmStreams, NotYetRead, BusTellsTheCall
<1>7. QED
  BY <1>2, <1>4, <1>5, <1>6

\* A client that replays has all of the file, or will be told that it comes too late;
LEMMA ReplayHasAllStep ==
  TypeOK /\ IdsAreGiven /\ BusTellsTheCall /\ CalmFile /\ CalmStreams /\ [Next]_vars
    => ReplayHasAll'
<1> SUFFICES ASSUME TypeOK, IdsAreGiven, BusTellsTheCall, CalmFile, CalmStreams, [Next]_vars,
                    NEW c \in Client, NEW e \in ToSet(file'),
                    client'[c].pc = "replay", e.seq > client'[c].since
             PROVE  \/ e \in client'[c].backlog
                    \/ e.id \in Ids(ToSet(published')) /\ e.id \notin client'[c].read
  BY DEF ReplayHasAll
<1>1. /\ client'[c].since = client[c].since
      /\ \/ /\ client[c].pc = "replay" /\ client'[c].read = client[c].read
            /\ client'[c].backlog = client[c].backlog
         \/ client'[c].backlog = Backlog(client[c].since) /\ file' = file
  BY ReplayIs
<1>2. CASE client'[c].backlog = Backlog(client[c].since) /\ file' = file
  <2>1. e \in ToSet(file)
    BY <1>2
  <2>2. QED
    BY <1>1, <1>2, <2>1 DEF Backlog
<1>3. CASE /\ client[c].pc = "replay" /\ client'[c].read = client[c].read
           /\ client'[c].backlog = client[c].backlog
  <2>1. Ids(ToSet(published)) \subseteq Ids(ToSet(published'))
    BY <1>3, BusGrows
  <2>2. CASE e \in ToSet(file)
    BY <1>1, <1>3, <2>1, <2>2 DEF CalmStreams, ReplayHasAll
  <2>3. CASE e \notin ToSet(file)
    <3>1. PICK r \in Recorder : AppendEvent(r)
      BY <2>3, FileGrows DEF CalmFile
    <3>2. e = EventOf(r)
      BY <2>3, <3>1, AppendIs
    <3>3. e.id = call[r].id /\ call[r].pc = "append"
      BY <3>1, <3>2, AppendIs
    <3>4. QED
      BY <1>3, <2>1, <3>3 DEF CalmStreams, NotYetRead, Pends, BusTellsTheCall
  <2>4. QED
    BY <2>2, <2>3
<1>4. QED
  BY <1>1, <1>2, <1>3

\* one that is live has been sent it.
LEMMA LiveHasAllStep ==
  TypeOK /\ IdsAreGiven /\ BusTellsTheCall /\ CalmFile /\ CalmStreams /\ [Next]_vars
    => LiveHasAll'
<1> SUFFICES ASSUME TypeOK, IdsAreGiven, BusTellsTheCall, CalmFile, CalmStreams, [Next]_vars,
                    NEW c \in Client, NEW e \in ToSet(file'),
                    client'[c].pc = "live", e.seq > client'[c].since
             PROVE  e.id \in got'[c] \/ e.id \in client'[c].tooLate
  BY DEF LiveHasAll
<1>1. client'[c].since = client[c].since /\ got[c] \subseteq got'[c]
  BY LiveIs
<1>2. CASE client[c].pc = "live" /\ client'[c].tooLate = client[c].tooLate
  <2>1. CASE e \in ToSet(file)
    BY <1>1, <1>2, <2>1 DEF CalmStreams, LiveHasAll
  <2>2. CASE e \notin ToSet(file)
    <3>1. PICK r \in Recorder : AppendEvent(r)
      BY <2>2, FileGrows DEF CalmFile
    <3>2. e = EventOf(r)
      BY <2>2, <3>1, AppendIs
    <3>3. e.id = call[r].id /\ call[r].pc = "append"
      BY <3>1, <3>2, AppendIs
    <3>4. QED
      BY <1>1, <1>2, <3>3 DEF CalmStreams, AppendIsTold
  <2>3. QED
    BY <2>1, <2>2
<1>3. CASE /\ client[c].pc = "replay" /\ file' = file
           /\ client'[c].tooLate = Ids(ToSet(published)) \ client[c].read
           /\ got'[c] = got[c] \cup Ids(client[c].backlog)
  <2>1. e \in ToSet(file)
    BY <1>3
  <2>2. e \in client[c].backlog => e.id \in Ids(client[c].backlog)
    BY DEF Ids
  <2>3. QED
    BY <1>1, <1>3, <2>1, <2>2 DEF CalmStreams, ReplayHasAll
<1>4. QED
  BY <1>2, <1>3, LiveIs
-----------------------------------------------------------------------------
(***************************************************************************)
(* The invariant is inductive.                                             *)
(***************************************************************************)
\* What was appended under a compaction is not forgotten.
LEMMA RacedGrows == TypeOK /\ BusTellsTheCall /\ [Next]_vars => raced \subseteq raced'
<1>1. ASSUME TypeOK, BusTellsTheCall, NEW r \in Recorder, AppendEvent(r) PROVE raced \subseteq raced'
  BY <1>1, AppendIs
<1>2. QED
  BY <1>1 DEF Next, Record, RecordOnce, FindExisting, ReadHighest, Publish, ReadForCompaction, Rewrite,
              Connect, Subscribe, Heartbeat, Disconnect, Restart, vars

\* The invariant holds at the start
LEMMA IInvInit == Init => IInv
<1> SUFFICES ASSUME Init PROVE IInv
  OBVIOUS
<1>1. /\ \A r \in Recorder : call[r].pc = "idle" /\ call[r].key = NoKey
      /\ \A c \in Client : client[c].pc = "off" /\ client[c].read = {} /\ client[c].backlog = {}
      /\ file = <<>> /\ ToSet(file) = {} /\ ToSet(published) = {} /\ Ids({}) = {}
  BY DEF Init, Idle, Off, ToSet, Ids
<1>2. IdsAreGiven
  BY <1>1 DEF IdsAreGiven, CallIds, BusIds, FileIds, SeenIds, ReadIds, Rewrites
<1>3. BusTellsTheCall /\ ReadIsTheFile
  BY <1>1 DEF BusTellsTheCall, Waits, ReadIsTheFile, Rewrites
<1>4. BacklogIsBounded
  BY <1>1, 0 \in Nat DEF BacklogIsBounded
<1>5. OneAtATime
  BY <1>1, EventStreamAssumption DEF OneAtATime, Records
<1>6. DOMAIN file = {}
  BY <1>1
<1>7. OnceEverywhere /\ AllApart
  BY <1>1, <1>6 DEF OnceEverywhere, Once, AllApart, Apart, Rewrites
<1>8. CalmFile
  BY <1>1, <1>7 DEF CalmFile, NothingComesBack, SeqsAreBeyond, Rewrites
<1>9. CalmStreams
  BY <1>1 DEF CalmStreams, NotYetWritten, NotYetRead, AppendIsTold, ReplayHasAll, LiveHasAll, Pends, Waits
<1>10. QED
  BY <1>2, <1>3, <1>4, <1>5, <1>7, <1>8, <1>9, TypeInit DEF IInv

\* and after each step.
LEMMA IInvStep == IInv /\ [Next]_vars => IInv'
<1> SUFFICES ASSUME IInv, [Next]_vars PROVE IInv'
  OBVIOUS
<1>1. TypeOK' /\ IdsAreGiven' /\ BusTellsTheCall' /\ BacklogIsBounded'
  BY TypeStep, IdsStep, BusStep, BacklogStep DEF IInv
<1>2. OneAtATime' /\ ReadIsTheFile' /\ OnceEverywhere'
  BY OneAtATimeStep, ReadIsTheFileStep, OnceStep DEF IInv
<1>3. ASSUME raced' = {} PROVE CalmFile' /\ CalmStreams'
  <2>1. CalmFile /\ CalmStreams
    BY <1>3, RacedGrows DEF IInv
  <2>2. CalmFile'
    <3>1. AllApart' /\ NothingComesBack' /\ SeqsAreBeyond'
      BY <1>3, <2>1, ApartStep, NothingComesBackStep, SeqsAreBeyondStep DEF IInv
    <3>2. QED
      BY <3>1 DEF CalmFile
  <2>3. CalmStreams'
    <3>1. NotYetWritten' /\ NotYetRead' /\ AppendIsTold' /\ ReplayHasAll' /\ LiveHasAll'
      BY <2>1, NotYetWrittenStep, NotYetReadStep, AppendIsToldStep, ReplayHasAllStep, LiveHasAllStep
         DEF IInv
    <3>2. QED
      BY <3>1 DEF CalmStreams
  <2>4. QED
    BY <2>2, <2>3
<1>4. QED
  BY <1>1, <1>2, <1>3 DEF IInv

\* The invariant holds of every behaviour.
THEOREM Inductive == Spec => []IInv
<1>1. Init => IInv
  BY IInvInit
<1>2. IInv /\ [Next]_vars => IInv'
  BY IInvStep
<1>3. QED
  BY <1>1, <1>2, PTL DEF Spec

\* recordOnce leaves one event of a key, and two events share a seq only if they were
\* recorded at once, for any number of recorders and restarts; but for what compaction
\* under way may drop and put back.
THEOREM Recorded == Spec => []RecordedOnceInOrder
<1>1. IInv => RecordedOnceInOrder
  <2>1. ASSUME IInv PROVE OncePerKey
    BY <2>1 DEF IInv, OnceEverywhere, Once, OncePerKey
  <2>2. ASSUME IInv PROVE SharedSeqOnlyIfConcurrent
    BY <2>2 DEF IInv, CalmFile, AllApart, Apart, SharedSeqOnlyIfConcurrent
  <2>3. QED
    BY <2>1, <2>2 DEF IInv, RecordedOnceInOrder
<1>2. QED
  BY <1>1, Inductive, PTL

\* A client that has caught up misses only what was published before it subscribed and
\* written after the file was read for it.
THEOREM Missed == Spec => []MissedOnlyInFlight
<1>1. IInv => MissedOnlyInFlight
  BY DEF IInv, CalmStreams, LiveHasAll, MissedOnlyInFlight
<1>2. QED
  BY <1>1, Inductive, PTL

\* A recorded event leaves the file only as superseded usage, or when it was appended while
\* a compaction had read the file.
THEOREM Lost == Spec => LostOnlyByCompaction
<1>1. IInv /\ [Next]_vars =>
        [\A e \in ToSet(file) \ ToSet(file') :
           e.id \in raced \/ (e.key = Usage /\ \E u \in ToSet(file') : u.key = Usage)]_vars
  BY LostStep DEF IInv
<1>2. QED
  BY <1>1, Inductive, PTL DEF Spec, LostOnlyByCompaction
=============================================================================
