---------------------- MODULE SimultaneousNotice_proofs ---------------------
(***************************************************************************)
(* Proofs about SimultaneousNotice for every number of clients, containers *)
(* and streams, every lease, delay, chunk and bound: a notice is shown once *)
(* per outcome the log learned of, attempts are bounded, a settled ledger  *)
(* stays settled and was dealt with for everyone who wanted it.            *)
(*                                                                         *)
(* StateInv is inductive alone and carries the others: what a copy of the  *)
(* ledger, a queue and a chunk may hold.  OnceInv says who owns a claim,   *)
(* VersionInv what a version tells of a pass, OwedInv who may still be     *)
(* found, TriedInv where each attempt to push is counted.                  *)
(***************************************************************************)
EXTENDS SimultaneousNotice, FiniteSetTheorems, WellFoundedInduction, TLAPS

-----------------------------------------------------------------------------
(* The inductive invariant *)

\* What every copy of the ledger satisfies: an open retry is within the cursor
\* of the resolution or beyond its end, and has attempts left.
LedgerSound(l) ==
    /\ l \in Ledgers
    /\ Cardinality(Open(l.work)) <= MaxWork
    /\ \A c \in Open(l.work) : l.work[c].attempts < MaxAttempts /\ (l.resolved \/ c <= l.cursor)
    /\ l.settled => l.resolved /\ Open(l.work) = {}

AtWork == {k \in Containers : At(k, "chunk") \/ At(k, "serve")}

\* The queue of a pass: clients it found, behind the cursor, and due retries;
\* the batch is in front of the others.
QueueSound(p) ==
    /\ p.fresh # {} => ~p.ledger.resolved
    /\ p.batch \subseteq Open(p.queue)
    /\ \A c \in Open(p.queue) :
          IF c \in p.fresh
          THEN p.queue[c].attempts = 0 /\ p.ledger.work[c] = NoItem /\ c > p.ledger.cursor
          ELSE p.queue[c] = p.ledger.work[c]
    /\ \A c \in p.batch, d \in Open(p.queue) \ p.batch : c < d

PassSound(p) ==
    /\ LedgerSound(p.ledger)
    /\ p.pc # "read" => ~p.ledger.settled
    /\ p.pc \in {"chunk", "serve"} => QueueSound(p)
    /\ p.pc # "serve" => p.batch = {}
    /\ p.now <= clock /\ clock <= p.now + LambdaLimit

\* The attempts of a chunk in progress, and no others.
TasksSound ==
    \A k \in Containers, c \in Clients :
        IF At(k, "serve") /\ c \in pass[k].batch
        THEN task[k][c] \in Tasks /\ task[k][c].item.attempts < MaxAttempts
        ELSE task[k][c] = NoTask

StateInv ==
    /\ TypeOK
    /\ LedgerSound(ledger)
    /\ \A k \in Containers : pass[k] # Idle => PassSound(pass[k])
    /\ TasksSound

\* The tasks between their claim and the end of it.
Sending(k, c) == task[k][c].pc \in {"push", "confirm", "release"}

\* A task that pushes holds the claim it made, alone.
SendersOwn ==
    \A k \in Containers, c \in Clients : Sending(k, c) =>
        /\ log[KeyOf(k, c)] = [status |-> "claimed", at |-> pass[k].now]
        /\ \A j \in Containers : Sending(j, c) /\ KeyOf(j, c) = KeyOf(k, c) => j = k

\* The row, or the task that is about to write it, knows of a push.
IsKnown(key) ==
    \/ log[key].status = "delivered"
    \/ \E k \in Containers, c \in Clients : task[k][c].pc = "confirm" /\ KeyOf(k, c) = key

PushesCounted ==
    \A key \in Keys :
        shown[key] <= unconfirmed[key] + misreported[key] + (IF IsKnown(key) THEN 1 ELSE 0)

OnceInv == SendersOwn /\ PushesCounted

\* As long as the ledger stands, its version tells the passes apart: the one
\* that took the last lease, whose copy is the ledger, and the overtaken ones.
Leaseholder(k) == pass[k] # Idle /\ pass[k].pc \notin {"read", "lease"}

VersionsTell ==
    \A k \in Containers : pass[k] # Idle /\ pass[k].pc # "read" =>
        /\ pass[k].ledger.version <= ledger.version
        /\ pass[k].ledger.version = ledger.version =>
              ~ledger.settled /\ (pass[k].pc \in {"lease", "resolve"} => pass[k].ledger = ledger)
        /\ \A j \in Containers :
              Leaseholder(k) /\ Leaseholder(j) /\ pass[j].ledger.version = pass[k].ledger.version => j = k

VersionInv == notice # "gone" => VersionsTell

\* A copy of the ledger owes nobody anything who wants the notice: the client
\* has been dealt with, is open in it or is still to be found.
Owed(l) ==
    \A c \in steady : c \in dealt \/ c \in Open(l.work) \/ (~l.resolved /\ c > l.cursor)

OwedByPass(p) ==
    \A c \in steady : c \in dealt \/ c \in Open(p.ledger.work) \/ c \in p.fresh \cap Open(p.queue)

OwedInv ==
    /\ \A c \in steady : Wants(config[c])
    /\ Owed(ledger)
    /\ \A k \in Containers : pass[k] # Idle =>
          IF k \in AtWork THEN OwedByPass(pass[k]) ELSE Owed(pass[k].ledger)

\* The attempts a copy of the ledger tells of, and those of a task and of a pass.
Recorded(l, c) ==
    IF c \in Open(l.work) THEN l.work[c].attempts
    ELSE IF l.resolved \/ c <= l.cursor THEN MaxAttempts ELSE 0

Early == {"look", "claim", "push"}

Spent(t) ==
    IF t.pc \in Early \/ (t.pc = "done" /\ t.kind = "again") THEN t.item.attempts
    ELSE IF t.pc = "release" THEN t.item.attempts + 1
    ELSE MaxAttempts

Used(k, c) ==
    IF c \in pass[k].batch THEN Spent(task[k][c])
    ELSE IF c \in Open(pass[k].queue) THEN pass[k].queue[c].attempts
    ELSE Recorded(pass[k].ledger, c)

\* The passes at work that may have pushed to the client.
MayHaveTried(c) ==
    {k \in AtWork : c \in Open(pass[k].queue) => c \in pass[k].batch /\ task[k][c].pc \notin Early}

\* Beyond what the ledger tells of, each pass at work and each lost one made at
\* most one attempt; the pass that holds the lease counts its own.
TriesTold(c) ==
    /\ tried[c] <= Recorded(ledger, c) + lost + Cardinality(MayHaveTried(c))
    /\ \A k \in AtWork : pass[k].ledger.version = ledger.version =>
          tried[c] <= Used(k, c) + lost + Cardinality(MayHaveTried(c) \ {k})

TriedInv == notice # "gone" => \A c \in Clients : TriesTold(c)

-----------------------------------------------------------------------------
(* Numbers and small sets *)

LEMMA LeastExists ==
    ASSUME NEW S \in SUBSET Nat, S # {}
    PROVE  \E n \in S : \A m \in S : n <= m
  <1>1. PICK n \in S : \A m \in S : <<m, n>> \notin OpToRel(<, Nat)
    BY NatLessThanWellFounded, WFMin
  <1>2. \A m \in S : ~(m < n)
    BY <1>1 DEF OpToRel
  <1>3. QED
    BY <1>2

\* Induction over an interval, for a set.
LEMMA UpTo ==
    ASSUME NEW n \in Nat, NEW G, 0 \in G, \A i \in 1..n : i - 1 \in G => i \in G
    PROVE  \A i \in 0..n : i \in G
  <1> DEFINE T == {i \in 0..n : i \notin G}
  <1> SUFFICES ASSUME T # {} PROVE FALSE
    OBVIOUS
  <1>1. T \in SUBSET Nat
    OBVIOUS
  <1>2. PICK m \in T : \A i \in T : m <= i
    <2> HIDE DEF T
    <2>1. QED
      BY <1>1, LeastExists
  <1>3. m \in 1..n /\ m - 1 \in 0..n /\ m - 1 \notin T
    BY <1>2
  <1>4. m - 1 \in G
    BY <1>3
  <1>5. QED
    BY <1>2, <1>3, <1>4

\* A recursion over an interval has a solution.
Solvable(n, A, first, Step) ==
    \E f \in [0..n -> A] : f[0] = first /\ \A i \in 1..n : f[i] = Step[<<f[i - 1], i>>]

LEMMA StepsExist ==
    ASSUME NEW n \in Nat, NEW A, NEW first \in A, NEW Step \in [A \X (1..n) -> A]
    PROVE  Solvable(n, A, first, Step)
  <1> DEFINE Good(m, f) == f[0] = first /\ \A i \in 1..m : f[i] = Step[<<f[i - 1], i>>]
             G == {m \in 0..n : \E f \in [0..m -> A] : Good(m, f)}
  <1>1. 0 \in G
    <2> DEFINE f == [i \in 0..0 |-> first]
    <2>1. f \in [0..0 -> A] /\ f[0] = first
      OBVIOUS
    <2> HIDE DEF f
    <2>2. Good(0, f)
      BY <2>1
    <2>3. 0 \in 0..n
      OBVIOUS
    <2> HIDE DEF Good
    <2>4. QED
      BY <2>1, <2>2, <2>3
  <1>2. ASSUME NEW m \in 1..n, m - 1 \in G PROVE m \in G
    <2>1. PICK g \in [0..(m - 1) -> A] : Good(m - 1, g)
      BY <1>2
    <2> DEFINE f == [i \in 0..m |-> IF i = m THEN Step[<<g[m - 1], m>>] ELSE g[i]]
    <2>2. g[m - 1] \in A
      BY <2>1
    <2>3. Step[<<g[m - 1], m>>] \in A
      BY <2>2
    <2>4. f \in [0..m -> A]
      BY <2>1, <2>3
    <2>5. f[0] = first
      BY <2>1
    <2>6. ASSUME NEW i \in 1..m PROVE f[i] = Step[<<f[i - 1], i>>]
      <3>1. f[i - 1] = g[i - 1]
        OBVIOUS
      <3>2. CASE i = m
        <4>1. f[m] = Step[<<g[m - 1], m>>]
          OBVIOUS
        <4>2. QED
          <5> HIDE DEF f
          <5>1. QED
            BY <3>1, <3>2, <4>1
      <3>3. CASE i # m
        <4>1. i \in 1..(m - 1)
          BY <3>3
        <4>2. g[i] = Step[<<g[i - 1], i>>]
          BY <2>1, <4>1
        <4>3. f[i] = g[i]
          BY <4>1
        <4>4. QED
          <5> HIDE DEF f
          <5>1. QED
            BY <3>1, <4>2, <4>3
      <3>4. QED
        BY <3>2, <3>3
    <2>7. Good(m, f)
      <3> HIDE DEF f
      <3>1. QED
        BY <2>5, <2>6
    <2>8. QED
      <3> HIDE DEF f, Good
      <3>1. QED
        BY <2>4, <2>7
  <1>3. \A m \in 1..n : m - 1 \in G => m \in G
    <2> HIDE DEF G
    <2>1. QED
      BY <1>2
  <1>4. \A m \in 0..n : m \in G
    <2> HIDE DEF G
    <2>1. QED
      BY <1>1, <1>3, UpTo
  <1>5. n \in G
    <2> HIDE DEF G
    <2>1. QED
      BY <1>4
  <1>6. QED
    BY <1>5 DEF Solvable

LEMMA LastClientType ==
     LastClient \in Nat /\ \A c \in Clients : c \in 1..LastClient
  <1>1. Clients \subseteq Nat \ {0} /\ IsFiniteSet(Clients)
    BY NoticeAssumption
  <1> DEFINE n == Cardinality(Clients)
             Bounded(T) == \E m \in Nat : \A c \in T : c <= m
             G == {i \in 0..n : \A T \in SUBSET Clients : Cardinality(T) = i => Bounded(T)}
  <1>2. n \in Nat
    BY <1>1, FS_CardinalityType
  <1>3. \A T \in SUBSET Clients : IsFiniteSet(T)
    BY <1>1, FS_Subset
  <1>4. 0 \in G
    <2>1. ASSUME NEW T \in SUBSET Clients, Cardinality(T) = 0 PROVE Bounded(T)
      <3>1. T = {}
        BY <1>3, <2>1, FS_EmptySet
      <3>2. QED
        BY <3>1
    <2>2. QED
      <3> HIDE DEF Bounded, n
      <3>1. QED
        BY <1>2, <2>1
  <1>5. ASSUME NEW i \in 1..n, i - 1 \in G PROVE i \in G
    <2>1. ASSUME NEW T \in SUBSET Clients, Cardinality(T) = i PROVE Bounded(T)
      <3>1. T # {}
        BY <1>2, <1>3, <2>1, FS_EmptySet
      <3>2. PICK x \in T : TRUE
        BY <3>1
      <3>3. Cardinality(T \ {x}) = i - 1 /\ T \ {x} \in SUBSET Clients
        BY <1>3, <2>1, <3>2, FS_RemoveElement
      <3>4. PICK m \in Nat : \A c \in T \ {x} : c <= m
        BY <1>5, <3>3
      <3>5. x \in Nat /\ m + x \in Nat
        BY <1>1, <3>2
      <3>6. \A c \in T : c \in Nat /\ c <= m + x
        BY <1>1, <3>4, <3>5
      <3>7. QED
        BY <3>5, <3>6
    <2>2. QED
      <3> HIDE DEF Bounded, n
      <3>1. QED
        BY <1>2, <2>1
  <1>6. n \in G
    <2> HIDE DEF G, n
    <2>1. \A i \in 0..n : i \in G
      BY <1>2, <1>4, <1>5, UpTo
    <2>2. QED
      <3> HIDE DEF Bounded, n
      <3>1. QED
        BY <1>2, <2>1
  <1>7. Bounded(Clients)
    BY <1>6
  <1>8. PICK m \in Nat : /\ \A c \in Clients : c <= m
                         /\ \A b \in Nat : (\A c \in Clients : c <= b) => m <= b
    <2> DEFINE B == {b \in Nat : \A c \in Clients : c <= b}
    <2>1. B \in SUBSET Nat /\ B # {}
      BY <1>7
    <2>2. PICK m \in B : \A b \in B : m <= b
      <3> HIDE DEF B
      <3>1. QED
        BY <2>1, LeastExists
    <2>3. QED
      BY <2>2
  <1>9. m \in Clients \cup {0}
    <2> SUFFICES ASSUME m \notin Clients, m # 0 PROVE FALSE
      OBVIOUS
    <2>1. m - 1 \in Nat
      OBVIOUS
    <2>2. ASSUME NEW c \in Clients PROVE c <= m - 1
      <3>1. c \in Nat /\ c <= m /\ c # m
        BY <1>1, <1>8
      <3>2. QED
        BY <3>1
    <2>3. m <= m - 1
      BY <1>8, <2>1, <2>2
    <2>4. QED
      BY <2>3
  <1>10. LastClient \in Clients \cup {0} /\ \A c \in Clients : c <= LastClient
    <2>1. \E b \in Clients \cup {0} : \A c \in Clients : c <= b
      BY <1>8, <1>9
    <2>2. QED
      BY <2>1, Zenon DEF LastClient
  <1>11. QED
    BY <1>1, <1>10

-----------------------------------------------------------------------------
(* Items, delays and chunks *)

Works == [Clients -> Items \cup {NoItem}]

LEMMA ItemFacts ==
    /\ \A i \in Items : i # NoItem /\ i.attempts \in Nat /\ i.next \in Nat /\ i.key \in NoticeIds
    /\ NoItem \notin Items
  <1>1. \A i \in Items : i.open = TRUE /\ NoItem.open = FALSE
    BY DEF Items, NoItem
  <1>2. QED
    BY <1>1 DEF Items

LEMMA OpenFacts ==
    ASSUME NEW work \in Works, NEW c \in Clients
    PROVE  /\ c \in Open(work) <=> work[c] \in Items
           /\ c \notin Open(work) <=> work[c] = NoItem
  BY ItemFacts, Zenon DEF Open, Works

LEMMA OpenFinite ==
    ASSUME NEW work
    PROVE  IsFiniteSet(Open(work)) /\ Cardinality(Open(work)) \in Nat /\ Open(work) \subseteq Clients
  <1>1. Open(work) \in SUBSET Clients
    BY DEF Open
  <1>2. IsFiniteSet(Clients)
    BY NoticeAssumption
  <1>3. IsFiniteSet(Open(work))
    BY <1>1, <1>2, FS_Subset
  <1>4. QED
    BY <1>1, <1>3, FS_CardinalityType

LEMMA EarliestType ==
    ASSUME NEW work \in Works, Open(work) # {}
    PROVE  Earliest(work) \in Nat
  <1> DEFINE S == {work[c].next : c \in Open(work)}
  <1>1. \A c \in Open(work) : c \in Clients /\ work[c].next \in Nat
    BY OpenFacts, ItemFacts DEF Open
  <1>2. S \in SUBSET Nat /\ S # {}
    BY <1>1
  <1>3. \E t \in S : \A u \in S : t <= u
    <2> HIDE DEF S
    <2>1. QED
      BY <1>2, LeastExists
  <1>4. \E t \in S : \A c \in Open(work) : t <= work[c].next
    BY <1>3
  <1>5. Earliest(work) \in S
    BY <1>4, Zenon DEF Earliest
  <1>6. QED
    <2> HIDE DEF S
    <2>1. QED
      BY <1>2, <1>5

LEMMA LargerType ==
    ASSUME NEW a \in Nat, NEW b \in Nat
    PROVE  LargerOf(a, b) \in Nat /\ a <= LargerOf(a, b) /\ b <= LargerOf(a, b)
  BY DEF LargerOf

LEMMA DelayType ==
    ASSUME NEW n \in Nat
    PROVE  Delay(LargerOf(n, 1)) \in Nat
  <1>1. RetryDelay \in Seq(Nat \ {0}) /\ RetryDelay # <<>>
    BY NoticeAssumption
  <1>2. Len(RetryDelay) \in Nat /\ Len(RetryDelay) # 0
    BY <1>1
  <1> DEFINE m == LargerOf(n, 1)
             i == IF m <= Len(RetryDelay) THEN m ELSE Len(RetryDelay)
  <1>3. m \in Nat /\ 1 <= m
    BY LargerType
  <1>4. i \in 1..Len(RetryDelay)
    <2> HIDE DEF m
    <2>1. QED
      BY <1>2, <1>3
  <1>5. RetryDelay[i] \in Nat
    <2> HIDE DEF i
    <2>1. QED
      BY <1>1, <1>4
  <1>6. QED
    BY <1>5 DEF Delay

\* A chunk takes the first of the queue.
LEMMA FirstOfFront ==
    ASSUME NEW S \in SUBSET Clients
    PROVE  /\ FirstOf(S, ChunkSize) \subseteq S
           /\ \A c \in FirstOf(S, ChunkSize), d \in S \ FirstOf(S, ChunkSize) : c < d
  <1>1. FirstOf(S, ChunkSize) \subseteq S
    BY DEF FirstOf
  <1>2. Clients \subseteq Nat /\ IsFiniteSet(Clients) /\ ChunkSize \in Nat
    BY NoticeAssumption
  <1>3. IsFiniteSet(S)
    BY <1>2, FS_Subset
  <1>4. ASSUME NEW c \in FirstOf(S, ChunkSize), NEW d \in S \ FirstOf(S, ChunkSize), ~(c < d) PROVE FALSE
    <2> DEFINE C == {e \in S : e < c}
               D == {e \in S : e < d}
    <2>1. /\ c \in Nat /\ d \in Nat /\ d <= c
          /\ \A e \in S : e \in Nat
      <3>1. c \in S /\ d \in S
        BY <1>1
      <3>2. \A e \in S : e \in Nat
        BY <1>2
      <3>3. QED
        BY <1>4, <3>1, <3>2
    <2>2. \A e \in D : e \in C
      BY <2>1
    <2>3. IsFiniteSet(C)
      BY <1>3, FS_Subset
    <2>4. Cardinality(D) <= Cardinality(C) /\ IsFiniteSet(D)
      <3> HIDE DEF C, D
      <3>1. QED
        <4>1. D \in SUBSET C
          BY <2>2
        <4>2. QED
          BY <2>3, <4>1, FS_Subset
    <2>5. Cardinality(C) \in Nat /\ Cardinality(D) \in Nat
      <3> HIDE DEF C, D
      <3>1. QED
        BY <2>3, <2>4, FS_CardinalityType
    <2>6. Cardinality(C) < ChunkSize /\ ~(Cardinality(D) < ChunkSize)
      BY <1>4 DEF FirstOf
    <2>7. QED
      <3> HIDE DEF C, D
      <3>1. QED
        BY <1>2, <2>4, <2>5, <2>6
  <1>5. QED
    BY <1>1, <1>4

-----------------------------------------------------------------------------
(* Copies of the ledger *)

LEMMA LedgerFacts ==
    ASSUME NEW l \in Ledgers
    PROVE  /\ l.version \in Nat /\ l.settled \in BOOLEAN /\ l.lease \in Nat
           /\ l.resolved \in BOOLEAN /\ l.cursor \in Clients \cup {0} /\ l.work \in Works
  BY DEF Ledgers, Works

LEMMA ClientNumbers == \A c \in Clients \cup {0} : c \in Nat
  BY NoticeAssumption

LEMMA NoLedgerSound ==
     /\ LedgerSound(NoLedger) /\ LedgerSound([NoLedger EXCEPT !.version = 1])
           /\ Open(NoLedger.work) = {} /\ NoLedger.work \in Works
  <1>1. NoLedger \in Ledgers /\ [NoLedger EXCEPT !.version = 1] \in Ledgers /\ NoLedger.work \in Works
    BY DEF NoLedger, Ledgers, Works
  <1>2. Open(NoLedger.work) = {}
    BY DEF NoLedger, Open
  <1>3. Open([NoLedger EXCEPT !.version = 1].work) = {}
    BY DEF NoLedger, Open
  <1>4. Cardinality({}) <= MaxWork
    BY FS_EmptySet, NoticeAssumption
  <1>5. ~NoLedger.settled /\ ~[NoLedger EXCEPT !.version = 1].settled
    BY DEF NoLedger
  <1>6. QED
    BY <1>1, <1>2, <1>3, <1>4, <1>5, Zenon DEF LedgerSound

LEMMA LeasedFacts ==
    ASSUME NEW p \in Passes, LedgerSound(p.ledger)
    PROVE  LET l == Leased(p)
           IN  /\ LedgerSound(l)
               /\ l.version = p.ledger.version + 1 /\ l.settled = p.ledger.settled
               /\ l.resolved = p.ledger.resolved /\ l.cursor = p.ledger.cursor /\ l.work = p.ledger.work
  <1> DEFINE l == Leased(p)
  <1>1. p.ledger \in Ledgers /\ p.now \in Nat /\ Lease \in Nat
    BY NoticeAssumption DEF Passes
  <1>2. /\ l.version = p.ledger.version + 1 /\ l.settled = p.ledger.settled
        /\ l.resolved = p.ledger.resolved /\ l.cursor = p.ledger.cursor /\ l.work = p.ledger.work
    BY <1>1 DEF Leased, Ledgers
  <1>3. l \in Ledgers
    <2>1. p.ledger.version \in Nat
      BY <1>1, LedgerFacts
    <2>2. p.ledger.version + 1 \in Nat
      BY <2>1
    <2>3. p.now + Lease \in Nat
      BY <1>1
    <2>4. QED
      BY <1>1, <2>2, <2>3 DEF Leased, Ledgers
  <1>4. LedgerSound(l)
    <2> HIDE DEF l
    <2>1. QED
      BY <1>2, <1>3 DEF LedgerSound
  <1>5. QED
    BY <1>2, <1>4

LEMMA FinalFacts ==
    ASSUME NEW p \in Passes, LedgerSound(p.ledger)
    PROVE  LET l == FinalLedger(p)
           IN  /\ LedgerSound(l)
               /\ l.version = p.ledger.version + 1 /\ l.work = p.ledger.work
               /\ l.resolved = Resolved(p)
               /\ l.settled = (Resolved(p) /\ Open(p.ledger.work) = {})
               /\ l.cursor = IF Resolved(p) THEN 0 ELSE p.ledger.cursor
  <1> DEFINE l == FinalLedger(p)
  <1>1. p.ledger \in Ledgers
    BY DEF Passes
  <1>2. p.ledger.resolved \in BOOLEAN /\ Resolved(p) \in BOOLEAN
    BY <1>1, LedgerFacts DEF Resolved
  <1>3. /\ l.version = p.ledger.version + 1 /\ l.work = p.ledger.work
        /\ l.resolved = Resolved(p)
        /\ l.settled = (Resolved(p) /\ Open(p.ledger.work) = {})
        /\ l.cursor = IF Resolved(p) THEN 0 ELSE p.ledger.cursor
    BY <1>1 DEF FinalLedger, Ledgers
  <1>4. l \in Ledgers
    <2>1. /\ p.ledger.version + 1 \in Nat
          /\ (IF Resolved(p) THEN 0 ELSE p.ledger.cursor) \in Clients \cup {0}
          /\ (Resolved(p) /\ Open(p.ledger.work) = {}) \in BOOLEAN
      BY <1>1, <1>2, LedgerFacts
    <2>2. QED
      BY <1>1, <1>2, <2>1 DEF FinalLedger, Ledgers
  <1>5. \A c \in Open(l.work) : l.work[c].attempts < MaxAttempts /\ (l.resolved \/ c <= l.cursor)
    <2> HIDE DEF l
    <2>1. SUFFICES ASSUME NEW c \in Open(l.work)
                   PROVE  l.work[c].attempts < MaxAttempts /\ (l.resolved \/ c <= l.cursor)
      OBVIOUS
    <2>2. p.ledger.work[c].attempts < MaxAttempts /\ (p.ledger.resolved \/ c <= p.ledger.cursor)
      BY <1>3, <2>1 DEF LedgerSound
    <2>3. QED
      BY <1>3, <2>2 DEF Resolved
  <1>6. LedgerSound(l)
    <2> HIDE DEF l
    <2>1. Cardinality(Open(l.work)) <= MaxWork
      BY <1>3 DEF LedgerSound
    <2>2. l.settled => l.resolved /\ Open(l.work) = {}
      BY <1>3
    <2>3. QED
      BY <1>4, <1>5, <2>1, <2>2 DEF LedgerSound
  <1>7. QED
    BY <1>3, <1>6

-----------------------------------------------------------------------------
(* The outcomes of a chunk *)

\* A chunk whose attempts are through.
ChunkSound(k) ==
    /\ k \in Containers /\ pass[k] \in Passes
    /\ LedgerSound(pass[k].ledger) /\ ~pass[k].ledger.settled
    /\ QueueSound(pass[k])
    /\ \A c \in pass[k].batch : task[k][c] \in Tasks /\ task[k][c].item.attempts < MaxAttempts

\* What one outcome may make of a copy of the ledger.
EnteredAs(l, k, c, e) ==
    /\ e \in Ledgers
    /\ Cardinality(Open(e.work)) <= MaxWork
    /\ e.version = l.version /\ e.settled = l.settled /\ e.resolved = l.resolved
    /\ e.cursor = IF c \in pass[k].fresh THEN c ELSE l.cursor
    /\ \A d \in Clients \ {c} : e.work[d] = l.work[d]
    /\ e.work[c] = NoItem \/ (task[k][c].kind = "again" /\ e.work[c] = task[k][c].item)

LEMMA EnteredFacts ==
    ASSUME NEW k \in Containers, ChunkSound(k), NEW l \in Ledgers, NEW c \in pass[k].batch,
           Cardinality(Open(l.work)) <= MaxWork
    PROVE  EnteredAs(l, k, c, Entered(l, k, c))
  <1> DEFINE e == Entered(l, k, c)
             t == task[k][c]
             kept == t.kind = "again" /\ ~Full(l.work, c)
             i == IF kept THEN t.item ELSE NoItem
  <1>1. c \in Clients /\ t \in Tasks /\ t.item \in Items
    BY DEF ChunkSound, Passes, Tasks
  <1>2. i \in Items \cup {NoItem}
    BY <1>1
  <1>3. l.work \in Works /\ DOMAIN l.work = Clients
    BY LedgerFacts DEF Works
  <1>4. e = [l EXCEPT !.work[c] = i, !.cursor = IF c \in pass[k].fresh THEN c ELSE @]
    BY DEF Entered
  <1> HIDE DEF e, i
  <1>5. /\ e.version = l.version /\ e.settled = l.settled /\ e.resolved = l.resolved /\ e.lease = l.lease
        /\ e.cursor = IF c \in pass[k].fresh THEN c ELSE l.cursor
        /\ e.work = [l.work EXCEPT ![c] = i]
    BY <1>4 DEF Ledgers
  <1>6. e.work \in Works
    BY <1>2, <1>3, <1>5 DEF Works
  <1>7. e \in Ledgers
    <2>1. e.cursor \in Clients \cup {0}
      BY <1>1, <1>5, LedgerFacts
    <2>2. l = [version |-> l.version, settled |-> l.settled, lease |-> l.lease, resolved |-> l.resolved,
               cursor |-> l.cursor, work |-> l.work]
      BY DEF Ledgers
    <2>3. e = [version |-> l.version, settled |-> l.settled, lease |-> l.lease, resolved |-> l.resolved,
               cursor |-> e.cursor, work |-> e.work]
      BY <1>4, <1>5, <2>2
    <2>4. QED
      BY <1>6, <2>1, <2>3, LedgerFacts DEF Ledgers, Works
  <1>8. \A d \in Clients \ {c} : e.work[d] = l.work[d]
    BY <1>3, <1>5
  <1>9. e.work[c] = i
    BY <1>1, <1>3, <1>5
  <1>10. Cardinality(Open(e.work)) <= MaxWork
    <2>1. /\ IsFiniteSet(Open(l.work)) /\ Cardinality(Open(l.work)) \in Nat
          /\ IsFiniteSet(Open(e.work)) /\ Cardinality(Open(e.work)) \in Nat
      BY OpenFinite
    <2>2. CASE i = NoItem \/ l.work[c] # NoItem
      <3>1. Open(e.work) \in SUBSET Open(l.work)
        BY <1>8, <1>9, <2>2 DEF Open
      <3>2. Cardinality(Open(e.work)) <= Cardinality(Open(l.work))
        BY <2>1, <3>1, FS_Subset
      <3>3. QED
        BY <2>1, <3>2, NoticeAssumption
    <2>3. CASE i # NoItem /\ l.work[c] = NoItem
      <3>1. ~Full(l.work, c)
        BY <2>3 DEF i
      <3>2. Cardinality(Open(l.work)) < MaxWork /\ MaxWork \in Nat
        BY <2>1, <2>3, <3>1, NoticeAssumption DEF Full
      <3>3. Open(e.work) = Open(l.work) \cup {c}
        BY <1>1, <1>8, <1>9, <2>3 DEF Open
      <3>4. Cardinality(Open(e.work)) <= Cardinality(Open(l.work)) + 1
        <4> DEFINE S == Open(l.work)
        <4>1. IsFiniteSet(S) /\ Cardinality(S) \in Nat
          BY <2>1
        <4> HIDE DEF S
        <4>2. Cardinality(S \cup {c}) <= Cardinality(S) + 1
          <5>1. Cardinality(S \cup {c}) = IF c \in S THEN Cardinality(S) ELSE Cardinality(S) + 1
            BY <4>1, FS_AddElement, Zenon
          <5>2. QED
            BY <4>1, <5>1
        <4>3. QED
          BY <3>3, <4>2 DEF S
      <3>5. QED
        BY <2>1, <3>2, <3>4
    <2>4. QED
      BY <2>2, <2>3
  <1>11. e.work[c] = NoItem \/ (task[k][c].kind = "again" /\ e.work[c] = task[k][c].item)
    BY <1>9 DEF i
  <1>12. QED
    BY <1>5, <1>7, <1>8, <1>10, <1>11 DEF e, EnteredAs

\* The ledger with the outcomes of the clients up to n.
EnteredUpTo(k, n, e) ==
    LET l == pass[k].ledger
        found == {c \in pass[k].fresh \cap pass[k].batch : c <= n}
    IN  /\ e \in Ledgers
        /\ Cardinality(Open(e.work)) <= MaxWork
        /\ e.version = l.version /\ e.settled = l.settled /\ e.resolved = l.resolved
        /\ \/ found = {} /\ e.cursor = l.cursor
           \/ e.cursor \in found /\ \A c \in found : c <= e.cursor
        /\ \A c \in Clients :
              IF c \in pass[k].batch /\ c <= n
              THEN e.work[c] = NoItem \/ (task[k][c].kind = "again" /\ e.work[c] = task[k][c].item)
              ELSE e.work[c] = l.work[c]

LEMMA OneMoreEntered ==
    ASSUME NEW k \in Containers, ChunkSound(k), NEW n \in 1..LastClient, NEW e,
           EnteredUpTo(k, n - 1, e)
    PROVE  EnteredUpTo(k, n, IF n \in pass[k].batch THEN Entered(e, k, n) ELSE e)
  <1>1. LastClient \in Nat /\ \A c \in Clients : c \in Nat
    BY LastClientType, ClientNumbers
  <1>2. n \in Nat /\ n - 1 \in Nat /\ \A c \in Clients : c <= n <=> c = n \/ c <= n - 1
    <2>1. n \in Nat /\ n - 1 \in Nat
      BY <1>1
    <2>2. \A c \in Nat : c <= n <=> c = n \/ c <= n - 1
      BY <2>1
    <2>3. QED
      BY <1>1, <2>1, <2>2
  <1> DEFINE l == pass[k].ledger
             both == pass[k].fresh \cap pass[k].batch
             before == {c \in both : c <= n - 1}
             found == {c \in both : c <= n}
  <1>3. pass[k].batch \subseteq Clients /\ both \subseteq Clients
    BY DEF ChunkSound, Passes
  <1>4. found = IF n \in both THEN before \cup {n} ELSE before
    BY <1>2, <1>3
  <1>5. /\ e \in Ledgers
        /\ Cardinality(Open(e.work)) <= MaxWork
        /\ e.version = l.version /\ e.settled = l.settled /\ e.resolved = l.resolved
        /\ \/ before = {} /\ e.cursor = l.cursor
           \/ e.cursor \in before /\ \A c \in before : c <= e.cursor
    BY Zenon DEF EnteredUpTo
  <1>6. \A c \in Clients :
              IF c \in pass[k].batch /\ c <= n - 1
              THEN e.work[c] = NoItem \/ (task[k][c].kind = "again" /\ e.work[c] = task[k][c].item)
              ELSE e.work[c] = l.work[c]
    BY Zenon DEF EnteredUpTo
  <1>7. CASE n \notin pass[k].batch
    <2>1. found = before
      BY <1>4, <1>7
    <2>2. \A c \in Clients : (c \in pass[k].batch /\ c <= n) <=> (c \in pass[k].batch /\ c <= n - 1)
      BY <1>2, <1>7
    <2>3. EnteredUpTo(k, n, e)
      <3> HIDE DEF both
      <3>1. QED
        BY <1>5, <1>6, <2>1, <2>2, Zenon DEF EnteredUpTo, both
    <2>4. QED
      BY <1>7, <2>3
  <1>8. CASE n \in pass[k].batch
    <2> DEFINE f == Entered(e, k, n)
    <2>1. /\ f \in Ledgers
          /\ Cardinality(Open(f.work)) <= MaxWork
          /\ f.version = e.version /\ f.settled = e.settled /\ f.resolved = e.resolved
          /\ f.cursor = IF n \in pass[k].fresh THEN n ELSE e.cursor
          /\ \A d \in Clients \ {n} : f.work[d] = e.work[d]
          /\ f.work[n] = NoItem \/ (task[k][n].kind = "again" /\ f.work[n] = task[k][n].item)
      <3>1. EnteredAs(e, k, n, f)
        BY <1>5, <1>8, EnteredFacts, Zenon
      <3>2. QED
        BY <3>1, Zenon DEF EnteredAs
    <2> HIDE DEF f
    <2>2. \/ found = {} /\ f.cursor = l.cursor
          \/ f.cursor \in found /\ \A c \in found : c <= f.cursor
      <3>1. CASE n \in pass[k].fresh
        <4>1. f.cursor = n /\ n \in found
          BY <1>2, <1>8, <2>1, <3>1
        <4>2. QED
          BY <4>1
      <3>2. CASE n \notin pass[k].fresh
        <4>1. found = before /\ f.cursor = e.cursor
          BY <1>4, <2>1, <3>2
        <4> HIDE DEF found, before
        <4>2. QED
          BY <1>5, <4>1
      <3>3. QED
        BY <3>1, <3>2
    <2>3. \A c \in Clients :
              IF c \in pass[k].batch /\ c <= n
              THEN f.work[c] = NoItem \/ (task[k][c].kind = "again" /\ f.work[c] = task[k][c].item)
              ELSE f.work[c] = l.work[c]
      <3> HIDE DEF l
      <3>1. QED
        BY <1>2, <1>6, <1>8, <2>1
    <2>4. EnteredUpTo(k, n, f)
      BY <1>5, <2>1, <2>2, <2>3, Zenon DEF EnteredUpTo
    <2>5. QED
      BY <1>8, <2>4 DEF f
  <1>9. QED
    BY <1>7, <1>8

LEMMA CollectedUpTo ==
    ASSUME NEW k \in Containers, ChunkSound(k)
    PROVE  EnteredUpTo(k, LastClient, Collected(k))
  <1> DEFINE n == LastClient
             first == pass[k].ledger
             batch == pass[k].batch
             Rule(f) == [i \in 0..n |-> IF i = 0 THEN first
                                        ELSE IF i \in batch THEN Entered(f[i - 1], k, i) ELSE f[i - 1]]
             A == {l \in Ledgers : Cardinality(Open(l.work)) <= MaxWork}
             Step == [x \in A \X (1..n) |-> IF x[2] \in batch THEN Entered(x[1], k, x[2]) ELSE x[1]]
  <1>1. n \in Nat
    BY LastClientType
  <1>2. first \in A
    BY DEF ChunkSound, LedgerSound
  <1>3. ASSUME NEW l \in A, NEW i \in 1..n
        PROVE  (IF i \in batch THEN Entered(l, k, i) ELSE l) \in A
    BY EnteredFacts DEF EnteredAs
  <1>4. Step \in [A \X (1..n) -> A]
    BY <1>3
  <1>5. PICK f \in [0..n -> A] : f[0] = first /\ \A i \in 1..n : f[i] = Step[<<f[i - 1], i>>]
    <2> HIDE DEF n, first, A, Step
    <2>1. Solvable(n, A, first, Step)
      BY <1>1, <1>2, <1>4, StepsExist
    <2>2. QED
      BY <2>1 DEF Solvable
  <1>6. \A i \in 1..n : f[i] = IF i \in batch THEN Entered(f[i - 1], k, i) ELSE f[i - 1]
    <2>1. SUFFICES ASSUME NEW i \in 1..n
                   PROVE  f[i] = IF i \in batch THEN Entered(f[i - 1], k, i) ELSE f[i - 1]
      OBVIOUS
    <2>2. f[i - 1] \in A
      BY <1>1, <1>5
    <2>3. QED
      BY <1>5, <2>2
  <1>7. f = Rule(f)
    <2> HIDE DEF A, Step, first, batch
    <2>1. QED
      BY <1>1, <1>5, <1>6
  <1> DEFINE g == CHOOSE h : h = Rule(h)
  <1>8. g = Rule(g)
    <2> HIDE DEF Rule
    <2>1. QED
      BY <1>7, Zenon
  <1>9. Collected(k) = g[n]
    BY DEF Collected
  <1> HIDE DEF g
  <1>10. g[0] = first /\ \A i \in 1..n : g[i] = IF i \in batch THEN Entered(g[i - 1], k, i) ELSE g[i - 1]
    <2> HIDE DEF first, batch, n
    <2>1. QED
      BY <1>1, <1>8
  <1> DEFINE G == {i \in 0..n : EnteredUpTo(k, i, g[i])}
  <1>11. 0 \in G
    <2>1. \A c \in batch : ~(c <= 0) /\ c \in Clients
      <3>1. batch \subseteq Clients
        BY DEF ChunkSound, Passes
      <3>2. \A c \in Clients : c \in Nat \ {0}
        BY NoticeAssumption
      <3>3. QED
        <4> HIDE DEF batch
        <4>1. \A c \in batch : c \in Clients /\ c \in Nat /\ c # 0
          BY <3>1, <3>2
        <4>2. \A c \in Nat : c # 0 => ~(c <= 0)
          OBVIOUS
        <4>3. QED
          BY <4>1, <4>2
    <2>2. {c \in pass[k].fresh \cap batch : c <= 0} = {}
      BY <2>1
    <2>3. first \in Ledgers /\ Cardinality(Open(first.work)) <= MaxWork
      BY <1>2
    <2>4. EnteredUpTo(k, 0, first)
      BY <2>1, <2>2, <2>3, Zenon DEF EnteredUpTo
    <2>5. QED
      BY <1>1, <1>10, <2>4
  <1>12. \A i \in 1..n : i - 1 \in G => i \in G
    <2>1. SUFFICES ASSUME NEW i \in 1..n, i - 1 \in G PROVE EnteredUpTo(k, i, g[i])
      BY <1>1
    <2>2. EnteredUpTo(k, i - 1, g[i - 1])
      BY <2>1
    <2>3. EnteredUpTo(k, i, IF i \in pass[k].batch THEN Entered(g[i - 1], k, i) ELSE g[i - 1])
      BY <2>2, OneMoreEntered
    <2>4. QED
      BY <1>10, <2>3
  <1>13. n \in G
    <2> HIDE DEF G, n
    <2>1. \A i \in 0..n : i \in G
      BY <1>1, <1>11, <1>12, UpTo, Zenon
    <2>2. QED
      BY <1>1, <2>1
  <1>14. QED
    BY <1>9, <1>13

\* All of them: the copy stays sound, the batch is open again or done with, the
\* cursor has passed the clients found.
LEMMA CollectedFacts ==
    ASSUME NEW k \in Containers, ChunkSound(k)
    PROVE  LET e == Collected(k)
               l == pass[k].ledger
           IN  /\ LedgerSound(e)
               /\ e.version = l.version /\ ~e.settled /\ e.resolved = l.resolved
               /\ l.cursor <= e.cursor /\ e.cursor \in {l.cursor} \cup pass[k].batch
               /\ \A c \in pass[k].fresh \cap pass[k].batch : c <= e.cursor
               /\ \A c \in Clients \ pass[k].batch : e.work[c] = l.work[c]
               /\ \A c \in pass[k].batch :
                     e.work[c] = NoItem \/ (task[k][c].kind = "again" /\ e.work[c] = task[k][c].item)
  <1> DEFINE e == Collected(k)
             l == pass[k].ledger
             batch == pass[k].batch
             found == {c \in pass[k].fresh \cap batch : c <= LastClient}
  <1>1. EnteredUpTo(k, LastClient, e)
    BY CollectedUpTo
  <1> HIDE DEF e
  <1>2. \A c \in Clients : c \in Nat /\ c <= LastClient
    BY LastClientType, ClientNumbers
  <1>3. batch \subseteq Clients /\ l \in Ledgers /\ l.cursor \in Nat /\ ~l.settled
    BY LedgerFacts, ClientNumbers DEF ChunkSound, Passes
  <1>4. found = pass[k].fresh \cap batch
    BY <1>2, <1>3
  <1>5. /\ e \in Ledgers
        /\ Cardinality(Open(e.work)) <= MaxWork
        /\ e.version = l.version /\ e.settled = l.settled /\ e.resolved = l.resolved
        /\ \/ found = {} /\ e.cursor = l.cursor
           \/ e.cursor \in found /\ \A c \in found : c <= e.cursor
    BY <1>1, Zenon DEF EnteredUpTo
  <1>6. \A c \in Clients :
              IF c \in batch
              THEN e.work[c] = NoItem \/ (task[k][c].kind = "again" /\ e.work[c] = task[k][c].item)
              ELSE e.work[c] = l.work[c]
    BY <1>1, <1>2 DEF EnteredUpTo
  <1>7. ASSUME NEW c \in pass[k].fresh \cap batch PROVE c > l.cursor
    BY <1>7 DEF ChunkSound, QueueSound
  <1>8. l.cursor <= e.cursor /\ e.cursor \in {l.cursor} \cup batch /\ e.cursor \in Nat
    <2>1. CASE found = {} /\ e.cursor = l.cursor
      BY <1>3, <2>1
    <2>2. CASE e.cursor \in found
      <3>1. e.cursor \in pass[k].fresh \cap batch /\ e.cursor \in Clients
        BY <1>3, <1>4, <2>2
      <3>2. e.cursor \in Nat /\ e.cursor > l.cursor
        BY <1>2, <1>7, <3>1
      <3>3. QED
        BY <1>3, <3>1, <3>2
    <2>3. QED
      BY <1>5, <2>1, <2>2
  <1>9. \A c \in pass[k].fresh \cap batch : c <= e.cursor
    BY <1>4, <1>5
  <1>13. \A c \in Clients : c <= l.cursor => c <= e.cursor
    <2> DEFINE a == l.cursor
               b == e.cursor
    <2>1. a \in Nat /\ b \in Nat /\ a <= b
      BY <1>3, <1>8
    <2> HIDE DEF a, b
    <2>2. \A c \in Nat : c <= a => c <= b
      BY <2>1
    <2>3. QED
      BY <1>2, <2>2 DEF a, b
  <1>10. ASSUME NEW c \in Open(e.work)
         PROVE  e.work[c].attempts < MaxAttempts /\ (e.resolved \/ c <= e.cursor)
    <2>1. c \in Clients /\ e.work[c] # NoItem
      BY DEF Open
    <2>2. CASE c \in batch
      <3>1. e.work[c] = task[k][c].item
        BY <1>6, <2>1, <2>2
      <3>2. e.work[c].attempts < MaxAttempts
        BY <2>2, <3>1 DEF ChunkSound
      <3>3. CASE c \in pass[k].fresh
        BY <1>9, <2>2, <3>2, <3>3
      <3>4. CASE c \notin pass[k].fresh
        <4>1. c \in Open(pass[k].queue) /\ pass[k].queue[c] = l.work[c]
          BY <2>2, <3>4 DEF ChunkSound, QueueSound
        <4>2. c \in Open(l.work)
          BY <4>1 DEF Open
        <4>3. l.resolved \/ c <= l.cursor
          BY <4>2 DEF ChunkSound, LedgerSound
        <4>4. QED
          BY <1>2, <1>3, <1>5, <1>8, <1>13, <2>1, <3>2, <4>3
      <3>5. QED
        BY <3>3, <3>4
    <2>3. CASE c \notin batch
      <3>1. e.work[c] = l.work[c] /\ c \in Open(l.work)
        BY <1>6, <2>1, <2>3 DEF Open
      <3>2. l.work[c].attempts < MaxAttempts /\ (l.resolved \/ c <= l.cursor)
        BY <3>1 DEF ChunkSound, LedgerSound
      <3>3. QED
        BY <1>2, <1>3, <1>5, <1>8, <1>13, <2>1, <3>1, <3>2
    <2>4. QED
      BY <2>2, <2>3
  <1>11. LedgerSound(e)
    BY <1>3, <1>5, <1>10 DEF LedgerSound
  <1>12. QED
    BY <1>3, <1>5, <1>6, <1>8, <1>9, <1>11 DEF e

-----------------------------------------------------------------------------
(* The state as the steps see it *)

LEMMA NoticeIdFacts == \A S : S \in NoticeIds <=> S \in SUBSET Streams /\ Cardinality(S) >= 2
  BY DEF NoticeIds

LEMMA PassFacts ==
    ASSUME NEW p \in Passes
    PROVE  /\ p # Idle /\ p.now \in Nat /\ p.ledger \in Ledgers
           /\ p.queue \in Works /\ p.fresh \in SUBSET Clients /\ p.batch \in SUBSET Clients
           /\ p.pc \in {"read", "lease", "resolve", "chunk", "serve"}
  <1>1. p.busy = TRUE /\ Idle.busy = FALSE
    BY DEF Passes, Idle
  <1>2. p # Idle
    BY <1>1
  <1>3. QED
    BY <1>2 DEF Passes, Works

LEMMA TaskFacts ==
    ASSUME NEW t \in Tasks
    PROVE  /\ t # NoTask /\ t.item \in Items
           /\ t.pc \in {"look", "claim", "push", "confirm", "release", "done"}
           /\ t.kind \in {"", "again", "dropped", "delivered", "gaveUp"}
           /\ t.item.attempts \in Nat /\ t.item.next \in Nat /\ t.item.key \in NoticeIds
  <1>1. t.pc \in {"look", "claim", "push", "confirm", "release", "done"} /\ NoTask.pc = "none"
    BY DEF Tasks, NoTask
  <1>2. t # NoTask
    BY <1>1
  <1>3. t.item \in Items
    BY DEF Tasks
  <1>4. QED
    BY <1>1, <1>2, <1>3, ItemFacts DEF Tasks

LEMMA BusyFacts ==
    ASSUME StateInv, NEW k \in Containers, pass[k] # Idle
    PROVE  pass[k] \in Passes /\ PassSound(pass[k]) /\ LedgerSound(pass[k].ledger)
  <1>1. pass[k] \in Passes
    BY DEF StateInv, TypeOK
  <1>2. QED
    BY <1>1 DEF StateInv, PassSound

LEMMA AtFacts ==
    ASSUME StateInv, NEW k \in Containers, NEW pc, At(k, pc)
    PROVE  /\ pass[k] # Idle /\ pass[k].pc = pc
           /\ pass[k] \in Passes /\ PassSound(pass[k]) /\ LedgerSound(pass[k].ledger)
  BY BusyFacts DEF At

\* An attempt that has not ended belongs to the chunk its pass is serving.
Attempting(k, c) ==
    /\ k \in Containers /\ c \in Clients
    /\ At(k, "serve") /\ c \in pass[k].batch /\ pass[k] \in Passes
    /\ task[k][c] \in Tasks /\ task[k][c].item.attempts < MaxAttempts

LEMMA AttemptingFacts ==
    ASSUME StateInv, NEW k \in Containers, NEW c \in Clients, task[k][c].pc # "none"
    PROVE  Attempting(k, c)
  <1>1. task[k][c] # NoTask
    BY DEF NoTask
  <1>2. At(k, "serve") /\ c \in pass[k].batch /\ task[k][c] \in Tasks /\ task[k][c].item.attempts < MaxAttempts
    BY <1>1, Zenon DEF StateInv, TasksSound
  <1>3. QED
    BY <1>2, AtFacts DEF Attempting

Moved(k, c, t) == task' = [task EXCEPT ![k] = [task[k] EXCEPT ![c] = t]]

LEMMA MovedTasks ==
    ASSUME StateInv, NEW k \in Containers, NEW c \in Clients, NEW t, Moved(k, c, t)
    PROVE  /\ task'[k][c] = t
           /\ \A j \in Containers, d \in Clients : (j # k \/ d # c) => task'[j][d] = task[j][d]
           /\ t \in Tasks => task' \in [Containers -> [Clients -> Tasks \cup {NoTask}]]
  BY DEF StateInv, TypeOK, Moved

\* What an attempt has cost so far, before and after a step of it.
Counts(t, u, pushed) == Spent(t) + pushed <= Spent(u) /\ (u.pc \in Early => t.pc \in Early)

LEMMA SpentFacts ==
    ASSUME NEW t \in Tasks, t.item.attempts < MaxAttempts
    PROVE  Spent(t) \in Nat /\ Spent(t) <= MaxAttempts
  <1>1. t.item.attempts \in Nat /\ MaxAttempts \in Nat
    BY TaskFacts, NoticeAssumption
  <1> DEFINE a == t.item.attempts
  <1>2. Spent(t) = a \/ Spent(t) = a + 1 \/ Spent(t) = MaxAttempts
    BY DEF Spent
  <1>3. a \in Nat /\ a < MaxAttempts
    BY <1>1
  <1> HIDE DEF a
  <1>4. QED
    BY <1>1, <1>2, <1>3

\* An attempt that is done costs what it tells.
LEMMA DoneMoves ==
    ASSUME StateInv, NEW k, NEW c, Attempting(k, c),
           NEW kind \in {"again", "dropped", "delivered", "gaveUp"}, NEW item \in Items,
           item.attempts < MaxAttempts, Done(k, c, kind, item)
    PROVE  LET t == [pc |-> "done", item |-> item, kind |-> kind]
           IN  /\ t \in Tasks /\ Moved(k, c, t)
               /\ Spent(t) = IF kind = "again" THEN item.attempts ELSE MaxAttempts
  <1> DEFINE t == [pc |-> "done", item |-> item, kind |-> kind]
  <1>1. t \in Tasks
    BY DEF Tasks
  <1>2. k \in Containers /\ c \in Clients /\ task \in [Containers -> [Clients -> Tasks \cup {NoTask}]]
    BY DEF Attempting, StateInv, TypeOK
  <1>3. Moved(k, c, t)
    BY <1>2 DEF Done, Moved
  <1>4. Spent(t) = IF kind = "again" THEN item.attempts ELSE MaxAttempts
    BY DEF Spent, Early
  <1>5. QED
    BY <1>1, <1>3, <1>4

\* Only a failure counts, and the last one ends the matter.
LEMMA RetryMoves ==
    ASSUME StateInv, NEW k, NEW c, Attempting(k, c),
           NEW count \in BOOLEAN, Retry(k, c, count)
    PROVE  \E t \in Tasks : /\ Moved(k, c, t)
                            /\ t.pc = "done" /\ t.item.attempts < MaxAttempts
                            /\ task[k][c].item.attempts + (IF count THEN 1 ELSE 0) <= Spent(t)
  <1> DEFINE item == task[k][c].item
             attempts == item.attempts + (IF count THEN 1 ELSE 0)
             next == pass[k].now + Delay(LargerOf(attempts, 1))
             again == [item EXCEPT !.attempts = attempts, !.retry = TRUE, !.next = next]
  <1>1. item \in Items /\ item.attempts \in Nat /\ item.attempts < MaxAttempts /\ pass[k].now \in Nat
    BY TaskFacts, PassFacts DEF Attempting
  <1>2. attempts \in Nat /\ attempts <= item.attempts + 1
    <2> DEFINE a == item.attempts
    <2>1. a \in Nat
      BY <1>1
    <2> HIDE DEF a
    <2>2. a + (IF count THEN 1 ELSE 0) \in Nat /\ a + (IF count THEN 1 ELSE 0) <= a + 1
      BY <2>1
    <2>3. QED
      BY <2>2 DEF a
  <1>3. MaxAttempts \in Nat
    BY NoticeAssumption
  <1>4. CASE attempts >= MaxAttempts
    <2>1. Done(k, c, "gaveUp", item)
      BY <1>4 DEF Retry
    <2> DEFINE t == [pc |-> "done", item |-> item, kind |-> "gaveUp"]
    <2>2. t \in Tasks /\ Moved(k, c, t) /\ Spent(t) = MaxAttempts
      BY <1>1, <2>1, DoneMoves
    <2>3. attempts <= MaxAttempts
      <3> DEFINE a == item.attempts
      <3>1. a \in Nat /\ a < MaxAttempts /\ attempts <= a + 1
        BY <1>1, <1>2
      <3> HIDE DEF a, attempts
      <3>2. QED
        BY <1>2, <1>3, <3>1
    <2>4. QED
      BY <1>1, <2>2, <2>3
  <1>5. CASE ~(attempts >= MaxAttempts)
    <2>1. Done(k, c, "again", again)
      BY <1>5 DEF Retry
    <2>2. next \in Nat
      <3> HIDE DEF attempts
      <3>1. Delay(LargerOf(attempts, 1)) \in Nat
        BY <1>2, DelayType
      <3> DEFINE d == Delay(LargerOf(attempts, 1))
                 n == pass[k].now
      <3>2. d \in Nat /\ n \in Nat
        BY <1>1, <3>1
      <3> HIDE DEF d, n
      <3>3. n + d \in Nat
        BY <3>2
      <3>4. QED
        BY <3>3 DEF d, n
    <2>3. again \in Items /\ again.attempts = attempts
      <3> HIDE DEF next, attempts
      <3>1. QED
        BY <1>1, <1>2, <2>2 DEF Items
    <2>4. again.attempts < MaxAttempts
      BY <1>2, <1>3, <1>5, <2>3
    <2> DEFINE t == [pc |-> "done", item |-> again, kind |-> "again"]
    <2> HIDE DEF again
    <2>5. t \in Tasks /\ Moved(k, c, t) /\ Spent(t) = again.attempts
      BY <2>1, <2>3, <2>4, DoneMoves
    <2>6. t.pc = "done" /\ t.item = again
      OBVIOUS
    <2> HIDE DEF t
    <2>7. attempts <= Spent(t)
      BY <1>2, <2>3, <2>5
    <2>8. QED
      BY <2>4, <2>5, <2>6, <2>7
  <1>6. QED
    BY <1>4, <1>5

-----------------------------------------------------------------------------
(* The steps of an attempt *)

AttemptMove(k, c, t) ==
    /\ Attempting(k, c)
    /\ t \in Tasks /\ t.item.attempts < MaxAttempts /\ Moved(k, c, t)
    /\ UNCHANGED <<clock, ledger, notice, config, memory, pass, dealt, steady, lost, passes>>
    /\ faults' \in Nat
    /\ \/ tried' = tried /\ Counts(task[k][c], t, 0)
       \/ tried' = [tried EXCEPT ![c] = @ + 1] /\ Counts(task[k][c], t, 1)
          /\ task[k][c].pc \in Early /\ t.pc \notin Early

UnchangedPushes == UNCHANGED <<shown, unconfirmed, misreported>>

LEMMA FaultType == StateInv /\ (Fault \/ UNCHANGED faults) => faults' \in Nat
  BY DEF StateInv, TypeOK, Fault

LEMMA RelevantType ==
    ASSUME StateInv, NEW k, NEW c, Attempting(k, c), ~(Cardinality(Relevant(k, c)) < 2)
    PROVE  Relevant(k, c) \in NoticeIds
  <1>1. config[c] \in Configs /\ task[k][c].item.key \in NoticeIds
    BY TaskFacts DEF Attempting, StateInv, TypeOK
  <1>2. Relevant(k, c) \in SUBSET Streams
    BY <1>1, NoticeIdFacts DEF Relevant, Configs
  <1>3. Cardinality(Relevant(k, c)) \in Nat
    BY <1>2, FS_Subset, FS_CardinalityType, NoticeAssumption
  <1>4. Cardinality(Relevant(k, c)) >= 2
    BY <1>3
  <1>5. QED
    BY <1>2, <1>4, NoticeIdFacts

\* A step that ends an attempt without a push.
LEMMA EndsQuietly ==
    ASSUME StateInv, NEW k, NEW c, Attempting(k, c),
           NEW t \in Tasks, t.pc = "done", t.item.attempts < MaxAttempts, Moved(k, c, t), Spent(task[k][c]) <= Spent(t),
           UNCHANGED <<clock, ledger, notice, config, memory, pass, tried, dealt, steady, lost, passes>>,
           faults' \in Nat
    PROVE  AttemptMove(k, c, t)
  <1>1. Spent(task[k][c]) \in Nat
    BY SpentFacts DEF Attempting
  <1>2. Counts(task[k][c], t, 0)
    BY <1>1 DEF Counts, Early
  <1>3. QED
    BY <1>2, Zenon DEF AttemptMove

LEMMA LookMoves ==
    ASSUME StateInv, NEW k \in Containers, NEW c \in Clients, Look(k, c)
    PROVE  /\ UNCHANGED log /\ UnchangedPushes
           /\ task[k][c].pc = "look"
           /\ \E t : AttemptMove(k, c, t) /\ t.pc \in {"claim", "done"}
  <1> DEFINE item == task[k][c].item
             now == pass[k].now
             key == Relevant(k, c)
             recheck == LargerOf(config[c].blockedUntil, now + DeferMin)
             rest == <<clock, ledger, notice, config, memory, pass, tried, dealt, steady, lost, passes>>
  <1>1. /\ UNCHANGED log /\ UnchangedPushes
        /\ task[k][c].pc = "look" /\ UNCHANGED rest /\ UNCHANGED faults
    BY DEF Look, Attempts, UnchangedPushes, pushVars, boundVars
  <1>2. Attempting(k, c)
    BY <1>1, AttemptingFacts
  <1>3. /\ item \in Items /\ item.attempts \in Nat /\ item.attempts < MaxAttempts /\ now \in Nat
        /\ config[c].blockedUntil \in Nat /\ MaxAttempts \in Nat /\ DeferMin \in Nat
    BY <1>2, TaskFacts, PassFacts, NoticeAssumption DEF Attempting, StateInv, TypeOK, Configs
  <1>4. faults' \in Nat /\ Spent(task[k][c]) = item.attempts
    BY <1>1, FaultType DEF Spent, Early
  <1>5. ASSUME Done(k, c, "dropped", item)
        PROVE  \E t : AttemptMove(k, c, t) /\ t.pc \in {"claim", "done"}
    <2> DEFINE t == [pc |-> "done", item |-> item, kind |-> "dropped"]
    <2>1. t \in Tasks /\ Moved(k, c, t) /\ Spent(t) = MaxAttempts
      BY <1>2, <1>3, <1>5, DoneMoves
    <2>2. Spent(task[k][c]) <= Spent(t)
      <3> DEFINE a == item.attempts
      <3>1. a \in Nat /\ MaxAttempts \in Nat /\ a < MaxAttempts /\ Spent(task[k][c]) = a
        BY <1>3, <1>4
      <3> HIDE DEF a
      <3>2. a <= MaxAttempts
        BY <3>1
      <3>3. QED
        BY <2>1, <3>1, <3>2
    <2>3. t.pc = "done" /\ t.item = item
      OBVIOUS
    <2> HIDE DEF t
    <2>4. AttemptMove(k, c, t)
      BY <1>1, <1>2, <1>3, <1>4, <2>1, <2>2, <2>3, EndsQuietly
    <2>5. QED
      BY <2>3, <2>4
  <1>6. ASSUME NEW again \in Items, again.attempts = item.attempts, Done(k, c, "again", again)
        PROVE  \E t : AttemptMove(k, c, t) /\ t.pc \in {"claim", "done"}
    <2> DEFINE t == [pc |-> "done", item |-> again, kind |-> "again"]
    <2>1. t \in Tasks /\ Moved(k, c, t) /\ Spent(t) = again.attempts
      BY <1>2, <1>3, <1>6, DoneMoves
    <2>2. Spent(task[k][c]) <= Spent(t)
      <3> DEFINE a == item.attempts
      <3>1. a \in Nat /\ Spent(task[k][c]) = a /\ Spent(t) = a
        BY <1>3, <1>4, <1>6, <2>1
      <3> HIDE DEF a
      <3>2. QED
        BY <3>1
    <2>3. t.pc = "done" /\ t.item = again
      OBVIOUS
    <2> HIDE DEF t
    <2>4. AttemptMove(k, c, t)
      BY <1>1, <1>2, <1>3, <1>4, <1>6, <2>1, <2>2, <2>3, EndsQuietly
    <2>5. QED
      BY <2>3, <2>4
  <1>7. ASSUME task' = [task EXCEPT ![k][c] = [@ EXCEPT !.pc = "claim", !.item = [item EXCEPT !.key = key]]], key \in NoticeIds
        PROVE  \E t : AttemptMove(k, c, t) /\ t.pc \in {"claim", "done"}
    <2> DEFINE i == [item EXCEPT !.key = key]
               t == [task[k][c] EXCEPT !.pc = "claim", !.item = i]
    <2>1. i \in Items /\ i.attempts = item.attempts
      BY <1>3, <1>7 DEF Items
    <2>2. t \in Tasks /\ t.pc = "claim" /\ t.item = i
      <3>1. task[k][c] \in Tasks
        BY <1>2 DEF Attempting
      <3> HIDE DEF i
      <3>2. QED
        BY <2>1, <3>1 DEF Tasks
    <2>3. task[k][c] \in Tasks /\ task \in [Containers -> [Clients -> Tasks \cup {NoTask}]]
      BY <1>2 DEF Attempting, StateInv, TypeOK
    <2>4. Moved(k, c, t)
      <3>2. task' = [task EXCEPT ![k][c] = t]
        BY <1>7, <2>3
      <3>3. QED
        <4> HIDE DEF t, i
        <4>1. QED
          BY <2>3, <3>2 DEF Moved
    <2> HIDE DEF t, i
    <2>5. Spent(t) = item.attempts
      BY <2>1, <2>2 DEF Spent, Early
    <2>6. Counts(task[k][c], t, 0)
      <3> HIDE DEF item
      <3>1. item.attempts + 0 <= item.attempts
        BY <1>3
      <3>2. QED
        BY <1>1, <1>4, <2>5, <3>1 DEF Counts, Early
    <2>7. t.item.attempts < MaxAttempts
      BY <1>3, <2>1, <2>2
    <2>8. AttemptMove(k, c, t)
      BY <1>1, <1>2, <1>4, <2>2, <2>4, <2>6, <2>7, Zenon DEF AttemptMove
    <2>9. QED
      BY <2>2, <2>8
  <1>8. recheck \in Nat /\ now + Delay(LargerOf(item.attempts, 1)) \in Nat
    <2>1. now + DeferMin \in Nat
      <3> HIDE DEF now
      <3>1. QED
        BY <1>3
    <2>2. recheck \in Nat
      BY <1>3, <2>1, LargerType
    <2>3. Delay(LargerOf(item.attempts, 1)) \in Nat
      BY <1>3, DelayType
    <2> DEFINE d == Delay(LargerOf(item.attempts, 1))
    <2>4. d \in Nat /\ now \in Nat
      BY <1>3, <2>3
    <2> HIDE DEF d, now
    <2>5. now + d \in Nat
      BY <2>4
    <2>6. QED
      BY <2>2, <2>5 DEF d, now
  <1>9. \A n \in Nat : [item EXCEPT !.next = n, !.key = key, !.retry = TRUE].attempts = item.attempts
                       /\ (key \in NoticeIds => [item EXCEPT !.next = n, !.key = key, !.retry = TRUE] \in Items)
    BY <1>3 DEF Items
  <1>10. \A n \in Nat : [item EXCEPT !.key = key, !.retry = TRUE, !.next = n] = [item EXCEPT !.next = n, !.key = key, !.retry = TRUE]
    BY <1>3 DEF Items
  <1>11. ~(Cardinality(key) < 2) => key \in NoticeIds
    BY <1>2, RelevantType
  <1>12. \/ Done(k, c, "dropped", item)
         \/ key \in NoticeIds /\ Done(k, c, "again", [item EXCEPT !.next = recheck, !.key = key, !.retry = TRUE])
         \/ key \in NoticeIds /\ Done(k, c, "again", [item EXCEPT !.key = key, !.retry = TRUE,
                                         !.next = now + Delay(LargerOf(item.attempts, 1))])
         \/ key \in NoticeIds /\ task' = [task EXCEPT ![k][c] = [@ EXCEPT !.pc = "claim", !.item = [item EXCEPT !.key = key]]]
    BY <1>11, Zenon DEF Look
  <1>13. \E t : AttemptMove(k, c, t) /\ t.pc \in {"claim", "done"}
    <2> HIDE DEF item, key, recheck, now
    <2>1. CASE key \in NoticeIds /\ Done(k, c, "again", [item EXCEPT !.next = recheck, !.key = key, !.retry = TRUE])
      BY <1>6, <1>8, <1>9, <2>1
    <2>2. CASE key \in NoticeIds /\ Done(k, c, "again", [item EXCEPT !.key = key, !.retry = TRUE,
                                         !.next = now + Delay(LargerOf(item.attempts, 1))])
      BY <1>6, <1>8, <1>9, <1>10, <2>2
    <2>3. QED
      BY <1>5, <1>7, <1>12, <2>1, <2>2
  <1>14. QED
    BY <1>1, <1>13

LEMMA GotoMoves ==
    ASSUME StateInv, NEW k, NEW c, Attempting(k, c), NEW pc \in {"look", "claim", "push", "confirm", "release", "done"},
           Goto(k, c, pc)
    PROVE  \E t \in Tasks : t.pc = pc /\ t.item = task[k][c].item /\ Moved(k, c, t)
  <1> DEFINE t == [task[k][c] EXCEPT !.pc = pc]
  <1>1. k \in Containers /\ c \in Clients /\ task[k][c] \in Tasks
        /\ task \in [Containers -> [Clients -> Tasks \cup {NoTask}]]
    BY DEF Attempting, StateInv, TypeOK
  <1>2. t \in Tasks /\ t.pc = pc /\ t.item = task[k][c].item
    BY <1>1 DEF Tasks
  <1>3. Moved(k, c, t)
    BY <1>1 DEF Goto, Moved
  <1>4. QED
    BY <1>2, <1>3

\* An attempt that may be repeated: it was not pushed, or its push is counted.
LEMMA RetryQuietly ==
    ASSUME StateInv, NEW k, NEW c, Attempting(k, c),
           NEW count \in BOOLEAN, Retry(k, c, count),
           task[k][c].pc \in Early \/ (task[k][c].pc = "release" /\ count),
           UNCHANGED <<clock, ledger, notice, config, memory, pass, tried, dealt, steady, lost, passes>>,
           faults' \in Nat
    PROVE  \E t : AttemptMove(k, c, t) /\ t.pc = "done"
  <1>1. PICK t \in Tasks : /\ Moved(k, c, t)
                           /\ t.pc = "done" /\ t.item.attempts < MaxAttempts
                           /\ task[k][c].item.attempts + (IF count THEN 1 ELSE 0) <= Spent(t)
    BY RetryMoves
  <1>2. Spent(task[k][c]) <= Spent(t)
    <2> DEFINE a == task[k][c].item.attempts
    <2>1. a \in Nat /\ Spent(t) \in Nat /\ a + (IF count THEN 1 ELSE 0) <= Spent(t)
      BY <1>1, TaskFacts, SpentFacts DEF Attempting
    <2>2. \/ Spent(task[k][c]) = a
          \/ Spent(task[k][c]) = a + 1 /\ count
      BY DEF Spent, Early
    <2> HIDE DEF a
    <2>3. QED
      BY <2>1, <2>2
  <1>3. AttemptMove(k, c, t)
    BY <1>1, <1>2, EndsQuietly
  <1>4. QED
    BY <1>1, <1>3

LEMMA LookFailsMoves ==
    ASSUME StateInv, NEW k \in Containers, NEW c \in Clients, LookFails(k, c)
    PROVE  /\ UNCHANGED log /\ UnchangedPushes
           /\ task[k][c].pc = "look"
           /\ \E t : AttemptMove(k, c, t) /\ t.pc = "done"
  <1>1. /\ UNCHANGED log /\ UnchangedPushes
        /\ task[k][c].pc = "look" /\ Retry(k, c, TRUE) /\ Fault
        /\ UNCHANGED <<clock, ledger, notice, config, memory, pass, tried, dealt, steady, lost, passes>>
    BY DEF LookFails, Attempts, UnchangedPushes, pushVars
  <1>2. Attempting(k, c) /\ faults' \in Nat
    BY <1>1, AttemptingFacts, FaultType
  <1>3. QED
    BY <1>1, <1>2, RetryQuietly DEF Early

LEMMA ClaimMoves ==
    ASSUME StateInv, NEW k \in Containers, NEW c \in Clients, ClaimNotice(k, c)
    PROVE  /\ UnchangedPushes
           /\ task[k][c].pc = "claim"
           /\ \/ /\ Claim(KeyOf(k, c), pass[k].now)
                 /\ \E t : AttemptMove(k, c, t) /\ t.pc = "push" /\ t.item = task[k][c].item
              \/ UNCHANGED log /\ \E t : AttemptMove(k, c, t) /\ t.pc = "done"
  <1>1. /\ UnchangedPushes
        /\ task[k][c].pc = "claim" /\ UNCHANGED faults
        /\ UNCHANGED <<clock, ledger, notice, config, memory, pass, tried, dealt, steady, lost, passes>>
        /\ \/ Claim(KeyOf(k, c), pass[k].now) /\ Goto(k, c, "push")
           \/ Retry(k, c, FALSE) /\ UNCHANGED log
    BY DEF ClaimNotice, Attempts, UnchangedPushes, pushVars, boundVars
  <1>2. Attempting(k, c) /\ faults' \in Nat
    BY <1>1, AttemptingFacts, FaultType
  <1>3. ASSUME Goto(k, c, "push")
        PROVE  \E t : AttemptMove(k, c, t) /\ t.pc = "push" /\ t.item = task[k][c].item
    <2>1. PICK t \in Tasks : t.pc = "push" /\ t.item = task[k][c].item /\ Moved(k, c, t)
      BY <1>2, <1>3, GotoMoves
    <2>2. t.item.attempts < MaxAttempts
      BY <1>2, <2>1 DEF Attempting
    <2>3. Spent(t) = Spent(task[k][c]) /\ Spent(t) \in Nat
      <3>1. Spent(t) \in Nat
        BY <2>1, <2>2, SpentFacts
      <3>2. QED
        BY <1>1, <2>1, <3>1 DEF Spent, Early
    <2>4. Counts(task[k][c], t, 0)
      BY <1>1, <2>3 DEF Counts, Early
    <2>5. AttemptMove(k, c, t)
      BY <1>1, <1>2, <2>1, <2>2, <2>4, Zenon DEF AttemptMove
    <2>6. QED
      BY <2>1, <2>5
  <1>4. ASSUME Retry(k, c, FALSE)
        PROVE  \E t : AttemptMove(k, c, t) /\ t.pc = "done"
    BY <1>1, <1>2, <1>4, RetryQuietly DEF Early
  <1>5. QED
    BY <1>1, <1>3, <1>4

LEMMA ClaimFailsMoves ==
    ASSUME StateInv, NEW k \in Containers, NEW c \in Clients, ClaimFails(k, c)
    PROVE  /\ UnchangedPushes
           /\ task[k][c].pc = "claim"
           /\ UNCHANGED log \/ Claim(KeyOf(k, c), pass[k].now)
           /\ \E t : AttemptMove(k, c, t) /\ t.pc = "done"
  <1>1. /\ UnchangedPushes
        /\ task[k][c].pc = "claim" /\ Fault
        /\ UNCHANGED <<clock, ledger, notice, config, memory, pass, tried, dealt, steady, lost, passes>>
        /\ UNCHANGED log \/ Claim(KeyOf(k, c), pass[k].now)
        /\ \E count \in BOOLEAN : Retry(k, c, count)
    BY DEF ClaimFails, Attempts, UnchangedPushes, pushVars
  <1>2. Attempting(k, c) /\ faults' \in Nat
    BY <1>1, AttemptingFacts, FaultType
  <1>3. PICK count \in BOOLEAN : Retry(k, c, count)
    BY <1>1
  <1>4. QED
    BY <1>1, <1>2, <1>3, RetryQuietly DEF Early

LEMMA PushMoves ==
    ASSUME StateInv, NEW k \in Containers, NEW c \in Clients, PushNotice(k, c)
    PROVE  /\ UNCHANGED <<log, unconfirmed>>
           /\ task[k][c].pc = "push"
           /\ \E accepted \in 0..2, sent \in BOOLEAN, t \in Tasks :
                /\ (IF sent THEN 1 ELSE 0) <= accepted
                /\ shown' = [shown EXCEPT ![KeyOf(k, c)] = @ + accepted]
                /\ misreported' = [misreported EXCEPT ![KeyOf(k, c)] = @ + accepted - (IF sent THEN 1 ELSE 0)]
                /\ AttemptMove(k, c, t)
                /\ t.pc = (IF sent THEN "confirm" ELSE "release") /\ t.item = task[k][c].item
  <1>1. /\ UNCHANGED <<log, unconfirmed>>
        /\ task[k][c].pc = "push" /\ tried' = [tried EXCEPT ![c] = @ + 1]
        /\ UNCHANGED <<clock, ledger, notice, config, memory, pass, dealt, steady, lost, passes>>
    BY DEF PushNotice, Attempts
  <1>2. Attempting(k, c)
    BY <1>1, AttemptingFacts
  <1>3. PICK accepted \in 0..2, sent \in BOOLEAN :
                /\ (IF sent THEN 1 ELSE 0) <= accepted
                /\ Fault \/ UNCHANGED faults
                /\ shown' = [shown EXCEPT ![KeyOf(k, c)] = @ + accepted]
                /\ misreported' = [misreported EXCEPT ![KeyOf(k, c)] = @ + accepted - (IF sent THEN 1 ELSE 0)]
                /\ \/ sent /\ task' = [task EXCEPT ![k][c].pc = "confirm"]
                   \/ ~sent /\ \E kind \in {"again", "dropped"} :
                        task' = [task EXCEPT ![k][c] = [@ EXCEPT !.pc = "release", !.kind = kind]]
    BY Zenon DEF PushNotice
  <1>4. faults' \in Nat
    BY <1>3, FaultType
  <1>5. PICK t \in Tasks : /\ Moved(k, c, t) /\ t.item = task[k][c].item
                           /\ t.pc = (IF sent THEN "confirm" ELSE "release")
    <2>1. CASE sent /\ task' = [task EXCEPT ![k][c].pc = "confirm"]
      <3>1. Goto(k, c, "confirm")
        BY <2>1 DEF Goto
      <3>2. QED
        BY <1>2, <2>1, <3>1, GotoMoves
    <2>2. ASSUME ~sent, NEW kind \in {"again", "dropped"},
                 task' = [task EXCEPT ![k][c] = [@ EXCEPT !.pc = "release", !.kind = kind]]
          PROVE  \E t \in Tasks : Moved(k, c, t) /\ t.item = task[k][c].item /\ t.pc = "release"
      <3> DEFINE t == [task[k][c] EXCEPT !.pc = "release", !.kind = kind]
      <3>1. task[k][c] \in Tasks /\ task \in [Containers -> [Clients -> Tasks \cup {NoTask}]]
        BY <1>2 DEF Attempting, StateInv, TypeOK
      <3>2. t \in Tasks /\ t.item = task[k][c].item /\ t.pc = "release"
        BY <3>1 DEF Tasks
      <3>3. Moved(k, c, t)
        BY <2>2, <3>1 DEF Moved
      <3>4. QED
        BY <3>2, <3>3
    <2>3. QED
      BY <1>3, <2>1, <2>2
  <1>6. t.item.attempts < MaxAttempts
    BY <1>2, <1>5 DEF Attempting
  <1>7. Spent(task[k][c]) + 1 <= Spent(t)
    <2> DEFINE a == task[k][c].item.attempts
    <2>1. a \in Nat /\ MaxAttempts \in Nat /\ a < MaxAttempts
      BY <1>2, TaskFacts, NoticeAssumption DEF Attempting
    <2>2. Spent(task[k][c]) = a
      BY <1>1 DEF Spent, Early
    <2>3. Spent(t) = a + 1 \/ Spent(t) = MaxAttempts
      BY <1>5 DEF Spent, Early
    <2> HIDE DEF a
    <2>4. QED
      BY <2>1, <2>2, <2>3
  <1>8. task[k][c].pc \in Early /\ t.pc \notin Early
    BY <1>1, <1>5 DEF Early
  <1>9. Counts(task[k][c], t, 1)
    BY <1>7, <1>8 DEF Counts
  <1>10. AttemptMove(k, c, t)
    BY <1>1, <1>2, <1>4, <1>5, <1>6, <1>8, <1>9, Zenon DEF AttemptMove
  <1>11. QED
    BY <1>1, <1>3, <1>5, <1>10

LEMMA ConfirmDone ==
    ASSUME StateInv, NEW k \in Containers, NEW c \in Clients,
           task[k][c].pc \in {"confirm", "release"},
           NEW kind \in {"dropped", "delivered"}, Done(k, c, kind, task[k][c].item),
           UNCHANGED <<clock, ledger, notice, config, memory, pass, tried, dealt, steady, lost, passes>>,
           faults' \in Nat
    PROVE  \E t : AttemptMove(k, c, t) /\ t.pc = "done"
  <1>1. Attempting(k, c)
    BY AttemptingFacts
  <1> DEFINE t == [pc |-> "done", item |-> task[k][c].item, kind |-> kind]
  <1>2. task[k][c].item \in Items /\ task[k][c].item.attempts < MaxAttempts /\ task[k][c] \in Tasks
    BY <1>1, TaskFacts DEF Attempting
  <1>3. t \in Tasks /\ Moved(k, c, t) /\ Spent(t) = MaxAttempts
    <2>1. kind \in {"again", "dropped", "delivered", "gaveUp"} /\ kind # "again"
      OBVIOUS
    <2>2. t \in Tasks /\ Moved(k, c, t) /\ Spent(t) = IF kind = "again" THEN task[k][c].item.attempts ELSE MaxAttempts
      BY <1>1, <1>2, <2>1, DoneMoves, Zenon
    <2>3. QED
      BY <2>1, <2>2
  <1>4. t.pc = "done" /\ t.item = task[k][c].item
    OBVIOUS
  <1> HIDE DEF t
  <1>5. Spent(task[k][c]) <= Spent(t)
    BY <1>2, <1>3, SpentFacts
  <1>6. AttemptMove(k, c, t)
    BY <1>1, <1>2, <1>3, <1>4, <1>5, EndsQuietly
  <1>7. QED
    BY <1>4, <1>6

LEMMA ConfirmMoves ==
    ASSUME StateInv, NEW k \in Containers, NEW c \in Clients, ConfirmNotice(k, c)
    PROVE  /\ UnchangedPushes
           /\ task[k][c].pc = "confirm"
           /\ Confirm(KeyOf(k, c), pass[k].now)
           /\ \E t : AttemptMove(k, c, t) /\ t.pc = "done"
  <1>1. /\ UnchangedPushes
        /\ task[k][c].pc = "confirm" /\ UNCHANGED faults
        /\ Confirm(KeyOf(k, c), pass[k].now)
        /\ Done(k, c, "delivered", task[k][c].item)
        /\ UNCHANGED <<clock, ledger, notice, config, memory, pass, tried, dealt, steady, lost, passes>>
    BY DEF ConfirmNotice, Attempts, UnchangedPushes, pushVars, boundVars
  <1>2. faults' \in Nat
    BY <1>1, FaultType
  <1>3. QED
    BY <1>1, <1>2, ConfirmDone

LEMMA ConfirmFailsMoves ==
    ASSUME StateInv, NEW k \in Containers, NEW c \in Clients, ConfirmFails(k, c)
    PROVE  /\ UNCHANGED <<shown, misreported>>
           /\ unconfirmed' = [unconfirmed EXCEPT ![KeyOf(k, c)] = @ + 1]
           /\ task[k][c].pc = "confirm"
           /\ UNCHANGED log \/ Confirm(KeyOf(k, c), pass[k].now)
           /\ \E t : AttemptMove(k, c, t) /\ t.pc = "done"
  <1>1. /\ UNCHANGED <<shown, misreported>>
        /\ unconfirmed' = [unconfirmed EXCEPT ![KeyOf(k, c)] = @ + 1]
        /\ task[k][c].pc = "confirm" /\ Fault
        /\ UNCHANGED log \/ Confirm(KeyOf(k, c), pass[k].now)
        /\ Done(k, c, "delivered", task[k][c].item)
        /\ UNCHANGED <<clock, ledger, notice, config, memory, pass, tried, dealt, steady, lost, passes>>
    BY DEF ConfirmFails, Attempts
  <1>2. faults' \in Nat
    BY <1>1, FaultType
  <1>3. QED
    BY <1>1, <1>2, ConfirmDone

LEMMA ReleaseMoves ==
    ASSUME StateInv, NEW k \in Containers, NEW c \in Clients,
           ReleaseNotice(k, c) \/ ReleaseFails(k, c)
    PROVE  /\ UnchangedPushes
           /\ task[k][c].pc = "release"
           /\ UNCHANGED log \/ Release(KeyOf(k, c))
           /\ \E t : AttemptMove(k, c, t) /\ t.pc = "done"
  <1>1. /\ UnchangedPushes
        /\ task[k][c].pc = "release" /\ (Fault \/ UNCHANGED faults)
        /\ UNCHANGED log \/ Release(KeyOf(k, c))
        /\ AfterRelease(k, c)
        /\ UNCHANGED <<clock, ledger, notice, config, memory, pass, tried, dealt, steady, lost, passes>>
    BY DEF ReleaseNotice, ReleaseFails, Attempts, UnchangedPushes, pushVars, boundVars
  <1>2. Attempting(k, c) /\ faults' \in Nat
    BY <1>1, AttemptingFacts, FaultType
  <1>3. Done(k, c, "dropped", task[k][c].item) \/ Retry(k, c, TRUE)
    BY <1>1 DEF AfterRelease
  <1>4. CASE Done(k, c, "dropped", task[k][c].item)
    BY <1>1, <1>2, <1>4, ConfirmDone
  <1>5. CASE Retry(k, c, TRUE)
    BY <1>1, <1>2, <1>5, RetryQuietly
  <1>6. QED
    BY <1>1, <1>3, <1>4, <1>5

-----------------------------------------------------------------------------
(* The state stays sound: attempts *)

PushTypes == log \in [Keys -> Entries] /\ {shown, unconfirmed, misreported} \subseteq [Keys -> Nat]

LEMMA LogTypes ==
    ASSUME log \in [Keys -> Entries], NEW key, NEW at \in Nat,
           UNCHANGED log \/ Claim(key, at) \/ Confirm(key, at) \/ Release(key)
    PROVE  log' \in [Keys -> Entries]
  <1>1. NoEntry \in Entries /\ [status |-> "claimed", at |-> at] \in Entries
        /\ [status |-> "delivered", at |-> at] \in Entries
    BY DEF NoEntry, Entries
  <1>2. \/ log' = log
        \/ \E e \in Entries : log' = [log EXCEPT ![key] = e]
    BY <1>1 DEF Claim, Confirm, Release
  <1>3. QED
    BY <1>2

LEMMA KeyType ==
    ASSUME StateInv, NEW k, NEW c, Attempting(k, c)
    PROVE  KeyOf(k, c) \in Keys
  BY TaskFacts DEF Attempting, KeyOf, Keys

LEMMA AttemptState ==
    ASSUME StateInv, NEW k \in Containers, NEW c \in Clients, NEW t, AttemptMove(k, c, t), PushTypes'
    PROVE  StateInv'
  <1>1. /\ Attempting(k, c) /\ t \in Tasks /\ t.item.attempts < MaxAttempts /\ Moved(k, c, t)
        /\ UNCHANGED <<clock, ledger, notice, config, memory, pass, dealt, steady, lost, passes>>
        /\ faults' \in Nat
    BY DEF AttemptMove
  <1>2. tried' \in [Clients -> Nat]
    <2>1. tried \in [Clients -> Nat]
      BY DEF StateInv, TypeOK
    <2>2. CASE tried' = tried
      BY <2>1, <2>2
    <2>3. CASE tried' = [tried EXCEPT ![c] = @ + 1]
      BY <2>1, <2>3
    <2>4. QED
      BY <2>2, <2>3 DEF AttemptMove
  <1>3. task' \in [Containers -> [Clients -> Tasks \cup {NoTask}]]
    BY <1>1, MovedTasks
  <1>4. TypeOK'
    <2>1. TypeOK
      BY DEF StateInv
    <2>2. QED
      BY <1>1, <1>2, <1>3, <2>1 DEF TypeOK, PushTypes
  <1>5. LedgerSound(ledger)'
    BY <1>1 DEF StateInv, LedgerSound
  <1>6. \A j \in Containers : (pass[j] # Idle => PassSound(pass[j]))'
    BY <1>1 DEF StateInv, PassSound
  <1>7. TasksSound'
    <2>1. SUFFICES ASSUME NEW j \in Containers, NEW d \in Clients
                   PROVE  IF At(j, "serve") /\ d \in pass[j].batch
                          THEN task'[j][d] \in Tasks /\ task'[j][d].item.attempts < MaxAttempts
                          ELSE task'[j][d] = NoTask
      BY <1>1 DEF TasksSound, At
    <2>2. CASE j = k /\ d = c
      BY <1>1, <2>2, MovedTasks DEF Attempting
    <2>3. CASE j # k \/ d # c
      <3>1. task'[j][d] = task[j][d]
        <4>1. \A i \in Containers, e \in Clients : (i # k \/ e # c) => task'[i][e] = task[i][e]
          BY <1>1, MovedTasks
        <4>2. QED
          BY <2>3, <4>1
      <3>2. QED
        BY <3>1 DEF StateInv, TasksSound
    <2>4. QED
      BY <2>2, <2>3
  <1>8. QED
    BY <1>4, <1>5, <1>6, <1>7 DEF StateInv

LEMMA AttemptStepState ==
    ASSUME StateInv, NEW k \in Containers, NEW c \in Clients, AttemptStep(k, c)
    PROVE  StateInv' /\ \E t : AttemptMove(k, c, t)
  <1>1. log \in [Keys -> Entries] /\ shown \in [Keys -> Nat] /\ unconfirmed \in [Keys -> Nat] /\ misreported \in [Keys -> Nat]
    BY DEF StateInv, TypeOK
  <1>2. task[k][c].pc # "none"
    BY LookMoves, LookFailsMoves, ClaimMoves, ClaimFailsMoves, PushMoves, ConfirmMoves, ConfirmFailsMoves, ReleaseMoves
       DEF AttemptStep
  <1>3. KeyOf(k, c) \in Keys /\ pass[k].now \in Nat
    BY <1>2, AttemptingFacts, KeyType, PassFacts DEF Attempting
  <1>4. PushTypes' /\ \E t : AttemptMove(k, c, t)
    <2>1. CASE Look(k, c) \/ LookFails(k, c)
      BY <1>1, <2>1, LookMoves, LookFailsMoves DEF PushTypes, UnchangedPushes
    <2>2. CASE ClaimNotice(k, c) \/ ClaimFails(k, c)
      <3>1. UnchangedPushes /\ (UNCHANGED log \/ Claim(KeyOf(k, c), pass[k].now)) /\ \E t : AttemptMove(k, c, t)
        BY <2>2, ClaimMoves, ClaimFailsMoves
      <3>2. QED
        BY <1>1, <1>3, <3>1, LogTypes DEF PushTypes, UnchangedPushes
    <2>3. CASE PushNotice(k, c)
      <3>1. PICK accepted \in 0..2, sent \in BOOLEAN, t \in Tasks :
                /\ (IF sent THEN 1 ELSE 0) <= accepted
                /\ shown' = [shown EXCEPT ![KeyOf(k, c)] = @ + accepted]
                /\ misreported' = [misreported EXCEPT ![KeyOf(k, c)] = @ + accepted - (IF sent THEN 1 ELSE 0)]
                /\ AttemptMove(k, c, t)
        BY <2>3, PushMoves
      <3>2. shown[KeyOf(k, c)] + accepted \in Nat
        BY <1>1, <1>3
      <3>3. misreported[KeyOf(k, c)] + accepted - (IF sent THEN 1 ELSE 0) \in Nat
        <4> DEFINE m == misreported[KeyOf(k, c)]
        <4>1. m \in Nat
          BY <1>1, <1>3
        <4> HIDE DEF m
        <4>2. m + accepted - (IF sent THEN 1 ELSE 0) \in Nat
          BY <3>1, <4>1
        <4>3. QED
          BY <4>2 DEF m
      <3>4. shown' \in [Keys -> Nat] /\ misreported' \in [Keys -> Nat]
        BY <1>1, <1>3, <3>1, <3>2, <3>3
      <3>5. UNCHANGED <<log, unconfirmed>>
        BY <2>3, PushMoves
      <3>6. QED
        BY <1>1, <3>1, <3>4, <3>5 DEF PushTypes
    <2>4. CASE ConfirmNotice(k, c)
      BY <1>1, <1>3, <2>4, ConfirmMoves, LogTypes DEF PushTypes, UnchangedPushes
    <2>5. CASE ConfirmFails(k, c)
      <3>1. /\ UNCHANGED <<shown, misreported>>
            /\ unconfirmed' = [unconfirmed EXCEPT ![KeyOf(k, c)] = @ + 1]
            /\ UNCHANGED log \/ Confirm(KeyOf(k, c), pass[k].now)
            /\ \E t : AttemptMove(k, c, t)
        BY <2>5, ConfirmFailsMoves
      <3>2. unconfirmed' \in [Keys -> Nat]
        BY <1>1, <1>3, <3>1
      <3>3. QED
        BY <1>1, <1>3, <3>1, <3>2, LogTypes DEF PushTypes
    <2>6. CASE ReleaseNotice(k, c) \/ ReleaseFails(k, c)
      BY <1>1, <1>3, <2>6, ReleaseMoves, LogTypes DEF PushTypes, UnchangedPushes
    <2>7. QED
      BY <2>1, <2>2, <2>3, <2>4, <2>5, <2>6 DEF AttemptStep
  <1>5. QED
    BY <1>4, AttemptState

-----------------------------------------------------------------------------
(* The state stays sound: passes *)

\* A step of one container.
PassMoved(k) ==
    /\ pass' \in [Containers -> Passes \cup {Idle}]
    /\ \A j \in Containers \ {k} : pass'[j] = pass[j] /\ task'[j] = task[j]
    /\ pass'[k] # Idle => PassSound(pass'[k])
    /\ task' \in [Containers -> [Clients -> Tasks \cup {NoTask}]]
    /\ \A c \in Clients :
          IF pass'[k] # Idle /\ pass'[k].pc = "serve" /\ c \in pass'[k].batch
          THEN task'[k][c] \in Tasks /\ task'[k][c].item.attempts < MaxAttempts
          ELSE task'[k][c] = NoTask

LEMMA PassState ==
    ASSUME StateInv, NEW k \in Containers, PassMoved(k),
           UNCHANGED <<clock, log, notice, config, shown, unconfirmed, tried, steady>>,
           misreported' \in [Keys -> Nat], dealt' \subseteq Clients,
           ledger' \in Ledgers, LedgerSound(ledger'),
           memory' \in [Containers -> [settled : BOOLEAN, next : Nat]],
           {lost', passes', faults'} \subseteq Nat
    PROVE  StateInv'
  <1>1. TypeOK'
    <2>1. TypeOK
      BY DEF StateInv
    <2>2. Cardinality(Open(ledger'.work)) <= MaxWork
      BY DEF LedgerSound
    <2>3. QED
      BY <2>1, <2>2 DEF TypeOK, PassMoved
  <1>2. \A j \in Containers : (pass[j] # Idle => PassSound(pass[j]))'
    <2>1. SUFFICES ASSUME NEW j \in Containers, pass'[j] # Idle PROVE PassSound(pass[j])'
      OBVIOUS
    <2>2. clock' = clock
      OBVIOUS
    <2>3. PassSound(pass'[j])
      BY <2>1 DEF StateInv, PassMoved
    <2>4. QED
      BY <2>2, <2>3 DEF PassSound
  <1>3. TasksSound'
    <2>1. SUFFICES ASSUME NEW j \in Containers, NEW c \in Clients
                   PROVE  IF pass'[j] # Idle /\ pass'[j].pc = "serve" /\ c \in pass'[j].batch
                          THEN task'[j][c] \in Tasks /\ task'[j][c].item.attempts < MaxAttempts
                          ELSE task'[j][c] = NoTask
      BY DEF TasksSound, At
    <2>2. CASE j = k
      BY <2>2 DEF PassMoved
    <2>3. CASE j # k
      BY <2>3 DEF PassMoved, StateInv, TasksSound, At
    <2>4. QED
      BY <2>2, <2>3
  <1>4. LedgerSound(ledger)'
    OBVIOUS
  <1>5. QED
    BY <1>1, <1>2, <1>3, <1>4 DEF StateInv

LEMMA NoTasks ==
    ASSUME StateInv, NEW k \in Containers, ~At(k, "serve")
    PROVE  \A c \in Clients : task[k][c] = NoTask
  BY DEF StateInv, TasksSound

\* A pass that is over, or moves on without a chunk.
LEMMA PassMoves ==
    ASSUME StateInv, NEW k \in Containers, ~At(k, "serve"), UNCHANGED task,
           NEW p, pass' = [pass EXCEPT ![k] = p],
           p = Idle \/ (p \in Passes /\ PassSound(p) /\ p.pc # "serve")
    PROVE  PassMoved(k) /\ pass'[k] = p
  <1>1. /\ pass \in [Containers -> Passes \cup {Idle}]
        /\ task \in [Containers -> [Clients -> Tasks \cup {NoTask}]]
    BY DEF StateInv, TypeOK
  <1>2. pass' \in [Containers -> Passes \cup {Idle}] /\ pass'[k] = p /\ \A j \in Containers \ {k} : pass'[j] = pass[j]
    BY <1>1
  <1>3. QED
    BY <1>1, <1>2, NoTasks DEF PassMoved

LEMMA StateTypes ==
    ASSUME StateInv
    PROVE  /\ clock \in Nat /\ ledger \in Ledgers /\ LedgerSound(ledger)
           /\ config \in [Clients -> Configs]
           /\ memory \in [Containers -> [settled : BOOLEAN, next : Nat]]
           /\ pass \in [Containers -> Passes \cup {Idle}]
           /\ task \in [Containers -> [Clients -> Tasks \cup {NoTask}]]
           /\ misreported \in [Keys -> Nat] /\ dealt \subseteq Clients
           /\ lost \in Nat /\ passes \in Nat /\ faults \in Nat
  BY DEF StateInv, TypeOK

LEMMA StartState ==
    ASSUME StateInv, NEW k \in Containers, StartPass(k)
    PROVE  StateInv'
  <1> DEFINE p == [busy |-> TRUE, pc |-> "read", now |-> clock, ledger |-> NoLedger,
                   queue |-> NoLedger.work, fresh |-> {}, batch |-> {}]
  <1>1. /\ pass[k] = Idle /\ pass' = [pass EXCEPT ![k] = p] /\ passes' = passes + 1
        /\ UNCHANGED <<clock, log, notice, config, shown, unconfirmed, tried, steady>>
        /\ UNCHANGED <<ledger, memory, task, misreported, dealt, lost, faults>>
    BY DEF StartPass, pushVars
  <1>2. NoLedger \in Ledgers /\ LedgerSound(NoLedger) /\ NoLedger.work \in Works
    BY NoLedgerSound DEF LedgerSound
  <1>3. p \in Passes
    BY <1>2, StateTypes DEF Passes, Works
  <1>4. p.pc = "read" /\ p.ledger = NoLedger /\ p.batch = {} /\ p.now = clock
    OBVIOUS
  <1> HIDE DEF p
  <1>5. clock \in Nat /\ LambdaLimit \in Nat
    BY StateTypes, NoticeAssumption
  <1>6. clock <= clock + LambdaLimit /\ clock <= clock
    BY <1>5
  <1>7. PassSound(p)
    BY <1>2, <1>4, <1>6 DEF PassSound
  <1>8. ~At(k, "serve")
    BY <1>1 DEF At
  <1>9. PassMoved(k)
    BY <1>1, <1>3, <1>4, <1>7, <1>8, PassMoves
  <1>10. passes' \in Nat
    BY <1>1, StateTypes
  <1>11. QED
    BY <1>1, <1>9, <1>10, StateTypes, PassState

\* A pass ends, whatever it leaves behind.
LEMMA EndState ==
    ASSUME StateInv, NEW k \in Containers, ~At(k, "serve"), UNCHANGED task, End(k),
           UNCHANGED <<clock, log, notice, config, shown, unconfirmed, misreported, tried, steady, dealt, passes>>,
           ledger' \in Ledgers, LedgerSound(ledger'),
           memory' \in [Containers -> [settled : BOOLEAN, next : Nat]],
           lost' \in Nat, faults' \in Nat
    PROVE  StateInv' /\ PassMoved(k) /\ pass'[k] = Idle
  <1>1. PassMoved(k) /\ pass'[k] = Idle
    BY PassMoves DEF End
  <1>2. misreported' \in [Keys -> Nat] /\ dealt' \subseteq Clients /\ {lost', passes', faults'} \subseteq Nat
    BY StateTypes
  <1>3. QED
    BY <1>1, <1>2, PassState

LEMMA ReadState ==
    ASSUME StateInv, NEW k \in Containers, ReadLedger(k)
    PROVE  StateInv'
  <1>1. /\ At(k, "read")
        /\ UNCHANGED <<clock, log, notice, config, shown, unconfirmed, tried, steady>>
        /\ UNCHANGED <<ledger, task, misreported, dealt, lost, passes, faults>>
    BY DEF ReadLedger, pushVars, boundVars
  <1>2. pass[k] \in Passes /\ pass[k].pc = "read" /\ PassSound(pass[k]) /\ ~At(k, "serve")
    BY <1>1, AtFacts DEF At
  <1>3. CASE ledger.settled \/ Waiting(ledger, pass[k].now)
    <2>1. End(k) /\ memory' = IF ledger.settled THEN [memory EXCEPT ![k].settled = TRUE]
                         ELSE IF ledger.lease > pass[k].now THEN memory
                         ELSE [memory EXCEPT ![k].next = Earliest(ledger.work)]
      BY <1>3 DEF ReadLedger
    <2>2. memory' \in [Containers -> [settled : BOOLEAN, next : Nat]]
      <3>1. CASE ledger.settled
        BY <2>1, <3>1, StateTypes
      <3>2. CASE ~ledger.settled /\ ledger.lease > pass[k].now
        BY <2>1, <3>2, StateTypes
      <3>3. CASE ~ledger.settled /\ ~(ledger.lease > pass[k].now)
        <4>1. Open(ledger.work) # {} /\ ledger.work \in Works
          BY <1>3, <3>3, StateTypes, LedgerFacts DEF Waiting
        <4>2. Earliest(ledger.work) \in Nat
          BY <4>1, EarliestType
        <4>3. QED
          BY <2>1, <3>3, <4>2, StateTypes
      <3>4. QED
        BY <3>1, <3>2, <3>3
    <2>3. QED
      BY <1>1, <1>2, <2>1, <2>2, StateTypes, EndState
  <1>4. CASE ~(ledger.settled \/ Waiting(ledger, pass[k].now))
    <2> DEFINE p == [pass[k] EXCEPT !.pc = "lease", !.ledger = ledger]
    <2>1. pass' = [pass EXCEPT ![k] = p] /\ UNCHANGED memory
      BY <1>4, StateTypes DEF ReadLedger
    <2>2. /\ p \in Passes /\ p.pc = "lease" /\ p.ledger = ledger
          /\ p.now = pass[k].now /\ p.batch = pass[k].batch
      BY <1>2, StateTypes DEF Passes
    <2> HIDE DEF p
    <2>3. PassSound(p)
      BY <1>2, <1>4, <2>2, StateTypes DEF PassSound
    <2>4. PassMoved(k)
      BY <1>1, <1>2, <2>1, <2>2, <2>3, PassMoves
    <2>5. QED
      BY <1>1, <2>1, <2>4, StateTypes, PassState
  <1>5. QED
    BY <1>3, <1>4

LEMMA LeaseMoves ==
    ASSUME StateInv, NEW k \in Containers, At(k, "lease"),
           NEW p, p = [pass[k] EXCEPT !.pc = "resolve", !.ledger = Leased(pass[k])]
    PROVE  /\ p \in Passes /\ PassSound(p) /\ p.pc = "resolve" /\ p.ledger = Leased(pass[k])
           /\ p.ledger \in Ledgers /\ LedgerSound(p.ledger)
  <1>1. pass[k] \in Passes /\ pass[k].pc = "lease" /\ PassSound(pass[k]) /\ LedgerSound(pass[k].ledger)
    BY AtFacts
  <1> DEFINE l == Leased(pass[k])
  <1>2. LedgerSound(l) /\ l.settled = pass[k].ledger.settled
    BY <1>1, LeasedFacts
  <1> HIDE DEF l
  <1>3. l \in Ledgers
    BY <1>2 DEF LedgerSound
  <1>4. /\ p \in Passes /\ p.pc = "resolve" /\ p.ledger = l
        /\ p.now = pass[k].now /\ p.batch = pass[k].batch
    BY <1>1, <1>3 DEF Passes, l
  <1>5. PassSound(p)
    BY <1>1, <1>2, <1>4 DEF PassSound
  <1>6. QED
    BY <1>2, <1>3, <1>4, <1>5 DEF l

LEMMA TakeLeaseState ==
    ASSUME StateInv, NEW k \in Containers, TakeLease(k)
    PROVE  StateInv'
  <1>1. /\ At(k, "lease") /\ ~At(k, "serve")
        /\ UNCHANGED <<clock, log, notice, config, shown, unconfirmed, misreported, tried, steady, dealt, passes>>
        /\ UNCHANGED <<memory, task, lost, faults>>
    BY DEF TakeLease, pushVars, boundVars, At
  <1> DEFINE p == [pass[k] EXCEPT !.pc = "resolve", !.ledger = Leased(pass[k])]
  <1>2. CASE Swaps(pass[k].ledger.version)
    <2>1. /\ p \in Passes /\ PassSound(p) /\ p.pc = "resolve" /\ p.ledger = Leased(pass[k])
          /\ p.ledger \in Ledgers /\ LedgerSound(p.ledger)
      BY <1>1, LeaseMoves
    <2>2. pass' = [pass EXCEPT ![k] = p] /\ ledger' = p.ledger
      BY <1>2, <2>1, StateTypes DEF TakeLease
    <2> HIDE DEF p
    <2>3. PassMoved(k)
      BY <1>1, <2>1, <2>2, PassMoves
    <2>4. QED
      BY <1>1, <2>1, <2>2, <2>3, StateTypes, PassState
  <1>3. CASE ~Swaps(pass[k].ledger.version)
    <2>1. UNCHANGED ledger /\ End(k)
      BY <1>3 DEF TakeLease
    <2>2. QED
      BY <1>1, <2>1, StateTypes, EndState
  <1>4. QED
    BY <1>2, <1>3

LEMMA LeaseFailsState ==
    ASSUME StateInv, NEW k \in Containers, LeaseFails(k)
    PROVE  StateInv'
  <1>1. /\ At(k, "lease") /\ ~At(k, "serve") /\ Fault /\ End(k)
        /\ UNCHANGED <<clock, log, notice, config, shown, unconfirmed, misreported, tried, steady, dealt, passes>>
        /\ UNCHANGED <<memory, task, lost>>
        /\ ledger' = ledger \/ ledger' = Leased(pass[k])
    BY DEF LeaseFails, pushVars, At
  <1> DEFINE p == [pass[k] EXCEPT !.pc = "resolve", !.ledger = Leased(pass[k])]
  <1>2. p.ledger = Leased(pass[k]) /\ p.ledger \in Ledgers /\ LedgerSound(p.ledger)
    BY <1>1, LeaseMoves
  <1> HIDE DEF p
  <1>3. ledger' \in Ledgers /\ LedgerSound(ledger') /\ faults' \in Nat
    BY <1>1, <1>2, StateTypes, FaultType
  <1>4. QED
    BY <1>1, <1>3, StateTypes, EndState

\* What a pass finds and what is due make a sound queue.
LEMMA ResolveMoves ==
    ASSUME StateInv, NEW k \in Containers, Resolve(k)
    PROVE  LET q == pass'[k]
           IN  /\ pass' = [pass EXCEPT ![k] = q]
               /\ q \in Passes /\ PassSound(q) /\ q.pc = "chunk" /\ q.ledger = pass[k].ledger
               /\ q.fresh = Found(pass[k].ledger)
               /\ \A c \in q.fresh : c \in Open(q.queue)
               /\ q.batch = {}
  <1> DEFINE p == pass[k]
             l == p.ledger
             found == Found(l)
             due == {c \in Open(l.work) : l.work[c].next <= p.now}
             queue == [c \in Clients |-> IF c \in found THEN FirstItem(c, p.now)
                                         ELSE IF c \in due THEN l.work[c] ELSE NoItem]
             q == [p EXCEPT !.pc = "chunk", !.fresh = found, !.queue = queue]
  <1>1. At(k, "resolve") /\ pass' = [pass EXCEPT ![k] = q]
    BY StateTypes DEF Resolve
  <1>2. p \in Passes /\ p.pc = "resolve" /\ PassSound(p) /\ LedgerSound(l) /\ p.now \in Nat /\ l.work \in Works
    BY <1>1, AtFacts, PassFacts, LedgerFacts
  <1>3. ASSUME NEW c \in found
        PROVE  FirstItem(c, p.now) \in Items /\ FirstItem(c, p.now).attempts = 0
    <2>1. c \in Clients /\ Recipient(config[c]) /\ config[c] \in Configs
      BY StateTypes DEF Found
    <2>2. config[c].reminders \in SUBSET Streams /\ Cardinality(config[c].reminders) >= 2
      BY <2>1 DEF Recipient, Configs
    <2>3. config[c].reminders \in NoticeIds
      BY <2>2, NoticeIdFacts
    <2>4. QED
      BY <1>2, <2>3 DEF FirstItem, Items
  <1>4. \A c \in found : c \in Clients /\ ~l.resolved /\ c > l.cursor /\ l.work[c] = NoItem
    BY DEF Found
  <1>5. \A c \in due : c \in Clients /\ l.work[c] \in Items
    BY <1>2, OpenFacts DEF Open
  <1> HIDE DEF found, due
  <1>6. queue \in Works
    BY <1>3, <1>5 DEF Works
  <1>7. \A c \in Clients : queue[c] = IF c \in found THEN FirstItem(c, p.now) ELSE IF c \in due THEN l.work[c] ELSE NoItem
    OBVIOUS
  <1> HIDE DEF queue
  <1>8. found \subseteq Clients
    BY <1>4
  <1>9. /\ q \in Passes /\ q.pc = "chunk" /\ q.fresh = found /\ q.queue = queue
        /\ q.ledger = l /\ q.now = p.now /\ q.batch = p.batch
    BY <1>2, <1>6, <1>8 DEF Passes, Works
  <1>10. p.batch = {}
    BY <1>2 DEF PassSound
  <1> HIDE DEF q
  <1>11. QueueSound(q)
    <2>1. \A c \in Open(q.queue) : c \in Clients /\ (c \in found \/ c \in due)
      BY <1>7, <1>9 DEF Open
    <2>2. \A c \in Open(q.queue) :
          IF c \in q.fresh
          THEN q.queue[c].attempts = 0 /\ q.ledger.work[c] = NoItem /\ c > q.ledger.cursor
          ELSE q.queue[c] = q.ledger.work[c]
      BY <1>3, <1>4, <1>7, <1>9, <2>1
    <2>3. QED
      BY <1>4, <1>9, <1>10, <2>2 DEF QueueSound
  <1>12. PassSound(q)
    BY <1>2, <1>9, <1>10, <1>11 DEF PassSound
  <1>13. \A c \in q.fresh : c \in Open(q.queue)
    BY <1>3, <1>4, <1>7, <1>9, ItemFacts DEF Open
  <1>14. pass'[k] = q
    BY <1>1, StateTypes
  <1>15. QED
    BY <1>1, <1>9, <1>10, <1>12, <1>13, <1>14 DEF found

LEMMA ResolveState ==
    ASSUME StateInv, NEW k \in Containers, Resolve(k)
    PROVE  StateInv' /\ PassMoved(k)
  <1>1. /\ At(k, "resolve") /\ ~At(k, "serve")
        /\ UNCHANGED <<clock, log, notice, config, shown, unconfirmed, tried, steady>>
        /\ UNCHANGED <<ledger, memory, task, misreported, dealt, lost, passes, faults>>
    BY DEF Resolve, pushVars, boundVars, At
  <1> DEFINE q == pass'[k]
  <1>2. pass' = [pass EXCEPT ![k] = q] /\ q \in Passes /\ PassSound(q) /\ q.pc = "chunk"
    BY ResolveMoves
  <1> HIDE DEF q
  <1>3. PassMoved(k)
    BY <1>1, <1>2, PassMoves
  <1>4. QED
    BY <1>1, <1>3, StateTypes, PassState

LEMMA ResolveFailsState ==
    ASSUME StateInv, NEW k \in Containers, ResolveFails(k)
    PROVE  StateInv'
  <1>1. /\ At(k, "resolve") /\ ~At(k, "serve") /\ Fault /\ End(k)
        /\ UNCHANGED <<clock, log, notice, config, shown, unconfirmed, misreported, tried, steady, dealt, passes>>
        /\ UNCHANGED <<ledger, memory, task, lost>>
    BY DEF ResolveFails, pushVars, At
  <1>2. faults' \in Nat
    BY <1>1, FaultType
  <1>3. QED
    BY <1>1, <1>2, StateTypes, EndState

\* A chunk starts with the front of the queue.
LEMMA ChunkMoves ==
    ASSUME StateInv, NEW k \in Containers, StartChunk(k)
    PROVE  LET q == pass'[k]
           IN  /\ q \in Passes /\ PassSound(q) /\ q.pc = "serve" /\ q.ledger = pass[k].ledger
               /\ q.fresh = pass[k].fresh /\ q.queue = pass[k].queue
               /\ PassMoved(k)
               /\ \A c \in q.batch : task'[k][c].pc = "look" /\ task'[k][c].item = pass[k].queue[c]
  <1> DEFINE p == pass[k]
             batch == FirstOf(Open(p.queue), ChunkSize)
             q == [p EXCEPT !.pc = "serve", !.batch = batch]
             f == [c \in Clients |-> IF c \in batch THEN [pc |-> "look", item |-> p.queue[c], kind |-> ""] ELSE NoTask]
  <1>1. At(k, "chunk") /\ pass' = [pass EXCEPT ![k] = q] /\ task' = [task EXCEPT ![k] = f]
    BY StateTypes DEF StartChunk
  <1>2. /\ p \in Passes /\ p.pc = "chunk" /\ PassSound(p) /\ LedgerSound(p.ledger) /\ QueueSound(p)
        /\ p.queue \in Works
    BY <1>1, AtFacts, PassFacts DEF PassSound
  <1>3. Open(p.queue) \in SUBSET Clients
    BY DEF Open
  <1>4. batch \subseteq Open(p.queue) /\ \A c \in batch, d \in Open(p.queue) \ batch : c < d
    BY <1>3, FirstOfFront
  <1> HIDE DEF batch
  <1>5. /\ q \in Passes /\ q.pc = "serve" /\ q.batch = batch
        /\ q.ledger = p.ledger /\ q.fresh = p.fresh /\ q.queue = p.queue /\ q.now = p.now
    BY <1>2, <1>3, <1>4 DEF Passes
  <1> HIDE DEF q
  <1>6. QueueSound(q)
    BY <1>2, <1>4, <1>5, Zenon DEF QueueSound
  <1>7. PassSound(q)
    BY <1>2, <1>5, <1>6 DEF PassSound
  <1>8. ASSUME NEW c \in batch
        PROVE  /\ p.queue[c] \in Items /\ p.queue[c].attempts \in Nat /\ p.queue[c].attempts < MaxAttempts
    <2>1. c \in Open(p.queue) /\ c \in Clients
      BY <1>3, <1>4
    <2>2. p.queue[c] \in Items /\ p.queue[c].attempts \in Nat
      BY <1>2, <2>1, OpenFacts, ItemFacts
    <2>3. CASE c \in p.fresh
      BY <1>2, <2>1, <2>2, <2>3, NoticeAssumption DEF QueueSound
    <2>4. CASE c \notin p.fresh
      <3>1. p.queue[c] = p.ledger.work[c]
        BY <1>2, <2>1, <2>4 DEF QueueSound
      <3>2. c \in Open(p.ledger.work)
        BY <2>1, <3>1 DEF Open
      <3>3. QED
        BY <1>2, <2>2, <3>1, <3>2 DEF LedgerSound
    <2>5. QED
      BY <2>3, <2>4
  <1>9. \A c \in Clients : f[c] = IF c \in batch THEN [pc |-> "look", item |-> p.queue[c], kind |-> ""] ELSE NoTask
    OBVIOUS
  <1>10. \A c \in batch : [pc |-> "look", item |-> p.queue[c], kind |-> ""] \in Tasks
    BY <1>8 DEF Tasks
  <1>11. f \in [Clients -> Tasks \cup {NoTask}]
    BY <1>10
  <1>12. DOMAIN f = Clients
    OBVIOUS
  <1> HIDE DEF f
  <1>13. \A c \in Clients :
            /\ c \in batch => /\ f[c] \in Tasks /\ f[c].item.attempts < MaxAttempts
                              /\ f[c].pc = "look" /\ f[c].item = p.queue[c]
            /\ c \notin batch => f[c] = NoTask
    <2>1. ASSUME NEW c \in Clients, c \in batch
          PROVE  /\ f[c] \in Tasks /\ f[c].item.attempts < MaxAttempts
                 /\ f[c].pc = "look" /\ f[c].item = p.queue[c]
      <3> DEFINE t == [pc |-> "look", item |-> p.queue[c], kind |-> ""]
      <3>1. f[c] = t
        BY <1>9, <2>1
      <3>2. t \in Tasks
        BY <1>10, <2>1
      <3>3. t.pc = "look" /\ t.item = p.queue[c]
        OBVIOUS
      <3> HIDE DEF t
      <3>4. QED
        BY <1>8, <2>1, <3>1, <3>2, <3>3
    <2>2. QED
      BY <1>9, <2>1
  <1>14. pass'[k] = q /\ task'[k] = f
    BY <1>1, StateTypes
  <1>15. /\ pass' \in [Containers -> Passes \cup {Idle}]
         /\ task' \in [Containers -> [Clients -> Tasks \cup {NoTask}]]
         /\ \A j \in Containers \ {k} : pass'[j] = pass[j] /\ task'[j] = task[j]
    BY <1>1, <1>5, <1>11, StateTypes
  <1>16. PassMoved(k)
    <2>1. \A c \in Clients :
             IF q # Idle /\ q.pc = "serve" /\ c \in q.batch
             THEN f[c] \in Tasks /\ f[c].item.attempts < MaxAttempts
             ELSE f[c] = NoTask
      BY <1>5, <1>13, PassFacts
    <2>2. QED
      BY <1>7, <1>14, <1>15, <2>1, Zenon DEF PassMoved
  <1>17. QED
    BY <1>3, <1>4, <1>5, <1>7, <1>13, <1>14, <1>16

LEMMA ChunkState ==
    ASSUME StateInv, NEW k \in Containers, StartChunk(k)
    PROVE  StateInv'
  <1>1. /\ UNCHANGED <<clock, log, notice, config, shown, unconfirmed, tried, steady>>
        /\ UNCHANGED <<ledger, memory, misreported, dealt, lost, passes, faults>>
    BY DEF StartChunk, pushVars, boundVars
  <1>2. PassMoved(k)
    BY ChunkMoves
  <1>3. QED
    BY <1>1, <1>2, StateTypes, PassState

LEMMA ServingIsSound ==
    ASSUME StateInv, NEW k \in Containers, At(k, "serve")
    PROVE  ChunkSound(k)
  <1>1. pass[k] \in Passes /\ pass[k].pc = "serve" /\ PassSound(pass[k])
    BY AtFacts
  <1>2. pass[k].batch \subseteq Clients
    BY <1>1, PassFacts
  <1>3. \A c \in pass[k].batch : task[k][c] \in Tasks /\ task[k][c].item.attempts < MaxAttempts
    BY <1>2 DEF StateInv, TasksSound
  <1>4. QED
    BY <1>1, <1>3 DEF ChunkSound, PassSound

\* The chunk is collected: what is left of the queue is behind the cursor.
LEMMA CollectMoves ==
    ASSUME StateInv, NEW k \in Containers, CollectChunk(k)
    PROVE  LET q == pass'[k]
               p == pass[k]
           IN  /\ At(k, "serve") /\ ChunkSound(k)
               /\ \A c \in p.batch : task[k][c].pc = "done"
               /\ q \in Passes /\ PassSound(q) /\ q.pc = "chunk" /\ q.ledger = Collected(k)
               /\ q.fresh = p.fresh /\ q.batch = {}
               /\ \A c \in Clients : q.queue[c] = IF c \in p.batch THEN NoItem ELSE p.queue[c]
               /\ Open(q.queue) = Open(p.queue) \ p.batch
               /\ PassMoved(k)
               /\ dealt' = dealt \cup {c \in p.batch : Collected(k).work[c] = NoItem}
  <1> DEFINE p == pass[k]
             e == Collected(k)
             queue == [c \in Clients |-> IF c \in p.batch THEN NoItem ELSE p.queue[c]]
             q == [p EXCEPT !.pc = "chunk", !.batch = {}, !.ledger = e, !.queue = queue]
             f == [c \in Clients |-> NoTask]
  <1>1. /\ At(k, "serve") /\ \A c \in p.batch : task[k][c].pc = "done"
        /\ task' = [task EXCEPT ![k] = f]
        /\ dealt' = dealt \cup {c \in p.batch : e.work[c] = NoItem}
    BY DEF CollectChunk
  <1>2. pass' = [pass EXCEPT ![k] = q]
    BY StateTypes DEF CollectChunk
  <1>3. /\ p \in Passes /\ PassSound(p) /\ p.pc = "serve" /\ QueueSound(p) /\ p.queue \in Works
        /\ p.batch \subseteq Clients /\ ChunkSound(k)
    BY <1>1, AtFacts, PassFacts, ServingIsSound DEF PassSound
  <1>4. /\ LedgerSound(e)
        /\ ~e.settled /\ e.resolved = p.ledger.resolved
        /\ e.cursor \in {p.ledger.cursor} \cup p.batch
        /\ \A c \in Clients \ p.batch : e.work[c] = p.ledger.work[c]
    BY <1>3, CollectedFacts
  <1>5. e \in Ledgers
    BY <1>4 DEF LedgerSound
  <1> HIDE DEF e
  <1>6. \A c \in Clients : queue[c] = IF c \in p.batch THEN NoItem ELSE p.queue[c]
    OBVIOUS
  <1>7. queue \in Works
    BY <1>3 DEF Works
  <1> HIDE DEF queue
  <1>8. /\ q \in Passes /\ q.pc = "chunk" /\ q.batch = {} /\ q.ledger = e /\ q.queue = queue
        /\ q.fresh = p.fresh /\ q.now = p.now
    BY <1>3, <1>5, <1>7 DEF Passes, Works
  <1> HIDE DEF q
  <1>9. Open(q.queue) = Open(p.queue) \ p.batch
    BY <1>6, <1>8 DEF Open
  <1>10. QueueSound(q)
    <2>1. ASSUME NEW c \in Open(q.queue)
          PROVE  IF c \in q.fresh
                 THEN q.queue[c].attempts = 0 /\ q.ledger.work[c] = NoItem /\ c > q.ledger.cursor
                 ELSE q.queue[c] = q.ledger.work[c]
      <3>1. c \in Open(p.queue) /\ c \notin p.batch /\ c \in Clients
        BY <1>9, <2>1 DEF Open
      <3>2. q.queue[c] = p.queue[c] /\ e.work[c] = p.ledger.work[c]
        BY <1>4, <1>6, <1>8, <3>1
      <3>3. IF c \in p.fresh
            THEN p.queue[c].attempts = 0 /\ p.ledger.work[c] = NoItem /\ c > p.ledger.cursor
            ELSE p.queue[c] = p.ledger.work[c]
        BY <1>3, <3>1, Zenon DEF QueueSound
      <3>4. \A b \in p.batch : c > b
        <4>1. \A b \in p.batch : b < c
          BY <1>3, <3>1, Zenon DEF QueueSound
        <4>2. QED
          BY <4>1
      <3>5. c \in p.fresh => c > e.cursor
        BY <1>4, <3>3, <3>4
      <3>6. QED
        BY <1>8, <3>2, <3>3, <3>5
    <2>2. q.fresh # {} => ~q.ledger.resolved
      BY <1>3, <1>4, <1>8 DEF QueueSound
    <2>3. QED
      BY <1>8, <2>1, <2>2 DEF QueueSound
  <1>11. PassSound(q)
    BY <1>3, <1>4, <1>8, <1>10 DEF PassSound
  <1>12. f \in [Clients -> Tasks \cup {NoTask}] /\ \A c \in Clients : f[c] = NoTask
    OBVIOUS
  <1> HIDE DEF f
  <1>13. pass'[k] = q /\ task'[k] = f
    BY <1>1, <1>2, StateTypes
  <1>14. /\ pass' \in [Containers -> Passes \cup {Idle}]
         /\ task' \in [Containers -> [Clients -> Tasks \cup {NoTask}]]
         /\ \A j \in Containers \ {k} : pass'[j] = pass[j] /\ task'[j] = task[j]
    BY <1>1, <1>2, <1>8, <1>12, StateTypes
  <1>15. PassMoved(k)
    BY <1>8, <1>11, <1>12, <1>13, <1>14 DEF PassMoved
  <1>16. QED
    BY <1>1, <1>3, <1>6, <1>8, <1>9, <1>11, <1>13, <1>15 DEF e

LEMMA CollectState ==
    ASSUME StateInv, NEW k \in Containers, CollectChunk(k)
    PROVE  StateInv'
  <1>1. /\ UNCHANGED <<clock, log, notice, config, shown, unconfirmed, tried, steady>>
        /\ UNCHANGED <<ledger, memory, misreported, lost, passes, faults>>
    BY DEF CollectChunk, pushVars, boundVars
  <1>2. PassMoved(k) /\ dealt' = dealt \cup {c \in pass[k].batch : Collected(k).work[c] = NoItem} /\ pass[k].batch \subseteq Clients
    BY CollectMoves, PassFacts DEF ChunkSound
  <1>3. dealt' \subseteq Clients
    BY <1>2, StateTypes
  <1>4. QED
    BY <1>1, <1>2, <1>3, StateTypes, PassState

\* The end of a pass that is through.
LEMMA ThroughMoves ==
    ASSUME StateInv, NEW k \in Containers, Through(k)
    PROVE  /\ At(k, "chunk") /\ ~At(k, "serve")
           /\ pass[k] \in Passes /\ PassSound(pass[k]) /\ LedgerSound(pass[k].ledger)
           /\ FinalLedger(pass[k]) \in Ledgers /\ LedgerSound(FinalLedger(pass[k]))
  <1>1. At(k, "chunk")
    BY DEF Through
  <1>2. pass[k] \in Passes /\ PassSound(pass[k]) /\ LedgerSound(pass[k].ledger)
    BY <1>1, AtFacts
  <1>3. LedgerSound(FinalLedger(pass[k]))
    BY <1>2, FinalFacts
  <1>4. QED
    BY <1>1, <1>2, <1>3 DEF LedgerSound, At

LEMMA WriteState ==
    ASSUME StateInv, NEW k \in Containers, WriteProgress(k)
    PROVE  StateInv'
  <1> DEFINE final == FinalLedger(pass[k])
  <1>1. /\ Through(k) /\ End(k)
        /\ UNCHANGED <<clock, log, notice, config, shown, unconfirmed, misreported, tried, steady, dealt, passes>>
        /\ UNCHANGED <<task, faults>>
    BY DEF WriteProgress, pushVars, boundVars
  <1>2. /\ ~At(k, "serve") /\ pass[k] \in Passes /\ LedgerSound(pass[k].ledger)
        /\ final \in Ledgers /\ LedgerSound(final)
    BY <1>1, ThroughMoves
  <1>3. final.settled = (final.resolved /\ Open(final.work) = {})
    BY <1>2, FinalFacts
  <1> HIDE DEF final
  <1>4. CASE Swaps(pass[k].ledger.version)
    <2>1. /\ ledger' = final /\ UNCHANGED lost
          /\ memory' = IF final.settled THEN [memory EXCEPT ![k] = [settled |-> TRUE, next |-> 0]]
                             ELSE IF final.resolved THEN [memory EXCEPT ![k].next = Earliest(final.work)]
                             ELSE memory
      BY <1>4 DEF WriteProgress, final
    <2>2. memory' \in [Containers -> [settled : BOOLEAN, next : Nat]]
      <3>1. CASE final.settled
        BY <2>1, <3>1, StateTypes
      <3>2. CASE ~final.settled /\ final.resolved
        <4>1. Open(final.work) # {} /\ final.work \in Works
          BY <1>2, <1>3, <3>2, LedgerFacts
        <4>2. Earliest(final.work) \in Nat
          BY <4>1, EarliestType
        <4>3. QED
          BY <2>1, <3>2, <4>2, StateTypes
      <3>3. CASE ~final.settled /\ ~final.resolved
        BY <2>1, <3>3, StateTypes
      <3>4. QED
        BY <3>1, <3>2, <3>3
    <2>3. QED
      BY <1>1, <1>2, <2>1, <2>2, StateTypes, EndState
  <1>5. CASE ~Swaps(pass[k].ledger.version)
    <2>1. lost' = lost + 1 /\ UNCHANGED <<ledger, memory>>
      BY <1>5 DEF WriteProgress
    <2>2. lost' \in Nat
      BY <2>1, StateTypes
    <2>3. QED
      BY <1>1, <1>2, <2>1, <2>2, StateTypes, EndState
  <1>6. QED
    BY <1>4, <1>5

LEMMA ProgressFailsState ==
    ASSUME StateInv, NEW k \in Containers, ProgressFails(k)
    PROVE  StateInv'
  <1>1. /\ Through(k) /\ End(k) /\ Fault
        /\ UNCHANGED <<clock, log, notice, config, shown, unconfirmed, misreported, tried, steady, dealt, passes>>
        /\ UNCHANGED <<task, memory>>
        /\ \/ ledger' = ledger /\ lost' = lost + 1
           \/ ledger' = FinalLedger(pass[k]) /\ lost' = lost
    BY DEF ProgressFails, pushVars
  <1>2. ~At(k, "serve") /\ FinalLedger(pass[k]) \in Ledgers /\ LedgerSound(FinalLedger(pass[k]))
    BY <1>1, ThroughMoves
  <1>3. ledger' \in Ledgers /\ LedgerSound(ledger') /\ lost' \in Nat
    BY <1>1, <1>2, StateTypes
  <1>4. faults' \in Nat
    BY <1>1, FaultType
  <1>5. QED
    BY <1>1, <1>2, <1>3, <1>4, StateTypes, EndState

LEMMA CrashMoves ==
    ASSUME StateInv, NEW k \in Containers, Crash(k)
    PROVE  PassMoved(k) /\ pass'[k] = Idle
  <1> DEFINE f == [c \in Clients |-> NoTask]
  <1>1. task' = [task EXCEPT ![k] = f] /\ pass' = [pass EXCEPT ![k] = Idle]
    BY DEF Crash, End
  <1>2. f \in [Clients -> Tasks \cup {NoTask}] /\ \A c \in Clients : f[c] = NoTask
    OBVIOUS
  <1> HIDE DEF f
  <1>3. pass'[k] = Idle /\ task'[k] = f
    BY <1>1, StateTypes
  <1>4. /\ pass' \in [Containers -> Passes \cup {Idle}]
        /\ task' \in [Containers -> [Clients -> Tasks \cup {NoTask}]]
        /\ \A j \in Containers \ {k} : pass'[j] = pass[j] /\ task'[j] = task[j]
    BY <1>1, <1>2, StateTypes
  <1>5. QED
    BY <1>2, <1>3, <1>4 DEF PassMoved

LEMMA CrashState ==
    ASSUME StateInv, NEW k \in Containers, Crash(k)
    PROVE  StateInv'
  <1>1. /\ Fault \/ UNCHANGED faults
        /\ misreported' = [key \in Keys |-> misreported[key] +
               Cardinality({c \in Clients : Attempts(k, c, "confirm") /\ KeyOf(k, c) = key})]
        /\ memory' = [memory EXCEPT ![k] = [settled |-> FALSE, next |-> 0]]
        /\ lost' = lost + 1
        /\ UNCHANGED <<clock, log, ledger, notice, config, shown, unconfirmed, tried, dealt, steady, passes>>
    BY DEF Crash
  <1>2. \A key \in Keys : misreported[key] + Cardinality({c \in Clients : Attempts(k, c, "confirm") /\ KeyOf(k, c) = key}) \in Nat
    <2>1. SUFFICES ASSUME NEW key \in Keys
                   PROVE  misreported[key] + Cardinality({c \in Clients : Attempts(k, c, "confirm") /\ KeyOf(k, c) = key}) \in Nat
      OBVIOUS
    <2> DEFINE S == {c \in Clients : Attempts(k, c, "confirm") /\ KeyOf(k, c) = key}
               m == misreported[key]
    <2>2. S \in SUBSET Clients /\ IsFiniteSet(Clients) /\ m \in Nat
      BY StateTypes, NoticeAssumption
    <2> HIDE DEF S, m
    <2>3. Cardinality(S) \in Nat
      BY <2>2, FS_Subset, FS_CardinalityType
    <2>4. m + Cardinality(S) \in Nat
      BY <2>2, <2>3
    <2>5. QED
      BY <2>4 DEF S, m
  <1>3. misreported' \in [Keys -> Nat]
    BY <1>1, <1>2
  <1>4. memory' \in [Containers -> [settled : BOOLEAN, next : Nat]]
    BY <1>1, StateTypes
  <1>5. lost' \in Nat /\ faults' \in Nat
    <2>1. lost' \in Nat
      <3>1. lost \in Nat
        BY StateTypes
      <3>2. lost' = lost + 1
        BY <1>1
      <3>3. QED
        BY <3>1, <3>2
    <2>2. faults' \in Nat
      BY <1>1, FaultType
    <2>3. QED
      BY <2>1, <2>2
  <1>6. PassMoved(k)
    BY CrashMoves
  <1>7. QED
    BY <1>1, <1>3, <1>4, <1>5, <1>6, StateTypes, PassState

-----------------------------------------------------------------------------
(* The state stays sound: everything else *)

LEMMA SameTasks ==
    ASSUME StateInv, UNCHANGED <<pass, task>>
    PROVE  TasksSound'
  BY DEF StateInv, TasksSound, At

LEMMA EnvironmentState ==
    ASSUME StateInv, (\E c \in Clients : EditConfig(c)) \/ Delist \/ Vanish
    PROVE  StateInv'
  <1>1. UNCHANGED <<clock, log, memory, pass, task, shown, unconfirmed, misreported, tried, dealt, lost, passes>>
    BY DEF EditConfig, Delist, Vanish, pushVars, boundVars
  <1>2. Fault \/ UNCHANGED faults
    BY DEF EditConfig, Delist, Vanish, boundVars
  <1>3. faults' \in Nat
    BY <1>2, FaultType
  <1>4. config' \in [Clients -> Configs] /\ steady' \subseteq Clients
    <2>1. config \in [Clients -> Configs] /\ steady \subseteq Clients
      BY DEF StateInv, TypeOK
    <2>2. ASSUME NEW c \in Clients, EditConfig(c) PROVE config' \in [Clients -> Configs] /\ steady' \subseteq Clients
      <3>1. PICK edit \in Edits : edit[1] = c /\ config' = [config EXCEPT ![c] = edit[2]]
        BY <2>2 DEF EditConfig
      <3>2. edit[2] \in Configs
        BY <3>1, NoticeAssumption
      <3>3. QED
        BY <2>1, <2>2, <3>1, <3>2 DEF EditConfig
    <2>3. QED
      BY <2>1, <2>2 DEF Delist, Vanish
  <1>5. ledger' \in Ledgers /\ LedgerSound(ledger')
    <2>1. ledger' = ledger \/ ledger' = NoLedger
      BY DEF EditConfig, Delist, Vanish
    <2>2. LedgerSound(NoLedger) /\ NoLedger \in Ledgers
      BY NoLedgerSound DEF LedgerSound
    <2>3. QED
      BY <2>1, <2>2, StateTypes
  <1>6. notice' \in {"pending", "unlisted", "gone"}
    BY DEF StateInv, TypeOK, EditConfig, Delist, Vanish
  <1>7. TypeOK'
    <2>1. TypeOK
      BY DEF StateInv
    <2>2. QED
      BY <1>1, <1>3, <1>4, <1>5, <1>6, <2>1 DEF TypeOK, LedgerSound
  <1>8. \A j \in Containers : (pass[j] # Idle => PassSound(pass[j]))'
    BY <1>1 DEF StateInv, PassSound
  <1>9. TasksSound'
    BY <1>1, SameTasks
  <1>10. QED
    BY <1>5, <1>7, <1>8, <1>9 DEF StateInv

LEMMA TickState ==
    ASSUME StateInv, Tick
    PROVE  StateInv'
  <1>1. /\ clock' = clock + 1
        /\ \A k \in Containers : pass[k] # Idle => clock < Deadline(k)
        /\ UNCHANGED <<log, ledger, notice, config, memory, pass, task, shown, unconfirmed, misreported, tried,
                       dealt, steady, lost, passes, faults>>
    BY DEF Tick, pushVars, boundVars
  <1>2. clock \in Nat /\ clock' \in Nat
    BY <1>1, StateTypes
  <1>3. TypeOK'
    <2>1. TypeOK
      BY DEF StateInv
    <2>2. QED
      BY <1>1, <1>2, <2>1 DEF TypeOK
  <1>4. ASSUME NEW j \in Containers, pass[j] # Idle PROVE PassSound(pass[j])'
    <2>1. PassSound(pass[j]) /\ pass[j] \in Passes /\ pass[j].now \in Nat
      BY <1>4, BusyFacts, PassFacts
    <2>2. LambdaLimit \in Nat
      BY NoticeAssumption
    <2>3. clock < pass[j].now + LambdaLimit
      BY <1>1, <1>4 DEF Deadline
    <2>4. pass[j].now <= clock
      BY <2>1 DEF PassSound
    <2> DEFINE n == pass[j].now
    <2>5. n \in Nat /\ clock < n + LambdaLimit /\ n <= clock
      BY <2>1, <2>3, <2>4
    <2> HIDE DEF n
    <2>6. n <= clock' /\ clock' <= n + LambdaLimit
      BY <1>1, <1>2, <2>2, <2>5
    <2>7. pass'[j].now <= clock' /\ clock' <= pass'[j].now + LambdaLimit
      BY <1>1, <2>6 DEF n
    <2>8. QED
      BY <1>1, <2>1, <2>7 DEF PassSound
  <1>5. TasksSound'
    BY <1>1, SameTasks
  <1>6. LedgerSound(ledger)'
    BY <1>1, StateTypes
  <1>7. QED
    BY <1>1, <1>3, <1>4, <1>5, <1>6 DEF StateInv

LEMMA InitState == Init => StateInv
  <1> SUFFICES ASSUME Init PROVE StateInv
    OBVIOUS
  <1> USE DEF Init
  <1>1. clock \in Nat
    OBVIOUS
  <1>2. log \in [Keys -> Entries]
    BY DEF NoEntry, Entries
  <1>3. LedgerSound(ledger) /\ ledger \in Ledgers
    BY NoLedgerSound DEF LedgerSound
  <1>4. config \in [Clients -> Configs]
    BY NoticeAssumption
  <1>5. /\ memory \in [Containers -> [settled : BOOLEAN, next : Nat]]
        /\ pass \in [Containers -> Passes \cup {Idle}]
        /\ task \in [Containers -> [Clients -> Tasks \cup {NoTask}]]
    OBVIOUS
  <1>6. {shown, unconfirmed, misreported} \subseteq [Keys -> Nat] /\ tried \in [Clients -> Nat]
    OBVIOUS
  <1>7. dealt \subseteq Clients /\ steady \subseteq Clients /\ {lost, passes, faults} \subseteq Nat
    OBVIOUS
  <1>8. TypeOK
    BY <1>1, <1>2, <1>3, <1>4, <1>5, <1>6, <1>7 DEF TypeOK, LedgerSound
  <1>9. TasksSound
    BY DEF TasksSound, At
  <1>10. QED
    BY <1>3, <1>8, <1>9 DEF StateInv

LEMMA StepState == StateInv /\ [Next]_vars => StateInv'
  <1> SUFFICES ASSUME StateInv, [Next]_vars PROVE StateInv'
    OBVIOUS
  <1>1. ASSUME NEW k \in Containers, PassStep(k) PROVE StateInv'
    BY <1>1, StartState, ReadState, TakeLeaseState, LeaseFailsState, ResolveState, ResolveFailsState,
       ChunkState, CollectState, WriteState, ProgressFailsState, CrashState DEF PassStep
  <1>2. ASSUME NEW k \in Containers, NEW c \in Clients, AttemptStep(k, c) PROVE StateInv'
    BY <1>2, AttemptStepState
  <1>3. ASSUME (\E c \in Clients : EditConfig(c)) \/ Delist \/ Vanish PROVE StateInv'
    BY <1>3, EnvironmentState
  <1>4. CASE Tick
    BY <1>4, TickState
  <1>5. CASE UNCHANGED vars
    BY <1>5 DEF vars, StateInv, TypeOK, LedgerSound, PassSound, QueueSound, TasksSound, At
  <1>6. QED
    BY <1>1, <1>2, <1>3, <1>4, <1>5 DEF Next

LEMMA StateInvariant == Spec => []StateInv
  <1>1. Init => StateInv
    BY InitState, NoticeAssumption
  <1>2. StateInv /\ [Next]_vars => StateInv'
    BY StepState, NoticeAssumption
  <1>3. QED
    BY <1>1, <1>2, PTL DEF Spec

\* Every variable keeps its type, for any number of clients, containers and
\* passes; the ledger never holds more than MAX_WORK_ITEMS open retries
\* (LedgerRecord of simultaneous_live.py).
THEOREM TypesHold == Spec => []TypeOK
  <1>1. StateInv => TypeOK
    BY DEF StateInv
  <1>2. QED
    BY <1>1, StateInvariant, PTL

-----------------------------------------------------------------------------
(* One notice per outcome *)

LEMMA SendingFacts ==
    ASSUME StateInv, NEW k \in Containers, NEW c \in Clients, Sending(k, c)
    PROVE  Attempting(k, c) /\ KeyOf(k, c) \in Keys
  <1>1. task[k][c].pc # "none"
    BY DEF Sending
  <1>2. Attempting(k, c)
    BY <1>1, AttemptingFacts
  <1>3. QED
    BY <1>2, KeyType

\* A claim outlives the run that made it, so nobody else gets it meanwhile.
LEMMA ClaimsLast ==
    ASSUME StateInv, SendersOwn, NEW k \in Containers, NEW c \in Clients, Sending(k, c)
    PROVE  Handled(KeyOf(k, c))
  <1>1. log[KeyOf(k, c)] = [status |-> "claimed", at |-> pass[k].now]
    BY DEF SendersOwn
  <1>2. pass[k] # Idle /\ pass[k] \in Passes
    BY SendingFacts DEF Attempting, At
  <1>3. PassSound(pass[k]) /\ pass[k].now \in Nat
    BY <1>2, BusyFacts, PassFacts
  <1>4. clock \in Nat /\ LambdaLimit \in Nat /\ ClaimExpiry \in Nat /\ LambdaLimit < ClaimExpiry
    BY StateTypes, NoticeAssumption, ClaimAssumption
  <1> DEFINE n == pass[k].now
  <1>5. n \in Nat /\ clock <= n + LambdaLimit
    BY <1>3 DEF PassSound
  <1> HIDE DEF n
  <1>6. ~(clock - n > ClaimExpiry)
    BY <1>4, <1>5
  <1>7. log[KeyOf(k, c)].at = n /\ log[KeyOf(k, c)].status = "claimed"
    BY <1>1 DEF n
  <1>8. QED
    BY <1>6, <1>7 DEF Handled, Expired

LEMMA OthersSame ==
    ASSUME StateInv, NEW k \in Containers, NEW c \in Clients, NEW t, AttemptMove(k, c, t)
    PROVE  /\ task'[k][c] = t
           /\ \A j \in Containers, d \in Clients : (j # k \/ d # c) => task'[j][d] = task[j][d]
           /\ pass' = pass /\ Attempting(k, c)
  <1>1. Moved(k, c, t) /\ pass' = pass /\ Attempting(k, c)
    BY DEF AttemptMove
  <1>2. QED
    BY <1>1, MovedTasks

LEMMA OwnStays ==
    ASSUME StateInv, SendersOwn, NEW k \in Containers, NEW c \in Clients, NEW t, AttemptMove(k, c, t),
           \A j \in Containers, d \in Clients :
              Sending(j, d) /\ (j # k \/ d # c) => log'[KeyOf(j, d)] = log[KeyOf(j, d)],
           t.pc \in {"push", "confirm", "release"} =>
              /\ log'[<<c, t.item.key>>] = [status |-> "claimed", at |-> pass[k].now]
              /\ \A j \in Containers \ {k} : Sending(j, c) => KeyOf(j, c) # <<c, t.item.key>>
    PROVE  SendersOwn'
  <1>1. /\ task'[k][c] = t /\ pass' = pass
        /\ \A j \in Containers, d \in Clients : (j # k \/ d # c) => task'[j][d] = task[j][d]
    BY OthersSame
  <1>2. ASSUME NEW j \in Containers, NEW d \in Clients, j # k \/ d # c
        PROVE  Sending(j, d)' = Sending(j, d) /\ KeyOf(j, d)' = KeyOf(j, d)
    BY <1>1, <1>2 DEF Sending, KeyOf
  <1>3. Sending(k, c)' = (t.pc \in {"push", "confirm", "release"}) /\ KeyOf(k, c)' = <<c, t.item.key>>
    BY <1>1 DEF Sending, KeyOf
  <1>4. SUFFICES ASSUME NEW j \in Containers, NEW d \in Clients, Sending(j, d)'
                 PROVE  /\ log'[KeyOf(j, d)'] = [status |-> "claimed", at |-> pass[j].now]
                        /\ \A i \in Containers : Sending(i, d)' /\ KeyOf(i, d)' = KeyOf(j, d)' => i = j
    BY <1>1 DEF SendersOwn
  <1>5. CASE j = k /\ d = c
    <2>1. log'[KeyOf(j, d)'] = [status |-> "claimed", at |-> pass[j].now]
      BY <1>3, <1>4, <1>5
    <2>2. ASSUME NEW i \in Containers, Sending(i, d)', KeyOf(i, d)' = KeyOf(j, d)', i # j PROVE FALSE
      <3>1. Sending(i, c) /\ KeyOf(i, c) = <<c, t.item.key>>
        BY <1>2, <1>3, <1>5, <2>2
      <3>2. QED
        BY <1>3, <1>4, <1>5, <2>2, <3>1
    <2>3. QED
      BY <2>1, <2>2
  <1>6. CASE j # k \/ d # c
    <2>1. Sending(j, d) /\ KeyOf(j, d)' = KeyOf(j, d)
      BY <1>2, <1>4, <1>6
    <2>2. /\ log[KeyOf(j, d)] = [status |-> "claimed", at |-> pass[j].now]
          /\ \A i \in Containers : Sending(i, d) /\ KeyOf(i, d) = KeyOf(j, d) => i = j
      BY <2>1 DEF SendersOwn
    <2>3. log'[KeyOf(j, d)'] = [status |-> "claimed", at |-> pass[j].now]
      BY <1>6, <2>1, <2>2
    <2>4. ASSUME NEW i \in Containers, Sending(i, d)', KeyOf(i, d)' = KeyOf(j, d)' PROVE i = j
      <3>1. CASE i # k \/ d # c
        BY <1>2, <2>1, <2>2, <2>4, <3>1
      <3>2. CASE i = k /\ d = c
        BY <1>3, <1>6, <2>1, <2>4, <3>2
      <3>3. QED
        BY <3>1, <3>2
    <2>5. QED
      BY <2>3, <2>4
  <1>7. QED
    BY <1>5, <1>6

LEMMA KnownStays ==
    ASSUME StateInv, NEW k \in Containers, NEW c \in Clients, NEW t, AttemptMove(k, c, t), NEW key,
           task[k][c].pc = "confirm" => KeyOf(k, c) # key,
           log[key].status = "delivered" => log'[key].status = "delivered",
           IsKnown(key)
    PROVE  IsKnown(key)'
  <1>1. \A j \in Containers, d \in Clients : (j # k \/ d # c) => task'[j][d] = task[j][d]
    BY OthersSame
  <1>2. CASE log[key].status = "delivered"
    BY <1>2 DEF IsKnown
  <1>3. CASE log[key].status # "delivered"
    <2>1. PICK j \in Containers, d \in Clients : task[j][d].pc = "confirm" /\ KeyOf(j, d) = key
      BY <1>3 DEF IsKnown
    <2>2. j # k \/ d # c
      BY <2>1
    <2>3. task'[j][d] = task[j][d]
      BY <1>1, <2>2
    <2>4. QED
      BY <2>1, <2>3 DEF IsKnown, KeyOf
  <1>4. QED
    BY <1>2, <1>3

LEMMA CountStays ==
    ASSUME PushesCounted, UnchangedPushes, \A key \in Keys : IsKnown(key) => IsKnown(key)',
           StateInv
    PROVE  PushesCounted'
  <1>1. SUFFICES ASSUME NEW key \in Keys
                 PROVE  shown'[key] <= unconfirmed'[key] + misreported'[key] + (IF IsKnown(key)' THEN 1 ELSE 0)
    BY DEF PushesCounted
  <1> DEFINE s == shown[key]
             m == unconfirmed[key] + misreported[key]
  <1>2. s <= m + (IF IsKnown(key) THEN 1 ELSE 0) /\ s \in Nat /\ m \in Nat
    BY DEF PushesCounted, StateInv, TypeOK
  <1>3. shown'[key] = s /\ unconfirmed'[key] + misreported'[key] = m
    BY DEF UnchangedPushes
  <1> HIDE DEF s, m
  <1>4. QED
    BY <1>2, <1>3

LEMMA LogEntry ==
    ASSUME StateInv, NEW key \in Keys, NEW e, log' = [log EXCEPT ![key] = e]
    PROVE  log'[key] = e /\ \A other : other # key => log'[other] = log[other]
  <1>1. log \in [Keys -> Entries]
    BY DEF StateInv, TypeOK
  <1>2. ASSUME NEW other, other # key PROVE log'[other] = log[other]
    BY <1>1, <1>2
  <1>3. QED
    BY <1>1, <1>2

\* Two tasks that send have different keys.
LEMMA OthersDiffer ==
    ASSUME StateInv, SendersOwn, NEW k \in Containers, NEW c \in Clients, Sending(k, c),
           NEW j \in Containers, NEW d \in Clients, Sending(j, d), j # k \/ d # c
    PROVE  KeyOf(j, d) # KeyOf(k, c)
  <1>1. SUFFICES ASSUME KeyOf(j, d) = KeyOf(k, c) PROVE FALSE
    OBVIOUS
  <1>2. d = c
    BY <1>1 DEF KeyOf
  <1>3. j = k
    BY <1>1, <1>2 DEF SendersOwn
  <1>4. QED
    BY <1>2, <1>3

\* A step that ends an attempt before its claim.
LEMMA QuietOnce ==
    ASSUME StateInv, OnceInv, NEW k \in Containers, NEW c \in Clients, NEW t, AttemptMove(k, c, t),
           UnchangedPushes, UNCHANGED log, task[k][c].pc # "confirm", t.pc \notin {"push", "confirm", "release"}
    PROVE  OnceInv'
  <1>1. SendersOwn'
    BY OwnStays DEF OnceInv
  <1>2. \A key \in Keys : IsKnown(key) => IsKnown(key)'
    BY KnownStays
  <1>3. PushesCounted'
    BY <1>2, CountStays DEF OnceInv
  <1>4. QED
    BY <1>1, <1>3 DEF OnceInv

\* A claim is made only while nobody else holds one that counts.
LEMMA ClaimOnce ==
    ASSUME StateInv, OnceInv, NEW k \in Containers, NEW c \in Clients, NEW t, AttemptMove(k, c, t),
           UnchangedPushes, Claim(KeyOf(k, c), pass[k].now), task[k][c].pc = "claim",
           t.pc = "done" \/ (t.pc = "push" /\ t.item = task[k][c].item)
    PROVE  OnceInv'
  <1> DEFINE K == KeyOf(k, c)
             e == [status |-> "claimed", at |-> pass[k].now]
  <1>1. K \in Keys /\ ~Handled(K) /\ log' = [log EXCEPT ![K] = e]
    BY KeyType DEF AttemptMove, Claim
  <1>2. log'[K] = e /\ \A other : other # K => log'[other] = log[other]
    BY <1>1, LogEntry
  <1>3. log[K].status # "delivered"
    BY <1>1 DEF Handled, Expired
  <1>4. \A j \in Containers, d \in Clients : Sending(j, d) => KeyOf(j, d) # K
    BY <1>1, ClaimsLast DEF OnceInv
  <1>5. t.pc = "push" => <<c, t.item.key>> = K
    BY DEF KeyOf
  <1>6. SendersOwn'
    <2>1. \A j \in Containers, d \in Clients : Sending(j, d) => log'[KeyOf(j, d)] = log[KeyOf(j, d)]
      BY <1>2, <1>4
    <2>2. t.pc \in {"push", "confirm", "release"} =>
              /\ log'[<<c, t.item.key>>] = e
              /\ \A j \in Containers \ {k} : Sending(j, c) => KeyOf(j, c) # <<c, t.item.key>>
      BY <1>2, <1>4, <1>5
    <2> HIDE DEF K
    <2>3. QED
      BY <2>1, <2>2, OwnStays DEF OnceInv
  <1>7. ASSUME NEW key \in Keys, IsKnown(key) PROVE IsKnown(key)'
    <2>1. log[key].status = "delivered" => log'[key].status = "delivered"
      BY <1>2, <1>3
    <2>2. task[k][c].pc # "confirm"
      OBVIOUS
    <2> HIDE DEF K
    <2>3. QED
      BY <1>7, <2>1, <2>2, KnownStays
  <1>8. PushesCounted'
    BY <1>7, CountStays DEF OnceInv
  <1>9. QED
    BY <1>6, <1>8 DEF OnceInv

\* A release gives up a claim that nobody else holds, and no delivery.
LEMMA ReleaseOnce ==
    ASSUME StateInv, OnceInv, NEW k \in Containers, NEW c \in Clients, NEW t, AttemptMove(k, c, t),
           UnchangedPushes, UNCHANGED log \/ Release(KeyOf(k, c)), task[k][c].pc = "release", t.pc = "done"
    PROVE  OnceInv'
  <1> DEFINE K == KeyOf(k, c)
  <1>1. CASE UNCHANGED log
    BY <1>1, QuietOnce
  <1>2. CASE Release(K)
    <2>1. Sending(k, c) /\ K \in Keys
      BY SendingFacts DEF Sending
    <2>2. log'[K] = NoEntry /\ \A other : other # K => log'[other] = log[other]
      BY <1>2, <2>1, LogEntry DEF Release
    <2>3. log[K].status # "delivered"
      <3>1. log[K] = [status |-> "claimed", at |-> pass[k].now]
        BY <2>1 DEF OnceInv, SendersOwn
      <3>2. QED
        BY <3>1
    <2>4. \A j \in Containers, d \in Clients : Sending(j, d) /\ (j # k \/ d # c) => KeyOf(j, d) # K
      BY <2>1, OthersDiffer DEF OnceInv
    <2>5. SendersOwn'
      <3>1. \A j \in Containers, d \in Clients : Sending(j, d) /\ (j # k \/ d # c) => log'[KeyOf(j, d)] = log[KeyOf(j, d)]
        BY <2>2, <2>4
      <3> HIDE DEF K
      <3>2. QED
        BY <3>1, OwnStays DEF OnceInv
    <2>6. ASSUME NEW key \in Keys, IsKnown(key) PROVE IsKnown(key)'
      <3>1. log[key].status = "delivered" => log'[key].status = "delivered"
        BY <2>2, <2>3
      <3>2. task[k][c].pc # "confirm"
        OBVIOUS
      <3> HIDE DEF K
      <3>3. QED
        BY <2>6, <3>1, <3>2, KnownStays
    <2>7. PushesCounted'
      BY <2>6, CountStays DEF OnceInv
    <2>8. QED
      BY <2>5, <2>7 DEF OnceInv
  <1>3. QED
    BY <1>1, <1>2

\* Before its push, nothing is known of the pushes under this key.
LEMMA PushOnce ==
    ASSUME StateInv, OnceInv, NEW k \in Containers, NEW c \in Clients, PushNotice(k, c)
    PROVE  OnceInv'
  <1>1. PICK accepted \in 0..2, sent \in BOOLEAN, t \in Tasks :
                /\ (IF sent THEN 1 ELSE 0) <= accepted
                /\ shown' = [shown EXCEPT ![KeyOf(k, c)] = @ + accepted]
                /\ misreported' = [misreported EXCEPT ![KeyOf(k, c)] = @ + accepted - (IF sent THEN 1 ELSE 0)]
                /\ AttemptMove(k, c, t)
                /\ t.pc = (IF sent THEN "confirm" ELSE "release") /\ t.item = task[k][c].item
    BY PushMoves
  <1>2. UNCHANGED <<log, unconfirmed>> /\ task[k][c].pc = "push"
    BY PushMoves
  <1> DEFINE K == KeyOf(k, c)
  <1>3. Sending(k, c) /\ K \in Keys /\ <<c, t.item.key>> = K
    BY <1>1, <1>2, SendingFacts DEF Sending, KeyOf
  <1>4. log[K] = [status |-> "claimed", at |-> pass[k].now]
    BY <1>3 DEF OnceInv, SendersOwn
  <1>5. \A j \in Containers, d \in Clients : Sending(j, d) /\ (j # k \/ d # c) => KeyOf(j, d) # K
    BY <1>3, OthersDiffer DEF OnceInv
  <1> HIDE DEF K
  <1>6. SendersOwn'
    BY <1>1, <1>2, <1>3, <1>4, <1>5, OwnStays DEF OnceInv
  <1>7. ~IsKnown(K)
    <2>1. \A j \in Containers, d \in Clients : task[j][d].pc = "confirm" => Sending(j, d) /\ (j # k \/ d # c)
      BY <1>2 DEF Sending
    <2>2. QED
      BY <1>4, <1>5, <2>1 DEF IsKnown
  <1>8. \A key \in Keys : sent /\ key = K => IsKnown(key)'
    <2>1. task'[k][c] = t
      BY <1>1, OthersSame
    <2>2. QED
      <3>1. sent => t.pc = "confirm"
        BY <1>1
      <3>2. KeyOf(k, c)' = K
        BY <1>3, <2>1 DEF KeyOf
      <3>3. ASSUME NEW key \in Keys, sent, key = K PROVE IsKnown(key)'
        <4>1. task'[k][c].pc = "confirm" /\ KeyOf(k, c)' = key
          BY <2>1, <3>1, <3>2, <3>3
        <4>2. QED
          BY <4>1 DEF IsKnown
      <3>4. QED
        BY <3>3
  <1>9. PushesCounted'
    <2>1. SUFFICES ASSUME NEW key \in Keys
                   PROVE  shown'[key] <= unconfirmed'[key] + misreported'[key] + (IF IsKnown(key)' THEN 1 ELSE 0)
      BY DEF PushesCounted
    <2> DEFINE s == shown[key]
               u == unconfirmed[key]
               m == misreported[key]
    <2>2. s <= u + m + (IF IsKnown(key) THEN 1 ELSE 0) /\ s \in Nat /\ u \in Nat /\ m \in Nat
      BY DEF OnceInv, PushesCounted, StateInv, TypeOK
    <2>3. unconfirmed'[key] = u
      BY <1>2
    <2>4. /\ shown'[key] = IF key = K THEN s + accepted ELSE s
          /\ misreported'[key] = IF key = K THEN m + accepted - (IF sent THEN 1 ELSE 0) ELSE m
      BY <1>1, <1>3 DEF K, StateInv, TypeOK
    <2>5. IsKnown(key) => IsKnown(key)'
      BY <1>1, <1>2, KnownStays
    <2> HIDE DEF s, u, m
    <2>6. CASE key = K
      <3>1. s <= u + m
        BY <1>7, <2>2, <2>6
      <3>2. CASE sent
        <4>1. shown'[key] = s + accepted /\ misreported'[key] = m + accepted - 1 /\ IsKnown(key)'
          <5>1. misreported'[key] = m + accepted - (IF sent THEN 1 ELSE 0) /\ shown'[key] = s + accepted
            BY <2>4, <2>6
          <5>2. (IF sent THEN 1 ELSE 0) = 1
            BY <3>2
          <5>3. IsKnown(key)'
            BY <1>8, <2>6, <3>2
          <5>4. QED
            BY <5>1, <5>2, <5>3
        <4>2. s + accepted <= u + (m + accepted - 1) + 1
          BY <2>2, <3>1
        <4>3. QED
          BY <2>3, <4>1, <4>2
      <3>3. CASE ~sent
        <4>1. shown'[key] = s + accepted /\ misreported'[key] = m + accepted
          BY <2>2, <2>4, <2>6, <3>3
        <4>2. s + accepted <= u + (m + accepted) /\ s + accepted <= u + (m + accepted) + 1
          BY <2>2, <3>1
        <4>3. QED
          BY <2>2, <2>3, <4>1, <4>2
      <3>4. QED
        BY <3>2, <3>3
    <2>7. CASE key # K
      BY <2>2, <2>3, <2>4, <2>5, <2>7
    <2>8. QED
      BY <2>6, <2>7
  <1>10. QED
    BY <1>6, <1>9 DEF OnceInv

\* A confirm makes the row tell of the push; one that fails is counted.
LEMMA ConfirmOnce ==
    ASSUME StateInv, OnceInv, NEW k \in Containers, NEW c \in Clients,
           ConfirmNotice(k, c) \/ ConfirmFails(k, c)
    PROVE  OnceInv'
  <1> DEFINE K == KeyOf(k, c)
  <1>1. /\ task[k][c].pc = "confirm" /\ UNCHANGED <<shown, misreported>>
        /\ UNCHANGED log \/ Confirm(K, pass[k].now)
        /\ \/ Confirm(K, pass[k].now) /\ UNCHANGED unconfirmed
           \/ unconfirmed' = [unconfirmed EXCEPT ![K] = @ + 1]
        /\ \E t : AttemptMove(k, c, t) /\ t.pc = "done"
    BY ConfirmMoves, ConfirmFailsMoves DEF UnchangedPushes
  <1>2. PICK t : AttemptMove(k, c, t) /\ t.pc = "done"
    BY <1>1
  <1>3. Sending(k, c) /\ K \in Keys /\ log[K].status = "claimed"
    <2>1. Sending(k, c) /\ K \in Keys
      BY <1>1, SendingFacts DEF Sending
    <2>2. log[K] = [status |-> "claimed", at |-> pass[k].now]
      BY <2>1 DEF OnceInv, SendersOwn
    <2>3. QED
      BY <2>1, <2>2
  <1>4. \A j \in Containers, d \in Clients : Sending(j, d) /\ (j # k \/ d # c) => KeyOf(j, d) # K
    BY <1>3, OthersDiffer DEF OnceInv
  <1>5. /\ \A other : other # K => log'[other] = log[other]
        /\ Confirm(K, pass[k].now) => log'[K].status = "delivered"
    <2>1. CASE Confirm(K, pass[k].now)
      <3> HIDE DEF K
      <3>1. log' = [log EXCEPT ![K] = [status |-> "delivered", at |-> pass[k].now]]
        BY <2>1 DEF Confirm
      <3>2. /\ log'[K] = [status |-> "delivered", at |-> pass[k].now]
            /\ \A other : other # K => log'[other] = log[other]
        BY <1>3, <3>1, LogEntry
      <3>3. QED
        BY <3>2
    <2>2. CASE ~Confirm(K, pass[k].now)
      BY <1>1, <2>2
    <2>3. QED
      BY <2>1, <2>2
  <1>6. SendersOwn'
    <2>1. \A j \in Containers, d \in Clients : Sending(j, d) /\ (j # k \/ d # c) => log'[KeyOf(j, d)] = log[KeyOf(j, d)]
      BY <1>4, <1>5
    <2> HIDE DEF K
    <2>2. QED
      BY <1>2, <2>1, OwnStays DEF OnceInv
  <1>7. PushesCounted'
    <2>1. SUFFICES ASSUME NEW key \in Keys
                   PROVE  shown'[key] <= unconfirmed'[key] + misreported'[key] + (IF IsKnown(key)' THEN 1 ELSE 0)
      BY DEF PushesCounted
    <2> DEFINE s == shown[key]
               u == unconfirmed[key]
               m == misreported[key]
    <2>2. s <= u + m + (IF IsKnown(key) THEN 1 ELSE 0) /\ s \in Nat /\ u \in Nat /\ m \in Nat
      BY DEF OnceInv, PushesCounted, StateInv, TypeOK
    <2>3. shown'[key] = s /\ misreported'[key] = m
      BY <1>1
    <2>4. CASE key = K
      <3>1. IsKnown(key)' \/ unconfirmed'[key] = u + 1
        BY <1>1, <1>3, <1>5, <2>4 DEF IsKnown, StateInv, TypeOK
      <3>2. unconfirmed'[key] = u \/ unconfirmed'[key] = u + 1
        BY <1>1, <1>3, <2>4 DEF StateInv, TypeOK
      <3> HIDE DEF s, u, m, K
      <3>3. s <= u + m + 1
        BY <2>2
      <3>4. CASE unconfirmed'[key] = u + 1
        BY <2>2, <2>3, <3>3, <3>4
      <3>5. CASE unconfirmed'[key] = u /\ IsKnown(key)'
        BY <2>2, <2>3, <3>3, <3>5
      <3>6. QED
        BY <3>1, <3>2, <3>4, <3>5
    <2>5. CASE key # K
      <3>1. unconfirmed'[key] = u
        BY <1>1, <1>3, <2>5 DEF StateInv, TypeOK
      <3>2. log[key].status = "delivered" => log'[key].status = "delivered"
        BY <1>5, <2>5
      <3>3. IsKnown(key) => IsKnown(key)'
        BY <1>2, <2>5, <3>2, KnownStays
      <3> HIDE DEF s, u, m
      <3>4. QED
        BY <2>2, <2>3, <3>1, <3>3
    <2>6. QED
      BY <2>4, <2>5
  <1>8. QED
    BY <1>6, <1>7 DEF OnceInv
\* A step of one container that leaves it without a claim touches no claim
\* of the others.
LEMMA PassSenders ==
    ASSUME StateInv, SendersOwn, NEW k \in Containers, PassMoved(k), UNCHANGED log,
           \A c \in Clients : ~Sending(k, c)'
    PROVE  SendersOwn'
  <1>1. ASSUME NEW j \in Containers, NEW c \in Clients, Sending(j, c)'
        PROVE  j # k /\ Sending(j, c) /\ KeyOf(j, c)' = KeyOf(j, c) /\ pass'[j] = pass[j]
    <2>1. j # k
      BY <1>1
    <2>2. pass'[j] = pass[j] /\ task'[j] = task[j]
      BY <2>1 DEF PassMoved
    <2>3. QED
      BY <1>1, <2>1, <2>2 DEF Sending, KeyOf
  <1>2. SUFFICES ASSUME NEW j \in Containers, NEW c \in Clients, Sending(j, c)'
                 PROVE  /\ log[KeyOf(j, c)'] = [status |-> "claimed", at |-> pass'[j].now]
                        /\ \A i \in Containers : Sending(i, c)' /\ KeyOf(i, c)' = KeyOf(j, c)' => i = j
    BY DEF SendersOwn
  <1>3. j # k /\ Sending(j, c) /\ KeyOf(j, c)' = KeyOf(j, c) /\ pass'[j] = pass[j]
    BY <1>1, <1>2
  <1>4. /\ log[KeyOf(j, c)] = [status |-> "claimed", at |-> pass[j].now]
        /\ \A i \in Containers : Sending(i, c) /\ KeyOf(i, c) = KeyOf(j, c) => i = j
    BY <1>3 DEF SendersOwn
  <1>5. ASSUME NEW i \in Containers, Sending(i, c)', KeyOf(i, c)' = KeyOf(j, c)' PROVE i = j
    BY <1>1, <1>3, <1>4, <1>5
  <1>6. QED
    BY <1>3, <1>4, <1>5

LEMMA PassOnce ==
    ASSUME StateInv, OnceInv, NEW k \in Containers, PassMoved(k), UNCHANGED log, UnchangedPushes,
           \A c \in Clients : ~Sending(k, c) /\ ~Sending(k, c)'
    PROVE  OnceInv'
  <1>1. SendersOwn'
    BY PassSenders DEF OnceInv
  <1>2. ASSUME NEW key \in Keys, IsKnown(key) PROVE IsKnown(key)'
    <2>1. CASE log[key].status = "delivered"
      BY <2>1 DEF IsKnown
    <2>2. CASE log[key].status # "delivered"
      <3>1. PICK j \in Containers, d \in Clients : task[j][d].pc = "confirm" /\ KeyOf(j, d) = key
        BY <1>2, <2>2 DEF IsKnown
      <3>2. j # k
        BY <3>1 DEF Sending
      <3>3. task'[j] = task[j]
        BY <3>2 DEF PassMoved
      <3>4. QED
        BY <3>1, <3>3 DEF IsKnown, KeyOf
    <2>3. QED
      BY <2>1, <2>2
  <1>3. PushesCounted'
    BY <1>2, CountStays DEF OnceInv
  <1>4. QED
    BY <1>1, <1>3 DEF OnceInv

\* Neither a pass without tasks nor a chunk that is all done holds a claim.
LEMMA NoClaims ==
    ASSUME StateInv, NEW k \in Containers, ~At(k, "serve") \/ \A c \in pass[k].batch : task[k][c].pc = "done"
    PROVE  \A c \in Clients : ~Sending(k, c)
  <1>1. ASSUME NEW c \in Clients PROVE task[k][c] = NoTask \/ task[k][c].pc = "done"
    BY DEF StateInv, TasksSound
  <1>2. QED
    BY <1>1 DEF Sending, NoTask

LEMMA PassStepOnce ==
    ASSUME StateInv, OnceInv, NEW k \in Containers, PassStep(k), ~Crash(k)
    PROVE  OnceInv'
  <1>1. UNCHANGED log /\ UnchangedPushes
    BY DEF PassStep, StartPass, ReadLedger, TakeLease, LeaseFails, Resolve, ResolveFails, StartChunk, CollectChunk,
           WriteProgress, ProgressFails, UnchangedPushes, pushVars
  <1>2. CASE StartChunk(k)
    <2> DEFINE q == pass'[k]
    <2>1. /\ PassMoved(k) /\ q.pc = "serve"
          /\ \A c \in q.batch : task'[k][c].pc = "look"
      BY <1>2, ChunkMoves
    <2>2. \A c \in Clients : ~Sending(k, c)
      BY <1>2, NoClaims DEF StartChunk, At
    <2>3. ASSUME NEW c \in Clients PROVE task'[k][c] = NoTask \/ task'[k][c].pc = "look"
      BY <2>1 DEF PassMoved
    <2>4. \A c \in Clients : ~Sending(k, c)'
      BY <2>3 DEF Sending, NoTask
    <2>5. QED
      BY <1>1, <2>1, <2>2, <2>4, PassOnce
  <1>3. CASE CollectChunk(k)
    <2>1. PassMoved(k) /\ (\A c \in pass[k].batch : task[k][c].pc = "done") /\ pass'[k].pc = "chunk"
      BY <1>3, CollectMoves
    <2>2. \A c \in Clients : task'[k][c] = NoTask
      BY <2>1 DEF PassMoved
    <2>3. \A c \in Clients : ~Sending(k, c)'
      BY <2>2 DEF Sending, NoTask
    <2>4. QED
      BY <1>1, <2>1, <2>3, NoClaims, PassOnce
  <1>4. CASE UNCHANGED task /\ ~At(k, "serve")
    <2>1. \A c \in Clients : ~Sending(k, c)
      BY <1>4, NoClaims
    <2>2. \A j \in Containers \ {k} : pass'[j] = pass[j]
      BY StateTypes DEF PassStep, StartPass, ReadLedger, TakeLease, LeaseFails, Resolve, ResolveFails, StartChunk,
             CollectChunk, WriteProgress, ProgressFails, Crash, End
    <2>3. ASSUME NEW j \in Containers, NEW c \in Clients, Sending(j, c)
          PROVE  j # k /\ pass'[j] = pass[j]
      BY <2>1, <2>2, <2>3
    <2>4. SendersOwn'
      <3>1. \A j \in Containers, c \in Clients : Sending(j, c)' = Sending(j, c) /\ KeyOf(j, c)' = KeyOf(j, c)
        BY <1>4 DEF Sending, KeyOf
      <3>2. QED
        BY <1>1, <2>3, <3>1 DEF OnceInv, SendersOwn
    <2>5. \A key \in Keys : IsKnown(key)' = IsKnown(key)
      BY <1>1, <1>4 DEF IsKnown, KeyOf
    <2>6. PushesCounted'
      BY <1>1, <2>5, CountStays DEF OnceInv
    <2>7. QED
      BY <2>4, <2>6 DEF OnceInv
  <1>5. (UNCHANGED task /\ ~At(k, "serve")) \/ StartChunk(k) \/ CollectChunk(k)
    BY DEF PassStep, StartPass, ReadLedger, TakeLease, LeaseFails, Resolve, ResolveFails,
           WriteProgress, ProgressFails, At, Through
  <1>6. QED
    BY <1>2, <1>3, <1>4, <1>5

\* A crash counts the pushes it makes the log lose.
LEMMA CrashOnce ==
    ASSUME StateInv, OnceInv, NEW k \in Containers, Crash(k)
    PROVE  OnceInv'
  <1> DEFINE S(key) == {c \in Clients : Attempts(k, c, "confirm") /\ KeyOf(k, c) = key}
  <1>1. /\ UNCHANGED <<log, shown, unconfirmed>>
        /\ misreported' = [key \in Keys |-> misreported[key] + Cardinality(S(key))]
    BY DEF Crash
  <1>2. PassMoved(k) /\ pass'[k] = Idle
    BY CrashMoves
  <1>3. \A c \in Clients : ~Sending(k, c)'
    <2>1. \A c \in Clients : task'[k][c] = NoTask
      BY <1>2 DEF PassMoved
    <2>2. \A c \in Clients : task'[k][c].pc = "none"
      BY <2>1 DEF NoTask
    <2> HIDE DEF S
    <2>3. QED
      BY <2>2 DEF Sending
  <1>4. SendersOwn'
    BY <1>1, <1>2, <1>3, PassSenders DEF OnceInv
  <1>5. ASSUME NEW key \in Keys
        PROVE  shown'[key] <= unconfirmed'[key] + misreported'[key] + (IF IsKnown(key)' THEN 1 ELSE 0)
    <2> DEFINE s == shown[key]
               u == unconfirmed[key]
               m == misreported[key]
               n == Cardinality(S(key))
    <2>1. s <= u + m + (IF IsKnown(key) THEN 1 ELSE 0) /\ s \in Nat /\ u \in Nat /\ m \in Nat
      BY DEF OnceInv, PushesCounted, StateInv, TypeOK
    <2>2. S(key) \subseteq Clients
      OBVIOUS
    <2>3. IsFiniteSet(S(key)) /\ n \in Nat
      BY <2>2, FS_Subset, FS_CardinalityType, NoticeAssumption
    <2>4. shown'[key] = s /\ unconfirmed'[key] = u /\ misreported'[key] = m + n
      BY <1>1
    <2>5. S(key) # {} => n > 0
      <3> DEFINE T == S(key)
      <3>1. IsFiniteSet(T) /\ n = Cardinality(T)
        BY <2>3
      <3> HIDE DEF T, n
      <3>2. n = 0 => T = {}
        BY <3>1, FS_EmptySet
      <3>3. n \in Nat
        BY <2>3
      <3>4. QED
        BY <3>2, <3>3 DEF T
    <2>6. IsKnown(key) => IsKnown(key)' \/ S(key) # {}
      <3>1. CASE log[key].status = "delivered"
        BY <1>1, <3>1 DEF IsKnown
      <3>2. ASSUME NEW j \in Containers, NEW d \in Clients, task[j][d].pc = "confirm", KeyOf(j, d) = key
            PROVE  IsKnown(key)' \/ S(key) # {}
        <4>1. CASE j = k
          BY <3>2, <4>1 DEF Attempts
        <4>2. CASE j # k
          <5>1. task'[j] = task[j]
            BY <1>2, <4>2 DEF PassMoved
          <5>2. QED
            BY <3>2, <5>1 DEF IsKnown, KeyOf
        <4>3. QED
          BY <4>1, <4>2
      <3>3. QED
        BY <3>1, <3>2 DEF IsKnown
    <2> HIDE DEF s, u, m, n, S
    <2>7. s <= u + m + 1 /\ (~IsKnown(key) => s <= u + m)
      BY <2>1
    <2>8. CASE IsKnown(key)'
      <3>1. s <= u + (m + n) + 1
        BY <2>1, <2>3, <2>7
      <3>2. QED
        BY <2>1, <2>3, <2>4, <2>8, <3>1
    <2>9. CASE ~IsKnown(key)'
      <3>1. s <= u + m \/ n > 0
        BY <2>5, <2>6, <2>7, <2>9
      <3>2. s <= u + (m + n)
        BY <2>1, <2>3, <2>7, <3>1
      <3>3. QED
        BY <2>1, <2>3, <2>4, <2>9, <3>2
    <2>10. QED
      BY <2>8, <2>9
  <1>6. PushesCounted'
    BY <1>5 DEF PushesCounted
  <1>7. QED
    BY <1>4, <1>6 DEF OnceInv

LEMMA SameOnce ==
    ASSUME OnceInv, UNCHANGED <<log, pass, task, shown, unconfirmed, misreported>>
    PROVE  OnceInv'
  <1>1. SendersOwn'
    BY DEF OnceInv, SendersOwn, Sending, KeyOf
  <1>2. \A key \in Keys : IsKnown(key)' = IsKnown(key)
    BY DEF IsKnown, KeyOf
  <1>3. PushesCounted'
    BY <1>2 DEF OnceInv, PushesCounted
  <1>4. QED
    BY <1>1, <1>3 DEF OnceInv

LEMMA AttemptStepOnce ==
    ASSUME StateInv, OnceInv, NEW k \in Containers, NEW c \in Clients, AttemptStep(k, c)
    PROVE  OnceInv'
  <1>1. CASE Look(k, c) \/ LookFails(k, c)
    <2>1. /\ UNCHANGED log /\ UnchangedPushes /\ task[k][c].pc = "look"
          /\ \E t : AttemptMove(k, c, t) /\ t.pc \in {"claim", "done"}
      BY <1>1, LookMoves, LookFailsMoves
    <2>2. PICK t : AttemptMove(k, c, t) /\ t.pc \in {"claim", "done"}
      BY <2>1
    <2>3. QED
      BY <2>1, <2>2, QuietOnce
  <1>2. CASE ClaimNotice(k, c) \/ ClaimFails(k, c)
    <2>1. /\ UnchangedPushes /\ task[k][c].pc = "claim"
          /\ \E t : /\ AttemptMove(k, c, t)
                    /\ \/ Claim(KeyOf(k, c), pass[k].now) /\ t.pc = "push" /\ t.item = task[k][c].item
                       \/ (UNCHANGED log \/ Claim(KeyOf(k, c), pass[k].now)) /\ t.pc = "done"
      BY <1>2, ClaimMoves, ClaimFailsMoves
    <2>2. PICK t : /\ AttemptMove(k, c, t)
                   /\ \/ Claim(KeyOf(k, c), pass[k].now) /\ t.pc = "push" /\ t.item = task[k][c].item
                      \/ (UNCHANGED log \/ Claim(KeyOf(k, c), pass[k].now)) /\ t.pc = "done"
      BY <2>1
    <2>3. CASE UNCHANGED log /\ t.pc = "done"
      BY <2>1, <2>2, <2>3, QuietOnce
    <2>4. CASE Claim(KeyOf(k, c), pass[k].now) /\ (t.pc = "done" \/ (t.pc = "push" /\ t.item = task[k][c].item))
      BY <2>1, <2>2, <2>4, ClaimOnce
    <2>5. QED
      BY <2>2, <2>3, <2>4
  <1>3. CASE ReleaseNotice(k, c) \/ ReleaseFails(k, c)
    BY <1>3, ReleaseMoves, ReleaseOnce
  <1>4. QED
    BY <1>1, <1>2, <1>3, PushOnce, ConfirmOnce DEF AttemptStep

LEMMA InitOnce == Init => OnceInv
  <1> SUFFICES ASSUME Init PROVE OnceInv
    OBVIOUS
  <1>1. \A k \in Containers, c \in Clients : task[k][c] = NoTask
    BY DEF Init
  <1>2. SendersOwn
    BY <1>1 DEF SendersOwn, Sending, NoTask
  <1>3. ASSUME NEW key \in Keys
        PROVE  shown[key] <= unconfirmed[key] + misreported[key] + (IF IsKnown(key) THEN 1 ELSE 0)
    <2>1. shown[key] = 0 /\ unconfirmed[key] = 0 /\ misreported[key] = 0
      BY DEF Init
    <2>2. QED
      BY <2>1
  <1>4. QED
    BY <1>2, <1>3 DEF OnceInv, PushesCounted

LEMMA StepOnce == StateInv /\ OnceInv /\ [Next]_vars => OnceInv'
  <1> SUFFICES ASSUME StateInv, OnceInv, [Next]_vars PROVE OnceInv'
    OBVIOUS
  <1>1. ASSUME NEW k \in Containers, PassStep(k) PROVE OnceInv'
    BY <1>1, PassStepOnce, CrashOnce
  <1>2. ASSUME NEW k \in Containers, NEW c \in Clients, AttemptStep(k, c) PROVE OnceInv'
    BY <1>2, AttemptStepOnce
  <1>3. ASSUME (\E c \in Clients : EditConfig(c)) \/ Delist \/ Vanish \/ Tick \/ UNCHANGED vars PROVE OnceInv'
    <2>1. UNCHANGED <<log, pass, task, shown, unconfirmed, misreported>>
      BY <1>3 DEF EditConfig, Delist, Vanish, Tick, vars, pushVars
    <2>2. QED
      BY <2>1, SameOnce
  <1>4. QED
    BY <1>1, <1>2, <1>3 DEF Next

\* "Everything else (overlapping runs, retries, redeploys) collapses into one
\* notification per client and relevant creator/stream group through the claim"
\* (docstring of simultaneous_dispatcher.py): however many passes the lease lets
\* overlap, a client is shown a notice again only after an acceptance the
\* delivery log never learned of.
THEOREM NotifiedOnce == Spec => []OneNoticePerOutcome
  <1>1. Init => OnceInv
    BY InitOnce, NoticeAssumption
  <1>2. StateInv /\ OnceInv /\ [Next]_vars => OnceInv'
    BY StepOnce, NoticeAssumption
  <1>3. StateInv /\ OnceInv => OneNoticePerOutcome
    <2>1. SUFFICES ASSUME StateInv, OnceInv, NEW key \in Keys
                   PROVE  shown[key] <= 1 + unconfirmed[key] + misreported[key]
      BY DEF OneNoticePerOutcome
    <2> DEFINE s == shown[key]
               u == unconfirmed[key]
               m == misreported[key]
    <2>2. s <= u + m + (IF IsKnown(key) THEN 1 ELSE 0) /\ s \in Nat /\ u \in Nat /\ m \in Nat
      BY <2>1 DEF OnceInv, PushesCounted, StateInv, TypeOK
    <2> HIDE DEF s, u, m
    <2>3. s <= 1 + u + m
      BY <2>2
    <2>4. QED
      BY <2>3 DEF s, u, m
  <1>4. QED
    BY <1>1, <1>2, <1>3, StateInvariant, PTL DEF Spec
-----------------------------------------------------------------------------
(* What a pass may do *)

OthersStay(k) ==
    /\ \A j \in Containers \ {k} : pass'[j] = pass[j] /\ task'[j] = task[j]
    /\ UNCHANGED <<notice, config, tried, steady>>

\* A pass starts, reads the ledger, or ends without the lease.
Prepares(k) ==
    /\ pass[k] = Idle \/ pass[k].pc \in {"read", "lease", "resolve"}
    /\ UNCHANGED <<ledger, dealt, lost>>
    /\ \/ pass'[k] = Idle
       \/ At(k, "read")' /\ pass'[k].ledger = NoLedger
       \/ At(k, "lease")' /\ pass'[k].ledger = ledger /\ ~ledger.settled

Leases(k) ==
    /\ At(k, "lease") /\ Swaps(pass[k].ledger.version)
    /\ ledger' = Leased(pass[k]) /\ UNCHANGED <<dealt, lost>>
    /\ pass'[k] = Idle \/ (At(k, "resolve")' /\ pass'[k].ledger = ledger')

\* A pass ends; its progress is stored or lost.
Ends(k) ==
    /\ pass[k] # Idle /\ pass'[k] = Idle /\ UNCHANGED dealt
    /\ \/ UNCHANGED ledger /\ lost' = lost + 1
       \/ Through(k) /\ Swaps(pass[k].ledger.version) /\ ledger' = FinalLedger(pass[k]) /\ UNCHANGED lost

LEMMA EndedPass ==
    ASSUME StateInv, NEW k \in Containers, End(k)
    PROVE  pass'[k] = Idle /\ \A j \in Containers \ {k} : pass'[j] = pass[j]
  BY StateTypes DEF End

LEMMA PassKinds ==
    ASSUME StateInv, NEW k \in Containers, PassStep(k)
    PROVE  /\ OthersStay(k)
           /\ \/ Prepares(k) \/ Leases(k) \/ Ends(k)
              \/ (Resolve(k) \/ StartChunk(k)) /\ UNCHANGED <<ledger, dealt, lost>>
              \/ CollectChunk(k) /\ UNCHANGED <<ledger, lost>>
  <1> USE StateTypes DEF pushVars, boundVars
  <1>1. CASE StartPass(k)
    <2>1. OthersStay(k)
      BY <1>1 DEF StartPass, OthersStay
    <2>2. Prepares(k)
      <3> DEFINE p == [busy |-> TRUE, pc |-> "read", now |-> clock, ledger |-> NoLedger,
                       queue |-> NoLedger.work, fresh |-> {}, batch |-> {}]
      <3>1. pass[k] = Idle /\ pass' = [pass EXCEPT ![k] = p] /\ UNCHANGED <<ledger, dealt, lost>>
        BY <1>1 DEF StartPass
      <3>2. p.busy = TRUE /\ p.pc = "read" /\ p.ledger = NoLedger
        OBVIOUS
      <3> HIDE DEF p
      <3>3. p # Idle
        BY <3>2 DEF Idle
      <3>4. QED
        BY <3>1, <3>2, <3>3 DEF Prepares, At
    <2>3. QED
      BY <2>1, <2>2
  <1>2. CASE ReadLedger(k)
    <2>1. OthersStay(k)
      BY <1>2 DEF ReadLedger, OthersStay, End
    <2>2. Prepares(k)
      <3>1. At(k, "read") /\ UNCHANGED <<ledger, dealt, lost>>
        BY <1>2 DEF ReadLedger
      <3>2. CASE End(k)
        BY <3>1, <3>2, EndedPass DEF Prepares, At
      <3>3. CASE ~End(k)
        <4> DEFINE p == [pass[k] EXCEPT !.pc = "lease", !.ledger = ledger]
        <4>1. pass' = [pass EXCEPT ![k] = p] /\ ~ledger.settled
          BY <1>2, <3>3 DEF ReadLedger
        <4>2. pass[k] \in Passes
          BY <3>1, AtFacts
        <4>3. p \in Passes /\ p.pc = "lease" /\ p.ledger = ledger
          BY <4>2 DEF Passes
        <4> HIDE DEF p
        <4>4. pass'[k] = p /\ p # Idle
          BY <4>1, <4>3, PassFacts
        <4>5. At(k, "lease")'
          BY <4>3, <4>4 DEF At
        <4>6. QED
          BY <3>1, <4>1, <4>3, <4>4, <4>5 DEF Prepares, At
      <3>4. QED
        BY <3>2, <3>3
    <2>3. QED
      BY <2>1, <2>2
  <1>3. CASE TakeLease(k) \/ LeaseFails(k)
    <2>1. OthersStay(k)
      BY <1>3 DEF TakeLease, LeaseFails, OthersStay, End
    <2>2. At(k, "lease") /\ UNCHANGED <<dealt, lost>>
      BY <1>3 DEF TakeLease, LeaseFails
    <2>3. \/ End(k) /\ UNCHANGED ledger
          \/ End(k) /\ Swaps(pass[k].ledger.version) /\ ledger' = Leased(pass[k])
          \/ /\ Swaps(pass[k].ledger.version) /\ ledger' = Leased(pass[k])
             /\ pass' = [pass EXCEPT ![k] = [pass[k] EXCEPT !.pc = "resolve", !.ledger = Leased(pass[k])]]
      BY <1>3 DEF TakeLease, LeaseFails
    <2>4. CASE End(k) /\ UNCHANGED ledger
      <3>1. Prepares(k)
        BY <2>2, <2>4, EndedPass DEF Prepares, At
      <3>2. QED
        BY <2>1, <3>1
    <2>5. CASE End(k) /\ Swaps(pass[k].ledger.version) /\ ledger' = Leased(pass[k])
      <3>1. Leases(k)
        BY <2>2, <2>5, EndedPass DEF Leases
      <3>2. QED
        BY <2>1, <3>1
    <2>6. CASE /\ Swaps(pass[k].ledger.version) /\ ledger' = Leased(pass[k])
               /\ pass' = [pass EXCEPT ![k] = [pass[k] EXCEPT !.pc = "resolve", !.ledger = Leased(pass[k])]]
      <3> DEFINE p == [pass[k] EXCEPT !.pc = "resolve", !.ledger = Leased(pass[k])]
      <3>1. p \in Passes /\ p.pc = "resolve" /\ p.ledger = Leased(pass[k])
        BY <2>2, LeaseMoves
      <3>2. pass' = [pass EXCEPT ![k] = p]
        BY <2>6
      <3> HIDE DEF p
      <3>3. pass'[k] = p /\ p # Idle
        BY <3>1, <3>2, PassFacts
      <3>4. At(k, "resolve")' /\ pass'[k].ledger = ledger'
        BY <2>6, <3>1, <3>3 DEF At
      <3>5. Leases(k)
        BY <2>2, <2>6, <3>4 DEF Leases
      <3>6. QED
        BY <2>1, <3>5
    <2>7. QED
      BY <2>3, <2>4, <2>5, <2>6
  <1>4. CASE ResolveFails(k)
    <2>1. OthersStay(k)
      BY <1>4 DEF ResolveFails, OthersStay, End
    <2>2. Prepares(k)
      BY <1>4, EndedPass DEF ResolveFails, Prepares, At
    <2>3. QED
      BY <2>1, <2>2
  <1>5. CASE Resolve(k)
    BY <1>5 DEF Resolve, OthersStay
  <1>6. CASE StartChunk(k)
    BY <1>6 DEF StartChunk, OthersStay
  <1>7. CASE CollectChunk(k)
    <2>1. PassMoved(k)
      BY <1>7, CollectMoves
    <2>2. UNCHANGED <<notice, config, tried, steady, ledger, lost>>
      BY <1>7 DEF CollectChunk
    <2>3. QED
      BY <1>7, <2>1, <2>2 DEF PassMoved, OthersStay
  <1>8. CASE WriteProgress(k) \/ ProgressFails(k)
    <2>1. /\ Through(k) /\ End(k) /\ UNCHANGED <<notice, config, tried, steady, task, dealt>>
          /\ \/ UNCHANGED ledger /\ lost' = lost + 1
             \/ Swaps(pass[k].ledger.version) /\ ledger' = FinalLedger(pass[k]) /\ UNCHANGED lost
      BY <1>8 DEF WriteProgress, ProgressFails
    <2>2. OthersStay(k) /\ Ends(k)
      BY <2>1, EndedPass DEF OthersStay, Ends, Through, At
    <2>3. QED
      BY <2>2
  <1>9. CASE Crash(k)
    <2>1. PassMoved(k) /\ pass'[k] = Idle
      BY <1>9, CrashMoves
    <2>2. pass[k] # Idle /\ UNCHANGED <<notice, config, tried, steady, dealt, ledger>> /\ lost' = lost + 1
      BY <1>9 DEF Crash
    <2>3. OthersStay(k) /\ Ends(k)
      BY <2>1, <2>2 DEF PassMoved, OthersStay, Ends
    <2>4. QED
      BY <2>3
  <1>10. QED
    BY <1>1, <1>2, <1>3, <1>4, <1>5, <1>6, <1>7, <1>8, <1>9 DEF PassStep
-----------------------------------------------------------------------------
(* A settled ledger stays settled *)

\* What a step leaves of the version of a pass that has read the ledger.
HasRead(k) == pass[k] # Idle /\ pass[k].pc # "read"

KeepsVersion(k) ==
    HasRead(k)' =>
        \/ /\ HasRead(k) /\ pass'[k].ledger.version = pass[k].ledger.version
           /\ Leaseholder(k)' => Leaseholder(k)
           /\ pass'[k].pc \in {"lease", "resolve"} => pass'[k] = pass[k]
        \/ /\ pass'[k].pc = "lease" /\ pass'[k].ledger = ledger /\ ~ledger.settled

LEMMA VersionTypes ==
    ASSUME StateInv, NEW k \in Containers, pass[k] # Idle
    PROVE  pass[k].ledger.version \in Nat /\ ledger.version \in Nat
  BY BusyFacts, StateTypes, LedgerFacts, PassFacts

\* A step that leaves the ledger alone.
LEMMA SameVersions ==
    ASSUME StateInv, VersionsTell, UNCHANGED ledger, \A k \in Containers : KeepsVersion(k)
    PROVE  VersionsTell'
  <1>1. SUFFICES ASSUME NEW k \in Containers, HasRead(k)'
                 PROVE  /\ pass'[k].ledger.version <= ledger.version
                        /\ pass'[k].ledger.version = ledger.version =>
                             ~ledger.settled /\ (pass'[k].pc \in {"lease", "resolve"} => pass'[k].ledger = ledger)
                        /\ \A j \in Containers :
                             Leaseholder(k)' /\ Leaseholder(j)' /\ pass'[j].ledger.version = pass'[k].ledger.version => j = k
    BY DEF VersionsTell, HasRead
  <1>2. CASE pass'[k].pc = "lease" /\ pass'[k].ledger = ledger /\ ~ledger.settled
    <2>1. ledger.version \in Nat
      BY StateTypes, LedgerFacts
    <2>2. ~Leaseholder(k)'
      BY <1>2 DEF Leaseholder
    <2>3. QED
      BY <1>2, <2>1, <2>2
  <1>3. CASE /\ HasRead(k) /\ pass'[k].ledger.version = pass[k].ledger.version
             /\ Leaseholder(k)' => Leaseholder(k)
             /\ pass'[k].pc \in {"lease", "resolve"} => pass'[k] = pass[k]
    <2>1. /\ pass[k].ledger.version <= ledger.version
          /\ pass[k].ledger.version = ledger.version =>
                ~ledger.settled /\ (pass[k].pc \in {"lease", "resolve"} => pass[k].ledger = ledger)
          /\ \A j \in Containers :
                Leaseholder(k) /\ Leaseholder(j) /\ pass[j].ledger.version = pass[k].ledger.version => j = k
      BY <1>3 DEF VersionsTell, HasRead
    <2>2. ASSUME NEW j \in Containers, Leaseholder(k)', Leaseholder(j)', pass'[j].ledger.version = pass'[k].ledger.version
          PROVE  j = k
      <3>1. HasRead(j)' /\ pass'[j].pc # "lease"
        BY <2>2 DEF Leaseholder, HasRead
      <3>2. Leaseholder(j) /\ pass'[j].ledger.version = pass[j].ledger.version
        BY <2>2, <3>1 DEF KeepsVersion
      <3>3. QED
        BY <1>3, <2>1, <2>2, <3>2
    <2>3. QED
      BY <1>3, <2>1, <2>2
  <1>4. QED
    BY <1>1, <1>2, <1>3 DEF KeepsVersion

\* A swap makes every other copy an old one.
LEMMA RaisedVersion ==
    ASSUME StateInv, VersionsTell, ledger'.version = ledger.version + 1,
           NEW k \in Containers, \A j \in Containers \ {k} : pass'[j] = pass[j],
           pass'[k] = Idle \/ (At(k, "resolve")' /\ pass'[k].ledger = ledger' /\ ~ledger'.settled)
    PROVE  VersionsTell'
  <1> DEFINE v == ledger.version
  <1>1. v \in Nat
    BY StateTypes, LedgerFacts
  <1>2. ASSUME NEW j \in Containers \ {k}, HasRead(j)'
        PROVE  /\ HasRead(j) /\ pass'[j] = pass[j] /\ pass'[j].ledger.version \in Nat
               /\ pass'[j].ledger.version <= v
    <2>1. HasRead(j) /\ pass'[j] = pass[j]
      BY <1>2 DEF HasRead
    <2>2. QED
      BY <2>1, VersionTypes DEF VersionsTell, HasRead
  <1>3. ASSUME HasRead(k)' PROVE pass'[k].ledger = ledger' /\ ~ledger'.settled
    BY <1>3 DEF HasRead
  <1>4. \A i \in Containers, j \in Containers :
           Leaseholder(i)' /\ Leaseholder(j)' /\ pass'[j].ledger.version = pass'[i].ledger.version => j = i
    <2>1. SUFFICES ASSUME NEW i \in Containers, NEW j \in Containers,
                          Leaseholder(i)', Leaseholder(j)', pass'[j].ledger.version = pass'[i].ledger.version, j # i
                   PROVE  FALSE
      OBVIOUS
    <2>2. HasRead(i)' /\ HasRead(j)'
      BY <2>1 DEF Leaseholder, HasRead
    <2> HIDE DEF v
    <2>3. CASE i = k
      <3>1. pass'[j].ledger.version \in Nat /\ pass'[j].ledger.version <= v
        BY <1>2, <2>1, <2>2, <2>3
      <3>2. pass'[j].ledger.version = v + 1
        BY <1>3, <2>1, <2>2, <2>3 DEF v
      <3>3. QED
        BY <1>1, <3>1, <3>2
    <2>4. CASE j = k
      <3>1. pass'[i].ledger.version \in Nat /\ pass'[i].ledger.version <= v
        BY <1>2, <2>1, <2>2, <2>4
      <3>2. pass'[i].ledger.version = v + 1
        BY <1>3, <2>1, <2>2, <2>4 DEF v
      <3>3. QED
        BY <1>1, <3>1, <3>2
    <2>5. CASE i # k /\ j # k
      <3>1. pass'[i] = pass[i] /\ pass'[j] = pass[j]
        BY <2>5
      <3>2. Leaseholder(i) /\ Leaseholder(j) /\ pass[j].ledger.version = pass[i].ledger.version
        BY <2>1, <3>1 DEF Leaseholder
      <3>3. QED
        BY <2>1, <3>2 DEF VersionsTell, Leaseholder
    <2>6. QED
      BY <2>3, <2>4, <2>5
  <1>5. ASSUME NEW j \in Containers, HasRead(j)'
        PROVE  /\ pass'[j].ledger.version <= ledger'.version
               /\ pass'[j].ledger.version = ledger'.version =>
                     ~ledger'.settled /\ (pass'[j].pc \in {"lease", "resolve"} => pass'[j].ledger = ledger')
    <2>1. CASE j = k
      <3>1. pass'[j].ledger = ledger' /\ ~ledger'.settled
        BY <1>3, <1>5, <2>1
      <3>2. ledger'.version = v + 1 /\ v + 1 \in Nat
        BY <1>1
      <3> HIDE DEF v
      <3>3. QED
        BY <3>1, <3>2
    <2>2. CASE j # k
      <3> DEFINE w == pass'[j].ledger.version
      <3>1. w \in Nat /\ w <= v /\ ledger'.version = v + 1
        BY <1>2, <1>5, <2>2
      <3> HIDE DEF v, w
      <3>2. w <= ledger'.version /\ w # ledger'.version
        BY <1>1, <3>1
      <3>3. QED
        BY <3>2 DEF w
    <2>3. QED
      BY <2>1, <2>2
  <1>6. QED
    BY <1>4, <1>5 DEF VersionsTell, HasRead

LEMMA PassVersions ==
    ASSUME StateInv, VersionsTell, NEW k \in Containers, PassStep(k)
    PROVE  VersionsTell'
  <1>1. OthersStay(k)
    BY PassKinds
  <1>2. \A j \in Containers \ {k} : pass'[j] = pass[j] /\ KeepsVersion(j)
    BY <1>1 DEF OthersStay, KeepsVersion, HasRead, Leaseholder
  <1>3. CASE Prepares(k)
    <2>1. KeepsVersion(k)
      BY <1>3 DEF Prepares, KeepsVersion, HasRead, At
    <2>2. QED
      BY <1>2, <1>3, <2>1, SameVersions DEF Prepares
  <1>4. CASE Leases(k)
    <2>1. At(k, "lease") /\ pass[k].ledger.version = ledger.version /\ ledger' = Leased(pass[k])
      BY <1>4 DEF Leases, Swaps
    <2>2. pass[k] \in Passes /\ LedgerSound(pass[k].ledger) /\ pass[k] # Idle /\ pass[k].pc = "lease"
      BY <2>1, AtFacts
    <2>3. ledger'.version = ledger.version + 1 /\ ledger'.settled = pass[k].ledger.settled
      BY <2>1, <2>2, LeasedFacts
    <2>4. ~pass[k].ledger.settled
      BY <2>1, <2>2 DEF VersionsTell
    <2>5. QED
      BY <1>2, <1>4, <2>3, <2>4, RaisedVersion DEF Leases
  <1>5. CASE Ends(k)
    <2>1. CASE UNCHANGED ledger
      <3>1. KeepsVersion(k)
        BY <1>5 DEF Ends, KeepsVersion, HasRead
      <3>2. QED
        BY <1>2, <2>1, <3>1, SameVersions
    <2>2. CASE Through(k) /\ Swaps(pass[k].ledger.version) /\ ledger' = FinalLedger(pass[k])
      <3>1. pass[k] \in Passes /\ LedgerSound(pass[k].ledger)
        BY <2>2, ThroughMoves
      <3>2. ledger'.version = ledger.version + 1
        BY <2>2, <3>1, FinalFacts DEF Swaps
      <3>3. QED
        BY <1>2, <1>5, <3>2, RaisedVersion DEF Ends
    <2>3. QED
      BY <1>5, <2>1, <2>2 DEF Ends
  <1>6. CASE Resolve(k) /\ UNCHANGED ledger
    <2>1. At(k, "resolve") /\ pass'[k].pc = "chunk" /\ pass'[k].ledger = pass[k].ledger
      BY <1>6, ResolveMoves DEF Resolve
    <2>2. KeepsVersion(k)
      BY <2>1 DEF KeepsVersion, HasRead, Leaseholder, At
    <2>3. QED
      BY <1>2, <1>6, <2>2, SameVersions
  <1>7. CASE StartChunk(k) /\ UNCHANGED ledger
    <2>1. At(k, "chunk") /\ pass'[k].pc = "serve" /\ pass'[k].ledger = pass[k].ledger
      BY <1>7, ChunkMoves DEF StartChunk
    <2>2. KeepsVersion(k)
      BY <2>1 DEF KeepsVersion, HasRead, Leaseholder, At
    <2>3. QED
      BY <1>2, <1>7, <2>2, SameVersions
  <1>8. CASE CollectChunk(k) /\ UNCHANGED ledger
    <2>1. At(k, "serve") /\ pass'[k].pc = "chunk" /\ pass'[k].ledger = Collected(k) /\ ChunkSound(k)
      BY <1>8, CollectMoves
    <2>2. pass'[k].ledger.version = pass[k].ledger.version
      BY <2>1, CollectedFacts
    <2>3. KeepsVersion(k)
      BY <2>1, <2>2 DEF KeepsVersion, HasRead, Leaseholder, At
    <2>4. QED
      BY <1>2, <1>8, <2>3, SameVersions
  <1>9. QED
    BY <1>3, <1>4, <1>5, <1>6, <1>7, <1>8, PassKinds

LEMMA StepVersions == StateInv /\ VersionInv /\ [Next]_vars => VersionInv'
  <1> SUFFICES ASSUME StateInv, VersionInv, [Next]_vars, notice' # "gone" PROVE VersionsTell'
    BY DEF VersionInv
  <1>1. ASSUME NEW k \in Containers, PassStep(k) PROVE VersionsTell'
    <2>1. UNCHANGED notice
      BY <1>1, PassKinds DEF OthersStay
    <2>2. QED
      BY <1>1, <2>1, PassVersions DEF VersionInv
  <1>2. ASSUME UNCHANGED <<pass, ledger>>, notice' # "gone" => notice # "gone" PROVE VersionsTell'
    <2>1. \A k \in Containers : KeepsVersion(k)
      BY <1>2 DEF KeepsVersion, HasRead, Leaseholder
    <2>2. QED
      BY <1>2, <2>1, SameVersions DEF VersionInv
  <1>3. ASSUME NEW k \in Containers, NEW c \in Clients, AttemptStep(k, c) PROVE VersionsTell'
    <2>1. UNCHANGED <<pass, ledger, notice>>
      BY <1>3, AttemptStepState DEF AttemptMove
    <2>2. QED
      BY <1>2, <2>1
  <1>4. ASSUME (\E c \in Clients : EditConfig(c)) \/ Delist \/ Tick \/ UNCHANGED vars PROVE VersionsTell'
    <2>1. UNCHANGED <<pass, ledger>> /\ (notice' # "gone" => notice # "gone")
      BY <1>4 DEF EditConfig, Delist, Tick, vars
    <2>2. QED
      BY <1>2, <2>1
  <1>5. ~Vanish
    BY DEF Vanish
  <1>6. QED
    BY <1>1, <1>3, <1>4, <1>5 DEF Next

LEMMA VersionInvariant == Spec => []VersionInv
  <1>1. Init => VersionInv
    BY DEF Init, VersionInv, VersionsTell
  <1>2. StateInv /\ VersionInv /\ [Next]_vars => VersionInv'
    BY StepVersions, NoticeAssumption
  <1>3. QED
    BY <1>1, <1>2, StateInvariant, PTL DEF Spec

\* A pass that was overtaken cannot open a settled ledger again: its write is
\* refused by the version, since whoever settled the ledger wrote after it
\* (put_remote_config_versioned, called by _process_collision).
THEOREM SettledStays == Spec => SettledIsFinal
  <1>1. ASSUME StateInv, VersionInv, [Next]_vars, ledger.settled, notice # "gone"
        PROVE  ledger' \in {ledger, NoLedger}
    <2>1. ASSUME NEW k \in Containers, PassStep(k) PROVE ledger' = ledger
      <3>1. ASSUME pass[k] # Idle, pass[k].pc # "read", Swaps(pass[k].ledger.version) PROVE FALSE
        BY <1>1, <3>1 DEF VersionInv, VersionsTell, Swaps
      <3>2. ~Leases(k)
        BY <3>1 DEF Leases, At
      <3>3. Ends(k) => UNCHANGED ledger
        BY <3>1 DEF Ends, Through, At
      <3>4. Prepares(k) => UNCHANGED ledger
        BY DEF Prepares
      <3>5. QED
        BY <1>1, <2>1, <3>2, <3>3, <3>4, PassKinds
    <2>2. ASSUME NEW k \in Containers, NEW c \in Clients, AttemptStep(k, c) PROVE ledger' = ledger
      BY <1>1, <2>2, AttemptStepState DEF AttemptMove
    <2>3. ASSUME (\E c \in Clients : EditConfig(c)) \/ Delist \/ Tick \/ UNCHANGED vars PROVE ledger' = ledger
      BY <2>3 DEF EditConfig, Delist, Tick, vars
    <2>4. Vanish => ledger' \in {ledger, NoLedger}
      BY DEF Vanish
    <2>5. QED
      BY <1>1, <2>1, <2>2, <2>3, <2>4 DEF Next
  <1>2. StateInv /\ VersionInv /\ [Next]_vars => [ledger.settled /\ notice # "gone" => ledger' \in {ledger, NoLedger}]_ledger
    BY <1>1, NoticeAssumption
  <1>3. QED
    BY <1>2, StateInvariant, VersionInvariant, PTL DEF Spec, SettledIsFinal
-----------------------------------------------------------------------------
(* A settled notice has been served *)

LEMMA WantsReceives ==
    ASSUME NEW cfg \in Configs, Wants(cfg)
    PROVE  Recipient(cfg)
  <1> DEFINE r == cfg.reminders
             s == cfg.reminders \cap cfg.allowed
  <1>1. r \subseteq Streams /\ s \subseteq r /\ IsFiniteSet(Streams)
    BY NoticeAssumption DEF Configs
  <1>2. cfg.on /\ Cardinality(s) >= 2
    BY DEF Wants
  <1> HIDE DEF r, s
  <1>3. IsFiniteSet(r)
    BY <1>1, FS_Subset
  <1>4. IsFiniteSet(s) /\ Cardinality(s) <= Cardinality(r)
    BY <1>1, <1>3, FS_Subset
  <1>5. Cardinality(s) \in Nat /\ Cardinality(r) \in Nat
    BY <1>3, <1>4, FS_CardinalityType
  <1>6. Cardinality(r) >= 2
    BY <1>2, <1>4, <1>5
  <1>7. QED
    BY <1>2, <1>6 DEF Recipient, r

LEMMA NobodyMissed ==
    ASSUME steady \subseteq Clients
    PROVE  Owed(NoLedger) /\ Owed([NoLedger EXCEPT !.version = 1])
  <1>1. \A c \in steady : c \in Nat /\ c > 0
    BY NoticeAssumption
  <1>2. QED
    BY <1>1 DEF Owed, NoLedger

LEMMA SameOwed ==
    ASSUME NEW l, NEW m, Owed(l), m.work = l.work, m.resolved = l.resolved, m.cursor = l.cursor
    PROVE  Owed(m)
  BY DEF Owed

\* Copies that do not change owe no more than before.
LEMMA OwedLater ==
    ASSUME dealt \subseteq dealt', steady' \subseteq steady
    PROVE  /\ \A l : Owed(l) => (\A c \in steady' : c \in dealt' \/ c \in Open(l.work) \/ (~l.resolved /\ c > l.cursor))
           /\ \A p : OwedByPass(p) =>
                 (\A c \in steady' : c \in dealt' \/ c \in Open(p.ledger.work) \/ c \in p.fresh \cap Open(p.queue))
  BY DEF Owed, OwedByPass

PassOwes(k) == pass[k] # Idle => IF k \in AtWork THEN OwedByPass(pass[k]) ELSE Owed(pass[k].ledger)

LEMMA OwedStays ==
    ASSUME OwedInv, dealt \subseteq dealt', steady' \subseteq steady, NEW k \in Containers, pass'[k] = pass[k]
    PROVE  PassOwes(k)'
  <1>1. PassOwes(k)
    BY DEF OwedInv, PassOwes
  <1>2. CASE pass[k] = Idle
    BY <1>2 DEF PassOwes
  <1>3. CASE pass[k] # Idle /\ k \in AtWork
    <2>1. OwedByPass(pass[k]) /\ k \in AtWork'
      BY <1>1, <1>3 DEF PassOwes, AtWork, At
    <2>2. \A c \in steady' : \/ c \in dealt' \/ c \in Open(pass[k].ledger.work)
                             \/ c \in pass[k].fresh \cap Open(pass[k].queue)
      BY <2>1, OwedLater
    <2>3. OwedByPass(pass[k])'
      BY <2>2 DEF OwedByPass, Open
    <2>4. QED
      BY <2>1, <2>3 DEF PassOwes
  <1>4. CASE pass[k] # Idle /\ k \notin AtWork
    <2>1. Owed(pass[k].ledger) /\ k \notin AtWork'
      BY <1>1, <1>4 DEF PassOwes, AtWork, At
    <2>2. \A c \in steady' : \/ c \in dealt' \/ c \in Open(pass[k].ledger.work)
                             \/ (~pass[k].ledger.resolved /\ c > pass[k].ledger.cursor)
      BY <2>1, OwedLater
    <2>3. Owed(pass[k].ledger)'
      BY <2>2 DEF Owed, Open
    <2>4. QED
      BY <2>1, <2>3 DEF PassOwes
  <1>5. QED
    BY <1>2, <1>3, <1>4

\* The clients that are neither dealt with nor in the ledger are found.
LEMMA ResolveOwes ==
    ASSUME StateInv, OwedInv, NEW k \in Containers, Resolve(k), UNCHANGED <<dealt, steady>>
    PROVE  PassOwes(k)'
  <1> DEFINE p == pass[k]
             q == pass'[k]
             l == p.ledger
  <1>1. /\ q.pc = "chunk" /\ q.ledger = l /\ q.fresh = Found(l) /\ \A c \in q.fresh : c \in Open(q.queue)
    BY ResolveMoves
  <1>2. p # Idle /\ k \notin AtWork
    BY DEF Resolve, AtWork, At
  <1>3. Owed(l) /\ \A c \in steady : Wants(config[c])
    BY <1>2 DEF OwedInv
  <1>4. ASSUME NEW c \in steady, c \notin dealt, c \notin Open(l.work)
        PROVE  c \in q.fresh \cap Open(q.queue)
    <2>1. ~l.resolved /\ c > l.cursor
      BY <1>3, <1>4 DEF Owed
    <2>2. c \in Clients /\ l.work[c] = NoItem
      BY <1>4 DEF Open, StateInv, TypeOK
    <2>3. Recipient(config[c])
      BY <1>3, <2>2, StateTypes, WantsReceives
    <2>4. c \in Found(l)
      BY <2>1, <2>2, <2>3 DEF Found
    <2>5. QED
      BY <1>1, <2>4
  <1>5. \A c \in steady' : c \in dealt' \/ c \in Open(q.ledger.work) \/ c \in q.fresh \cap Open(q.queue)
    BY <1>1, <1>4
  <1> HIDE DEF p, l
  <1>6. OwedByPass(pass[k])'
    BY <1>5 DEF OwedByPass, Open
  <1>7. (k \in AtWork)'
    <2>1. k \in Containers /\ (q # Idle)
      BY ResolveMoves, PassFacts
    <2>2. QED
      BY <1>1, <2>1 DEF AtWork, At
  <1>8. QED
    BY <1>6, <1>7 DEF PassOwes

LEMMA ChunkOwes ==
    ASSUME StateInv, OwedInv, NEW k \in Containers, StartChunk(k), UNCHANGED <<dealt, steady>>
    PROVE  PassOwes(k)'
  <1> DEFINE p == pass[k]
             q == pass'[k]
  <1>1. q \in Passes /\ q.pc = "serve" /\ q.ledger = p.ledger /\ q.fresh = p.fresh /\ q.queue = p.queue
    BY ChunkMoves
  <1>2. p # Idle /\ k \in AtWork
    BY DEF StartChunk, AtWork, At
  <1>3. OwedByPass(p)
    BY <1>2 DEF OwedInv
  <1>4. \A c \in steady' : c \in dealt' \/ c \in Open(q.ledger.work) \/ c \in q.fresh \cap Open(q.queue)
    BY <1>1, <1>3 DEF OwedByPass
  <1> HIDE DEF p
  <1>5. OwedByPass(pass[k])'
    BY <1>4 DEF OwedByPass, Open
  <1>6. (k \in AtWork)'
    BY <1>1, PassFacts DEF AtWork, At
  <1>7. QED
    BY <1>5, <1>6 DEF PassOwes

\* A collected client is open in the ledger, or the pass is through with it.
LEMMA CollectOwes ==
    ASSUME StateInv, OwedInv, NEW k \in Containers, CollectChunk(k), UNCHANGED steady
    PROVE  PassOwes(k)' /\ dealt \subseteq dealt'
  <1> DEFINE p == pass[k]
             q == pass'[k]
             e == Collected(k)
  <1>1. /\ At(k, "serve") /\ ChunkSound(k)
        /\ q \in Passes /\ q.pc = "chunk" /\ q.ledger = e /\ q.fresh = p.fresh
        /\ Open(q.queue) = Open(p.queue) \ p.batch
        /\ dealt' = dealt \cup {c \in p.batch : e.work[c] = NoItem}
    BY CollectMoves
  <1>2. \A c \in Clients \ p.batch : e.work[c] = p.ledger.work[c]
    BY <1>1, CollectedFacts
  <1>3. p # Idle /\ k \in AtWork
    BY <1>1 DEF AtWork, At
  <1>4. OwedByPass(p) /\ steady \subseteq Clients
    BY <1>3 DEF OwedInv, StateInv, TypeOK
  <1> HIDE DEF e
  <1>5. ASSUME NEW c \in steady
        PROVE  c \in dealt' \/ c \in Open(e.work) \/ c \in q.fresh \cap Open(q.queue)
    <2>1. CASE c \in p.batch
      BY <1>1, <1>4, <2>1 DEF Open
    <2>2. CASE c \notin p.batch
      <3>1. c \in dealt \/ c \in Open(p.ledger.work) \/ c \in p.fresh \cap Open(p.queue)
        BY <1>4 DEF OwedByPass
      <3>2. CASE c \in Open(p.ledger.work)
        BY <1>2, <2>2, <3>2 DEF Open
      <3>3. CASE c \in p.fresh \cap Open(p.queue)
        BY <1>1, <2>2, <3>3
      <3>4. QED
        BY <1>1, <3>1, <3>2, <3>3
    <2>3. QED
      BY <2>1, <2>2
  <1>6. \A c \in steady' : c \in dealt' \/ c \in Open(q.ledger.work) \/ c \in q.fresh \cap Open(q.queue)
    BY <1>1, <1>5
  <1>7. dealt \subseteq dealt'
    BY <1>1
  <1>8. (k \in AtWork)'
    BY <1>1, PassFacts DEF AtWork, At
  <1> HIDE DEF p
  <1>9. OwedByPass(pass[k])'
    BY <1>6 DEF OwedByPass, Open
  <1>10. QED
    BY <1>7, <1>8, <1>9 DEF PassOwes

\* The cursor is dropped only when nobody is left to find.
LEMMA FinalOwes ==
    ASSUME StateInv, OwedInv, NEW k \in Containers, Through(k)
    PROVE  Owed(FinalLedger(pass[k]))
  <1> DEFINE p == pass[k]
             f == FinalLedger(p)
  <1>1. At(k, "chunk") /\ p \in Passes /\ PassSound(p) /\ LedgerSound(p.ledger) /\ p.pc = "chunk"
    BY ThroughMoves, AtFacts
  <1>2. /\ f.work = p.ledger.work /\ f.resolved = Resolved(p)
        /\ f.cursor = IF Resolved(p) THEN 0 ELSE p.ledger.cursor
    BY <1>1, FinalFacts
  <1>3. OwedByPass(p) /\ QueueSound(p)
    BY <1>1 DEF OwedInv, AtWork, At, PassSound
  <1> HIDE DEF f
  <1>4. ASSUME NEW c \in steady, c \in p.fresh \cap Open(p.queue)
        PROVE  ~f.resolved /\ c > f.cursor
    <2>1. ~p.ledger.resolved /\ Open(p.queue) # {} /\ c > p.ledger.cursor
      BY <1>3, <1>4 DEF QueueSound
    <2>2. ~Resolved(p)
      BY <2>1 DEF Resolved
    <2>3. QED
      BY <1>2, <2>1, <2>2
  <1>5. QED
    BY <1>2, <1>3, <1>4 DEF OwedByPass, Owed, f

LEMMA PassStepOwes ==
    ASSUME StateInv, OwedInv, NEW k \in Containers, PassStep(k)
    PROVE  OwedInv'
  <1>1. OthersStay(k)
    BY PassKinds
  <1>2. (\A c \in steady : Wants(config[c]))' /\ UNCHANGED <<config, steady>>
    BY <1>1 DEF OthersStay, OwedInv
  <1>3. ASSUME dealt \subseteq dealt', PassOwes(k)', Owed(ledger)' PROVE OwedInv'
    <2>1. \A j \in Containers \ {k} : PassOwes(j)'
      BY <1>1, <1>2, <1>3, OwedStays DEF OthersStay
    <2>2. \A j \in Containers : PassOwes(j)'
      BY <1>3, <2>1
    <2>3. QED
      BY <1>2, <1>3, <2>2 DEF OwedInv, PassOwes
  <1>4. ASSUME UNCHANGED ledger, dealt \subseteq dealt' PROVE Owed(ledger)'
    <2>1. Owed(ledger)
      BY DEF OwedInv
    <2>2. QED
      BY <1>2, <1>4, <2>1 DEF Owed, Open
  <1>5. steady \subseteq Clients /\ UNCHANGED steady
    BY <1>2 DEF StateInv, TypeOK
  <1>6. CASE Prepares(k)
    <2>1. UNCHANGED <<ledger, dealt>> /\ k \notin AtWork'
      BY <1>6 DEF Prepares, AtWork, At, Idle
    <2>2. pass'[k] = Idle \/ pass'[k].ledger = NoLedger \/ pass'[k].ledger = ledger
      BY <1>6 DEF Prepares
    <2>3. Owed(ledger) /\ Owed(NoLedger)
      BY <1>5, NobodyMissed DEF OwedInv
    <2>4. pass'[k] # Idle => Owed(pass'[k].ledger)
      BY <2>2, <2>3
    <2>5. PassOwes(k)'
      BY <1>2, <2>1, <2>4 DEF PassOwes, Owed, Open
    <2>6. QED
      BY <1>3, <1>4, <2>1, <2>5
  <1>7. CASE Leases(k)
    <2>1. At(k, "lease") /\ ledger' = Leased(pass[k]) /\ UNCHANGED dealt
      BY <1>7 DEF Leases
    <2>2. pass[k] \in Passes /\ LedgerSound(pass[k].ledger) /\ k \notin AtWork /\ pass[k] # Idle
      BY <2>1, AtFacts DEF AtWork, At
    <2>3. Owed(pass[k].ledger)
      BY <2>2 DEF OwedInv
    <2>4. Owed(ledger')
      BY <2>1, <2>2, <2>3, LeasedFacts, SameOwed
    <2>5. Owed(ledger)'
      BY <1>2, <2>1, <2>4 DEF Owed, Open
    <2>6. PassOwes(k)'
      BY <1>7, <2>5 DEF Leases, PassOwes, AtWork, At
    <2>7. QED
      BY <1>3, <2>1, <2>5, <2>6
  <1>8. CASE Ends(k)
    <2>1. pass'[k] = Idle /\ UNCHANGED dealt
      BY <1>8 DEF Ends
    <2>2. PassOwes(k)'
      BY <2>1 DEF PassOwes
    <2>3. CASE UNCHANGED ledger
      BY <1>3, <1>4, <2>1, <2>2, <2>3
    <2>4. CASE Through(k) /\ ledger' = FinalLedger(pass[k])
      <3>1. Owed(ledger')
        BY <2>4, FinalOwes
      <3>2. Owed(ledger)'
        BY <1>2, <2>1, <3>1 DEF Owed, Open
      <3>3. QED
        BY <1>3, <2>1, <2>2, <3>2
    <2>5. QED
      BY <1>8, <2>3, <2>4 DEF Ends
  <1>9. CASE (Resolve(k) \/ StartChunk(k)) /\ UNCHANGED <<ledger, dealt>>
    <2>1. PassOwes(k)'
      BY <1>2, <1>9, ResolveOwes, ChunkOwes
    <2>2. QED
      BY <1>3, <1>4, <1>9, <2>1
  <1>10. CASE CollectChunk(k) /\ UNCHANGED ledger
    <2>1. PassOwes(k)' /\ dealt \subseteq dealt'
      BY <1>2, <1>10, CollectOwes
    <2>2. QED
      BY <1>3, <1>4, <1>10, <2>1
  <1>11. QED
    BY <1>6, <1>7, <1>8, <1>9, <1>10, PassKinds

LEMMA StepOwes == StateInv /\ OwedInv /\ [Next]_vars => OwedInv'
  <1> SUFFICES ASSUME StateInv, OwedInv, [Next]_vars PROVE OwedInv'
    OBVIOUS
  <1>1. ASSUME NEW k \in Containers, PassStep(k) PROVE OwedInv'
    BY <1>1, PassStepOwes
  <1>2. ASSUME UNCHANGED <<pass, dealt>>, steady' \subseteq steady, ledger' = ledger \/ ledger' = NoLedger,
               \A c \in steady' : Wants(config'[c])
        PROVE  OwedInv'
    <2>1. \A k \in Containers : PassOwes(k)'
      BY <1>2, OwedStays
    <2>2. Owed(ledger')
      <3>1. Owed(ledger) /\ Owed(NoLedger)
        BY NobodyMissed DEF OwedInv, StateInv, TypeOK
      <3>2. QED
        BY <1>2, <3>1
    <2>3. Owed(ledger)'
      BY <1>2, <2>2 DEF Owed, Open
    <2>4. QED
      BY <1>2, <2>1, <2>3 DEF OwedInv, PassOwes, Wants
  <1>3. ASSUME NEW k \in Containers, NEW c \in Clients, AttemptStep(k, c) PROVE OwedInv'
    <2>1. UNCHANGED <<pass, dealt, ledger, steady, config>>
      BY <1>3, AttemptStepState DEF AttemptMove
    <2>2. QED
      BY <1>2, <2>1 DEF OwedInv
  <1>4. ASSUME NEW c \in Clients, EditConfig(c) PROVE OwedInv'
    <2>1. /\ UNCHANGED <<pass, dealt, ledger>> /\ steady' = steady \ {c}
          /\ \E edit \in Edits : config' = [config EXCEPT ![c] = edit[2]]
      BY <1>4 DEF EditConfig
    <2>2. \A d \in steady' : config'[d] = config[d]
      BY <2>1, StateTypes DEF StateInv, TypeOK
    <2>3. \A d \in steady' : Wants(config'[d])
      BY <2>1, <2>2 DEF OwedInv
    <2>4. QED
      BY <1>2, <2>1, <2>3
  <1>5. ASSUME Delist \/ Vanish \/ Tick \/ UNCHANGED vars PROVE OwedInv'
    <2>1. UNCHANGED <<pass, dealt, steady, config>> /\ (ledger' = ledger \/ ledger' = NoLedger)
      BY <1>5 DEF Delist, Vanish, Tick, vars
    <2>2. QED
      BY <1>2, <2>1 DEF OwedInv
  <1>6. QED
    BY <1>1, <1>3, <1>4, <1>5 DEF Next

LEMMA InitOwes == Init => OwedInv
  <1> SUFFICES ASSUME Init PROVE OwedInv
    OBVIOUS
  <1>1. steady \subseteq Clients /\ (\A k \in Containers : pass[k] = Idle) /\ \A c \in steady : Wants(config[c])
    BY DEF Init
  <1>2. Owed(ledger)
    BY <1>1, NobodyMissed DEF Init
  <1>3. QED
    BY <1>1, <1>2 DEF OwedInv

\* Cursor, chunks, retries, failed and overtaken passes skip nobody: when the
\* ledger is settled, some pass was through with every client who wanted the
\* notice all the time (_process_collision and
\* _resolve_recipients of simultaneous_dispatcher.py).
THEOREM SettledServed == Spec => []SettledMeansServed
  <1>1. Init => OwedInv
    BY InitOwes, NoticeAssumption
  <1>2. StateInv /\ OwedInv /\ [Next]_vars => OwedInv'
    BY StepOwes, NoticeAssumption
  <1>3. StateInv /\ OwedInv => SettledMeansServed
    BY DEF StateInv, LedgerSound, OwedInv, Owed, SettledMeansServed
  <1>4. QED
    BY <1>1, <1>2, <1>3, StateInvariant, PTL DEF Spec
-----------------------------------------------------------------------------
(* Attempts are bounded *)

LEMMA RecordedType ==
    ASSUME NEW l, LedgerSound(l), NEW c \in Clients
    PROVE  Recorded(l, c) \in Nat /\ Recorded(l, c) <= MaxAttempts
  <1>1. MaxAttempts \in Nat /\ l.work \in Works
    BY LedgerFacts, NoticeAssumption DEF LedgerSound
  <1>2. CASE c \in Open(l.work)
    <2>1. l.work[c] \in Items /\ l.work[c].attempts < MaxAttempts
      BY <1>1, <1>2, OpenFacts DEF LedgerSound
    <2> DEFINE a == l.work[c].attempts
    <2>2. a \in Nat /\ a < MaxAttempts /\ Recorded(l, c) = a
      BY <1>2, <2>1, ItemFacts DEF Recorded
    <2> HIDE DEF a
    <2>3. QED
      BY <1>1, <2>2
  <1>3. CASE c \notin Open(l.work)
    <2>1. Recorded(l, c) = MaxAttempts \/ Recorded(l, c) = 0
      BY <1>3 DEF Recorded
    <2>2. 0 <= MaxAttempts /\ MaxAttempts <= MaxAttempts
      BY <1>1
    <2>3. QED
      BY <1>1, <2>1, <2>2
  <1>4. QED
    BY <1>2, <1>3

\* A client in the queue has the attempts the ledger of the pass tells of.
LEMMA QueuedAttempts ==
    ASSUME NEW p \in Passes, QueueSound(p), NEW c \in Open(p.queue)
    PROVE  p.queue[c].attempts = Recorded(p.ledger, c)
  <1>1. c \in Clients /\ p.queue[c] # NoItem
    BY DEF Open
  <1>2. CASE c \in p.fresh
    <2>1. p.queue[c].attempts = 0 /\ p.ledger.work[c] = NoItem /\ c > p.ledger.cursor /\ ~p.ledger.resolved
      BY <1>2 DEF QueueSound
    <2>2. ~(c <= p.ledger.cursor)
      <3>1. c \in Nat /\ p.ledger.cursor \in Nat
        BY <1>1, PassFacts, LedgerFacts, NoticeAssumption, ClientNumbers
      <3>2. QED
        BY <2>1, <3>1
    <2>3. c \notin Open(p.ledger.work)
      BY <2>1 DEF Open
    <2>4. QED
      BY <2>1, <2>2, <2>3 DEF Recorded
  <1>3. CASE c \notin p.fresh
    <2>1. p.queue[c] = p.ledger.work[c]
      BY <1>3 DEF QueueSound
    <2>2. c \in Open(p.ledger.work)
      BY <1>1, <2>1 DEF Open
    <2>3. QED
      BY <2>1, <2>2 DEF Recorded
  <1>4. QED
    BY <1>2, <1>3

LEMMA WorkingFacts ==
    ASSUME StateInv, NEW k \in AtWork
    PROVE  /\ k \in Containers /\ pass[k] # Idle /\ pass[k].pc \in {"chunk", "serve"}
           /\ pass[k] \in Passes /\ PassSound(pass[k]) /\ QueueSound(pass[k]) /\ LedgerSound(pass[k].ledger)
           /\ pass[k].batch \subseteq Open(pass[k].queue) /\ Open(pass[k].queue) \subseteq Clients
           /\ pass[k].pc = "chunk" => pass[k].batch = {}
  <1>1. k \in Containers /\ pass[k] # Idle /\ pass[k].pc \in {"chunk", "serve"}
    BY DEF AtWork, At
  <1>2. pass[k] \in Passes /\ PassSound(pass[k]) /\ LedgerSound(pass[k].ledger)
    BY <1>1, BusyFacts
  <1>3. QueueSound(pass[k])
    BY <1>1, <1>2 DEF PassSound
  <1>4. pass[k].batch \subseteq Open(pass[k].queue) /\ Open(pass[k].queue) \subseteq Clients
    BY <1>3 DEF QueueSound, Open
  <1>5. pass[k].pc = "chunk" => pass[k].batch = {}
    BY <1>2 DEF PassSound
  <1>6. QED
    BY <1>1, <1>2, <1>3, <1>4, <1>5

\* A client outside the chunk costs what the ledger of the pass tells.
LEMMA UsedRecorded ==
    ASSUME StateInv, NEW k \in AtWork, NEW c \in Clients, c \notin pass[k].batch
    PROVE  Used(k, c) = Recorded(pass[k].ledger, c)
  <1>1. pass[k] \in Passes /\ QueueSound(pass[k])
    BY WorkingFacts
  <1>2. QED
    BY <1>1, QueuedAttempts DEF Used

LEMMA UsedType ==
    ASSUME StateInv, NEW k \in AtWork, NEW c \in Clients
    PROVE  Used(k, c) \in Nat /\ Used(k, c) <= MaxAttempts
  <1>1. k \in Containers /\ pass[k] # Idle /\ LedgerSound(pass[k].ledger) /\ (pass[k].pc = "chunk" => pass[k].batch = {})
        /\ pass[k].pc \in {"chunk", "serve"}
    BY WorkingFacts
  <1>2. CASE c \in pass[k].batch
    <2>1. At(k, "serve")
      BY <1>1, <1>2 DEF At
    <2>2. task[k][c] \in Tasks /\ task[k][c].item.attempts < MaxAttempts
      BY <1>1, <1>2, <2>1, Zenon DEF StateInv, TasksSound
    <2>3. QED
      BY <1>2, <2>2, SpentFacts DEF Used
  <1>3. CASE c \notin pass[k].batch
    BY <1>1, <1>3, UsedRecorded, RecordedType
  <1>4. QED
    BY <1>2, <1>3

LEMMA CountsGrow ==
    ASSUME NEW S, IsFiniteSet(S), NEW T \in SUBSET S
    PROVE  IsFiniteSet(T) /\ Cardinality(T) \in Nat /\ Cardinality(S) \in Nat /\ Cardinality(T) <= Cardinality(S)
  <1>1. IsFiniteSet(T) /\ Cardinality(T) <= Cardinality(S)
    BY FS_Subset
  <1>2. QED
    BY <1>1, FS_CardinalityType

LEMMA OthersTries ==
    ASSUME NEW j \in Containers, NEW c \in Clients, pass'[j] = pass[j], task'[j][c] = task[j][c]
    PROVE  /\ (j \in AtWork)' <=> (j \in AtWork)
           /\ (j \in MayHaveTried(c))' <=> (j \in MayHaveTried(c))
           /\ Used(j, c)' = Used(j, c)
  <1>1. (j \in AtWork)' <=> (j \in AtWork)
    BY DEF AtWork, At
  <1>2. (j \in MayHaveTried(c))' <=> (j \in MayHaveTried(c))
    BY <1>1 DEF MayHaveTried, Open
  <1>3. Used(j, c)' = Used(j, c)
    BY DEF Used, Spent, Recorded, Open
  <1>4. QED
    BY <1>1, <1>2, <1>3

\* A step of one container that pushes nothing: it may come to count among
\* those that tried, and what it used does not shrink.
LEMMA QuietTries ==
    ASSUME StateInv, NEW c \in Clients, TriesTold(c), NEW k \in Containers,
           \A j \in Containers \ {k} : pass'[j] = pass[j] /\ task'[j][c] = task[j][c],
           tried'[c] = tried[c], lost' = lost, Recorded(ledger', c) = Recorded(ledger, c),
           k \in MayHaveTried(c) => (k \in MayHaveTried(c))',
           \A j \in AtWork \ {k} : pass[j].ledger.version = ledger'.version => pass[j].ledger.version = ledger.version,
           (k \in AtWork)' /\ pass'[k].ledger.version = ledger'.version =>
              /\ Used(k, c)' \in Nat
              /\ \/ k \in AtWork /\ pass[k].ledger.version = ledger.version /\ Used(k, c) <= Used(k, c)'
                 \/ k \notin MayHaveTried(c) /\ Recorded(ledger, c) <= Used(k, c)'
    PROVE  TriesTold(c)'
  <1> DEFINE M == MayHaveTried(c)
             N == MayHaveTried(c)'
             t == tried[c]
             r == Recorded(ledger, c)
  <1>1. M \subseteq Containers /\ N \subseteq Containers /\ IsFiniteSet(Containers)
    BY NoticeAssumption DEF MayHaveTried, AtWork
  <1>2. t \in Nat /\ lost \in Nat /\ r \in Nat
    BY RecordedType, StateTypes DEF StateInv, TypeOK
  <1>3. t <= r + lost + Cardinality(M)
    BY DEF TriesTold
  <1>4. M \subseteq N
    <2>1. ASSUME NEW j \in M, j # k PROVE j \in N
      <3>1. j \in Containers
        BY <1>1
      <3>2. QED
        BY <2>1, <3>1, OthersTries
    <2>2. QED
      BY <2>1
  <1>5. \A j : M \ {j} \subseteq N \ {j} /\ IsFiniteSet(N \ {j}) /\ IsFiniteSet(N)
    <2>1. IsFiniteSet(N)
      BY <1>1, CountsGrow
    <2>2. \A j : N \ {j} \in SUBSET N
      OBVIOUS
    <2> HIDE DEF M, N
    <2>3. QED
      BY <1>4, <2>1, <2>2, CountsGrow
  <1>6. tried'[c] <= Recorded(ledger', c) + lost' + Cardinality(N)
    <2> HIDE DEF M, N, t, r
    <2>1. Cardinality(M) \in Nat /\ Cardinality(N) \in Nat /\ Cardinality(M) <= Cardinality(N)
      BY <1>4, <1>5, CountsGrow
    <2>2. t <= r + lost + Cardinality(N)
      BY <1>2, <1>3, <2>1
    <2>3. QED
      BY <2>2 DEF t, r
  <1>7. ASSUME NEW j \in Containers, (j \in AtWork)', pass'[j].ledger.version = ledger'.version
        PROVE  tried'[c] <= Used(j, c)' + lost' + Cardinality(N \ {j})
    <2>1. /\ Cardinality(M \ {j}) \in Nat /\ Cardinality(N \ {j}) \in Nat
          /\ Cardinality(M \ {j}) <= Cardinality(N \ {j})
      <3> DEFINE S == N \ {j}
                 T == M \ {j}
      <3>1. IsFiniteSet(S) /\ T \in SUBSET S
        BY <1>5
      <3> HIDE DEF S, T
      <3>2. Cardinality(T) \in Nat /\ Cardinality(S) \in Nat /\ Cardinality(T) <= Cardinality(S)
        BY <3>1, CountsGrow
      <3>3. QED
        BY <3>2 DEF S, T
    <2> DEFINE u == Used(j, c)
               v == Used(j, c)'
    <2>2. CASE j \in AtWork /\ pass[j].ledger.version = ledger.version /\ v \in Nat /\ u <= v
      <3>1. t <= u + lost + Cardinality(M \ {j}) /\ u \in Nat
        BY <2>2, UsedType DEF TriesTold
      <3> HIDE DEF M, N, t, u, v
      <3>2. t <= v + lost + Cardinality(N \ {j})
        BY <1>2, <2>1, <2>2, <3>1
      <3>3. QED
        BY <3>2 DEF t, v
    <2>3. CASE j = k /\ k \notin M /\ r <= v /\ v \in Nat
      <3>1. M \ {j} = M
        BY <2>3
      <3> DEFINE m == Cardinality(M)
                 n == Cardinality(N \ {j})
      <3>2. m \in Nat /\ n \in Nat /\ m <= n
        BY <2>1, <3>1
      <3>3. t <= r + lost + m /\ r <= v /\ v \in Nat
        BY <1>3, <2>3
      <3> HIDE DEF M, N, t, r, v, m, n
      <3>4. t <= v + lost + n
        BY <1>2, <3>2, <3>3
      <3>5. QED
        BY <3>4 DEF t, v, n
    <2>4. CASE j # k
      <3>1. pass'[j] = pass[j] /\ j \in AtWork /\ v = u
        BY <1>7, <2>4, OthersTries
      <3>2. pass[j].ledger.version = ledger.version
        BY <1>7, <2>4, <3>1
      <3>3. u \in Nat
        BY <3>1, UsedType
      <3> HIDE DEF u, v
      <3>4. u <= v /\ v \in Nat
        BY <3>1, <3>3
      <3>5. QED
        BY <2>2, <3>1, <3>2, <3>4
    <2>5. CASE j = k
      BY <1>7, <2>2, <2>3, <2>5
    <2>6. QED
      BY <2>4, <2>5
  <1>8. (\A j \in AtWork : pass[j].ledger.version = ledger.version =>
             tried[c] <= Used(j, c) + lost + Cardinality(MayHaveTried(c) \ {j}))'
    <2>1. \A j : (j \in AtWork)' => j \in Containers
      BY DEF AtWork
    <2>2. QED
      BY <1>7, <2>1
  <1>9. QED
    BY <1>6, <1>8 DEF TriesTold, Recorded
LEMMA OneMore == \A a, b, c, d \in Nat : a <= b + c + d => a + 1 <= b + c + (d + 1)
  OBVIOUS

\* What an attempt uses of a client's attempts, before and after its step.
LEMMA AttemptUses ==
    ASSUME StateInv, NEW k \in Containers, NEW c \in Clients, NEW t, AttemptMove(k, c, t)
    PROVE  /\ k \in AtWork /\ (k \in AtWork)'
           /\ Used(k, c) = Spent(task[k][c]) /\ Used(k, c)' = Spent(t) /\ Spent(t) \in Nat
           /\ (k \in MayHaveTried(c)) <=> task[k][c].pc \notin Early
           /\ (k \in MayHaveTried(c))' <=> t.pc \notin Early
  <1>1. /\ Attempting(k, c) /\ pass' = pass /\ task'[k][c] = t
        /\ t \in Tasks /\ t.item.attempts < MaxAttempts
    BY OthersSame DEF AttemptMove
  <1>2. At(k, "serve") /\ c \in pass[k].batch /\ k \in AtWork
    BY <1>1 DEF Attempting, AtWork
  <1>3. (k \in AtWork)'
    BY <1>1, <1>2 DEF AtWork, At
  <1>4. c \in Open(pass[k].queue)
    BY <1>2, WorkingFacts
  <1>5. Used(k, c) = Spent(task[k][c])
    BY <1>2 DEF Used
  <1>6. Used(k, c)' = Spent(t)
    BY <1>1, <1>2 DEF Used, Spent
  <1>7. (k \in MayHaveTried(c)) <=> task[k][c].pc \notin Early
    BY <1>2, <1>4 DEF MayHaveTried
  <1>8. (k \in MayHaveTried(c))' <=> t.pc \notin Early
    <2>1. /\ pass'[k] = pass[k] /\ Open(pass'[k].queue) = Open(pass[k].queue)
      BY <1>1
    <2>2. (k \in MayHaveTried(c))' <=>
             (k \in AtWork)' /\ (c \in Open(pass'[k].queue) => c \in pass'[k].batch /\ task'[k][c].pc \notin Early)
      BY DEF MayHaveTried, Open
    <2>3. QED
      BY <1>1, <1>2, <1>3, <1>4, <2>1, <2>2
  <1>9. Spent(t) \in Nat
    BY <1>1, SpentFacts
  <1>10. QED
    BY <1>2, <1>3, <1>5, <1>6, <1>7, <1>8, <1>9

LEMMA AttemptTries ==
    ASSUME StateInv, NEW k \in Containers, NEW c \in Clients, NEW t, AttemptMove(k, c, t),
           NEW e \in Clients, TriesTold(e)
    PROVE  TriesTold(e)'
  <1>1. /\ pass' = pass /\ ledger' = ledger /\ lost' = lost
        /\ \A j \in Containers, d \in Clients : (j # k \/ d # c) => task'[j][d] = task[j][d]
        /\ \/ tried' = tried /\ Counts(task[k][c], t, 0)
           \/ /\ tried' = [tried EXCEPT ![c] = @ + 1] /\ Counts(task[k][c], t, 1)
              /\ task[k][c].pc \in Early /\ t.pc \notin Early
    BY OthersSame DEF AttemptMove
  <1>2. /\ k \in AtWork /\ (k \in AtWork)'
        /\ Used(k, c) = Spent(task[k][c]) /\ Used(k, c)' = Spent(t) /\ Spent(t) \in Nat
        /\ (k \in MayHaveTried(c)) <=> task[k][c].pc \notin Early
        /\ (k \in MayHaveTried(c))' <=> t.pc \notin Early
    BY AttemptUses
  <1>3. tried \in [Clients -> Nat] /\ lost \in Nat /\ LedgerSound(ledger)
    BY DEF StateInv, TypeOK
  <1>4. /\ \A j \in Containers \ {k} : pass'[j] = pass[j] /\ task'[j][e] = task[j][e]
        /\ Recorded(ledger', e) = Recorded(ledger, e)
    BY <1>1
  <1>5. Used(k, c) \in Nat
    BY <1>2, UsedType
  <1>6. CASE e # c
    <2>1. task'[k][e] = task[k][e] /\ pass'[k] = pass[k] /\ tried'[e] = tried[e]
      BY <1>1, <1>3, <1>6
    <2>2. Used(k, e)' = Used(k, e) /\ ((k \in MayHaveTried(e))' <=> (k \in MayHaveTried(e)))
      BY <2>1, OthersTries
    <2>3. Used(k, e) \in Nat /\ Used(k, e) <= Used(k, e)'
      <3> DEFINE u == Used(k, e)
      <3>1. u \in Nat /\ Used(k, e)' = u
        BY <1>2, <2>2, UsedType
      <3> HIDE DEF u
      <3>2. u <= u
        BY <3>1
      <3>3. QED
        BY <3>1, <3>2 DEF u
    <2>4. QED
      BY <1>1, <1>2, <1>4, <2>1, <2>2, <2>3, QuietTries
  <1>7. CASE e = c /\ tried' = tried /\ Counts(task[k][c], t, 0)
    <2>1. Spent(task[k][c]) + 0 <= Spent(t) /\ (t.pc \in Early => task[k][c].pc \in Early)
      BY <1>7 DEF Counts
    <2>2. Used(k, c) <= Used(k, c)' /\ Used(k, c)' \in Nat
      BY <1>2, <1>5, <2>1
    <2>3. (k \in MayHaveTried(c)) => (k \in MayHaveTried(c))'
      BY <1>2, <2>1
    <2>4. QED
      BY <1>1, <1>2, <1>4, <1>7, <2>2, <2>3, QuietTries
  <1>8. CASE /\ e = c /\ tried' = [tried EXCEPT ![c] = @ + 1] /\ Counts(task[k][c], t, 1)
             /\ task[k][c].pc \in Early /\ t.pc \notin Early
    <2> DEFINE M == MayHaveTried(c)
               N == MayHaveTried(c)'
               n == tried[c]
               r == Recorded(ledger, c)
    <2>1. k \notin M /\ k \in N
      BY <1>2, <1>8
    <2>2. \A j \in Containers \ {k} : (j \in N <=> j \in M) /\ Used(j, c)' = Used(j, c) /\ ((j \in AtWork)' <=> (j \in AtWork))
      BY <1>4, <1>8, OthersTries
    <2>3. M \subseteq Containers /\ N \subseteq Containers /\ IsFiniteSet(Containers)
      BY NoticeAssumption DEF MayHaveTried, AtWork
    <2>4. N = M \cup {k} /\ IsFiniteSet(M)
      BY <2>1, <2>2, <2>3, CountsGrow
    <2>5. n \in Nat /\ r \in Nat /\ tried'[c] = n + 1 /\ n <= r + lost + Cardinality(M)
      BY <1>3, <1>8, RecordedType DEF TriesTold
    <2>6. tried'[c] <= Recorded(ledger', c) + lost' + Cardinality(N)
      <3> HIDE DEF M, N
      <3>1. Cardinality(M) \in Nat /\ Cardinality(N) = Cardinality(M) + 1
        BY <2>1, <2>4, FS_CardinalityType, FS_AddElement
      <3> DEFINE m == Cardinality(M)
      <3>2. m \in Nat /\ Cardinality(N) = m + 1 /\ n <= r + lost + m
        BY <2>5, <3>1
      <3> HIDE DEF n, r, m
      <3>3. n + 1 <= r + lost + (m + 1)
        BY <1>3, <2>5, <3>2, OneMore
      <3>4. QED
        BY <1>1, <1>4, <1>8, <2>5, <3>2, <3>3 DEF r
    <2>7. ASSUME NEW j \in Containers, (j \in AtWork)', pass'[j].ledger.version = ledger'.version
          PROVE  tried'[c] <= Used(j, c)' + lost' + Cardinality(N \ {j})
      <3>1. pass[j].ledger.version = ledger.version
        BY <1>1, <2>7
      <3>2. CASE j = k
        <4> DEFINE u == Used(k, c)
                   v == Used(k, c)'
        <4>1. n <= u + lost + Cardinality(M \ {k})
          BY <1>2, <1>8, <3>1, <3>2 DEF TriesTold
        <4>2. u \in Nat /\ v \in Nat /\ u + 1 <= v
          BY <1>2, <1>5, <1>8 DEF Counts
        <4>3. N \ {k} = M \ {k} /\ IsFiniteSet(M \ {k})
          <5>1. M \ {k} \in SUBSET M
            OBVIOUS
          <5> HIDE DEF M, N
          <5>2. QED
            BY <2>1, <2>4, <5>1, CountsGrow
        <4> DEFINE m == Cardinality(M \ {k})
        <4>4. m \in Nat
          BY <4>3, FS_CardinalityType
        <4>5. n <= u + lost + m
          BY <4>1
        <4> HIDE DEF M, N, n, u, v, m
        <4>6. n + 1 <= v + lost + m
          BY <1>3, <2>5, <4>2, <4>4, <4>5
        <4>7. Cardinality(N \ {k}) = m
          BY <4>3 DEF m
        <4>8. QED
          BY <1>1, <2>5, <3>2, <4>6, <4>7 DEF v
      <3>3. CASE j # k
        <4> DEFINE u == Used(j, c)
                   P == M \ {j}
                   m == Cardinality(P)
        <4>1. j \in AtWork /\ Used(j, c)' = u
          BY <2>2, <2>7, <3>3
        <4>2. n <= u + lost + m /\ u \in Nat
          BY <1>8, <3>1, <4>1, UsedType DEF TriesTold
        <4>3. N \ {j} = P \cup {k} /\ k \notin P /\ P \in SUBSET M
          BY <2>1, <2>4, <3>3
        <4> HIDE DEF M, N, P
        <4>4. IsFiniteSet(P) /\ m \in Nat /\ Cardinality(N \ {j}) = m + 1
          BY <2>4, <4>3, CountsGrow, FS_CardinalityType, FS_AddElement
        <4> HIDE DEF n, u, m
        <4>5. n + 1 <= u + lost + (m + 1)
          <5>1. n \in Nat /\ lost \in Nat /\ u \in Nat /\ m \in Nat /\ n <= u + lost + m
            BY <1>3, <2>5, <4>2, <4>4
          <5>2. QED
            BY <5>1, OneMore
        <4>6. QED
          BY <1>1, <2>5, <4>1, <4>4, <4>5
      <3>4. QED
        BY <3>2, <3>3
    <2>8. (\A j \in AtWork : pass[j].ledger.version = ledger.version =>
             tried[c] <= Used(j, c) + lost + Cardinality(MayHaveTried(c) \ {j}))'
      <3>1. \A j : (j \in AtWork)' => j \in Containers
        BY DEF AtWork
      <3>2. QED
        BY <2>7, <3>1
    <2>9. TriesTold(c)'
      BY <2>6, <2>8 DEF TriesTold, Recorded
    <2>10. QED
      BY <1>8, <2>9
  <1>9. QED
    BY <1>1, <1>6, <1>7, <1>8
\* A pass comes to work, or stays at it, with what its own ledger tells.
LEMMA ResolveTries ==
    ASSUME StateInv, VersionsTell, NEW k \in Containers, Resolve(k),
           OthersStay(k), UNCHANGED <<ledger, lost>>, NEW c \in Clients, TriesTold(c)
    PROVE  TriesTold(c)'
  <1> DEFINE p == pass[k]
             q == pass'[k]
  <1>1. /\ q \in Passes /\ PassSound(q) /\ q.pc = "chunk" /\ q.ledger = p.ledger /\ q.batch = {}
    BY ResolveMoves
  <1>2. At(k, "resolve") /\ p # Idle /\ p.pc = "resolve" /\ k \notin AtWork
    BY DEF Resolve, AtWork, At
  <1>3. k \notin MayHaveTried(c)
    BY <1>2 DEF MayHaveTried
  <1>4. Used(k, c)' = Recorded(p.ledger, c)
    <2>1. QueueSound(q)
      BY <1>1 DEF PassSound
    <2>2. c \in Open(q.queue) => q.queue[c].attempts = Recorded(p.ledger, c)
      BY <1>1, <2>1, QueuedAttempts
    <2>3. Used(k, c)' = IF c \in Open(q.queue) THEN q.queue[c].attempts ELSE Recorded(p.ledger, c)
      BY <1>1 DEF Used, Open, Recorded
    <2>4. QED
      BY <2>2, <2>3
  <1>5. Recorded(ledger, c) \in Nat
    BY StateTypes, RecordedType
  <1>6. ASSUME pass'[k].ledger.version = ledger'.version
        PROVE  Used(k, c)' \in Nat /\ Recorded(ledger, c) <= Used(k, c)'
    <2>1. p.ledger = ledger
      BY <1>1, <1>2, <1>6 DEF VersionsTell
    <2> DEFINE r == Recorded(ledger, c)
    <2>2. Used(k, c)' = r /\ r \in Nat
      BY <1>4, <1>5, <2>1
    <2> HIDE DEF r
    <2>3. r <= r
      BY <2>2
    <2>4. QED
      BY <2>2, <2>3 DEF r
  <1>7. \A j \in Containers \ {k} : pass'[j] = pass[j] /\ task'[j][c] = task[j][c]
    BY DEF OthersStay
  <1>8. tried'[c] = tried[c] /\ Recorded(ledger', c) = Recorded(ledger, c)
    BY DEF OthersStay
  <1> HIDE DEF p, q
  <1>9. QED
    BY <1>3, <1>6, <1>7, <1>8, QuietTries

LEMMA ChunkTries ==
    ASSUME StateInv, NEW k \in Containers, StartChunk(k),
           OthersStay(k), UNCHANGED <<ledger, lost>>, NEW c \in Clients, TriesTold(c)
    PROVE  TriesTold(c)'
  <1> DEFINE p == pass[k]
             q == pass'[k]
  <1>1. /\ q \in Passes /\ q.pc = "serve" /\ q.ledger = p.ledger /\ q.queue = p.queue /\ PassSound(q)
        /\ \A d \in q.batch : task'[k][d].pc = "look" /\ task'[k][d].item = p.queue[d]
    BY ChunkMoves
  <1>2. At(k, "chunk") /\ p.pc = "chunk" /\ k \in AtWork
    BY DEF StartChunk, AtWork, At
  <1>3. p.batch = {} /\ p \in Passes /\ QueueSound(p) /\ q.batch \subseteq Open(p.queue)
    BY <1>1, <1>2, WorkingFacts DEF PassSound, QueueSound
  <1>4. (k \in MayHaveTried(c)) => (k \in MayHaveTried(c))'
    <2>1. (k \in MayHaveTried(c)) => c \notin Open(p.queue)
      BY <1>3 DEF MayHaveTried
    <2>2. (k \in AtWork)'
      BY <1>1, PassFacts DEF AtWork, At
    <2>3. c \notin Open(p.queue) => (k \in MayHaveTried(c))'
      BY <1>1, <2>2 DEF MayHaveTried, Open
    <2>4. QED
      BY <2>1, <2>3
  <1>5. Used(k, c)' = Used(k, c)
    <2>1. CASE c \in q.batch
      <3>1. Used(k, c) = p.queue[c].attempts
        BY <1>3, <2>1 DEF Used
      <3>2. Used(k, c)' = task'[k][c].item.attempts
        BY <1>1, <2>1 DEF Used, Spent, Early
      <3>3. QED
        BY <1>1, <2>1, <3>1, <3>2
    <2>2. CASE c \notin q.batch
      BY <1>1, <1>3, <2>2 DEF Used, Open, Recorded
    <2>3. QED
      BY <2>1, <2>2
  <1>6. Used(k, c)' \in Nat /\ Used(k, c) <= Used(k, c)'
    <2> DEFINE u == Used(k, c)
    <2>1. u \in Nat /\ Used(k, c)' = u
      BY <1>2, <1>5, UsedType
    <2> HIDE DEF u
    <2>2. u <= u
      BY <2>1
    <2>3. QED
      BY <2>1, <2>2 DEF u
  <1>7. \A j \in Containers \ {k} : pass'[j] = pass[j] /\ task'[j][c] = task[j][c]
    BY DEF OthersStay
  <1>8. /\ tried'[c] = tried[c] /\ Recorded(ledger', c) = Recorded(ledger, c)
        /\ pass'[k].ledger.version = ledger'.version => pass[k].ledger.version = ledger.version
    BY <1>1 DEF OthersStay
  <1> HIDE DEF p, q
  <1>9. QED
    BY <1>2, <1>4, <1>6, <1>7, <1>8, QuietTries

\* The outcomes entered tell at least what the attempts used.
LEMMA CollectUses ==
    ASSUME StateInv, NEW k \in Containers, CollectChunk(k), NEW c \in Clients
    PROVE  k \in AtWork /\ Used(k, c)' \in Nat /\ Used(k, c) <= Used(k, c)'
  <1> DEFINE p == pass[k]
             q == pass'[k]
             e == Collected(k)
             l == p.ledger
             t == task[k][c]
  <1>1. /\ At(k, "serve") /\ ChunkSound(k)
        /\ \A d \in p.batch : task[k][d].pc = "done"
        /\ q \in Passes /\ PassSound(q) /\ q.pc = "chunk" /\ q.ledger = e /\ q.batch = {}
        /\ \A d \in Clients : q.queue[d] = IF d \in p.batch THEN NoItem ELSE p.queue[d]
        /\ Open(q.queue) = Open(p.queue) \ p.batch
    BY CollectMoves
  <1>2. /\ LedgerSound(e) /\ e.resolved = l.resolved /\ l.cursor <= e.cursor
        /\ \A d \in p.fresh \cap p.batch : d <= e.cursor
        /\ \A d \in Clients \ p.batch : e.work[d] = l.work[d]
        /\ \A d \in p.batch : e.work[d] = NoItem \/ (task[k][d].kind = "again" /\ e.work[d] = task[k][d].item)
    BY <1>1, CollectedFacts
  <1>3. k \in AtWork
    BY <1>1 DEF AtWork
  <1>4. p \in Passes /\ QueueSound(p) /\ LedgerSound(l)
    BY <1>3, WorkingFacts
  <1>5. Used(k, c) \in Nat /\ Used(k, c) <= MaxAttempts /\ Recorded(e, c) \in Nat /\ Recorded(l, c) \in Nat
        /\ Recorded(l, c) <= MaxAttempts /\ MaxAttempts \in Nat
    BY <1>2, <1>3, <1>4, UsedType, RecordedType, NoticeAssumption
  <1>6. c \in Nat /\ l.cursor \in Nat /\ e.cursor \in Nat
    BY <1>2, <1>4, LedgerFacts, ClientNumbers DEF LedgerSound
  <1> DEFINE u == Used(k, c)
  <1>7. CASE c \in p.batch
    <2>1. Used(k, c)' = Recorded(e, c)
      <3>1. c \notin Open(q.queue)
        BY <1>1, <1>7
      <3>2. QED
        BY <1>1, <3>1 DEF Used, Open, Recorded
    <2>2. CASE e.work[c] # NoItem
      <3>1. t.kind = "again" /\ e.work[c] = t.item /\ t.pc = "done"
        BY <1>1, <1>2, <1>7, <2>2
      <3>2. u = t.item.attempts
        BY <1>7, <3>1 DEF Used, Spent
      <3>3. Recorded(e, c) = u
        BY <2>2, <3>1, <3>2 DEF Recorded, Open
      <3> HIDE DEF u
      <3>4. u \in Nat /\ u <= u
        BY <1>5 DEF u
      <3>5. QED
        BY <1>3, <2>1, <3>3, <3>4 DEF u
    <2>3. CASE e.work[c] = NoItem
      <3>1. e.resolved \/ c <= e.cursor
        <4>1. CASE c \in p.fresh
          BY <1>2, <1>7, <4>1
        <4>2. CASE c \notin p.fresh
          <5>1. c \in Open(p.queue) /\ p.queue[c] = l.work[c]
            BY <1>4, <1>7, <4>2 DEF QueueSound
          <5>2. c \in Open(l.work)
            BY <5>1 DEF Open
          <5>3. l.resolved \/ c <= l.cursor
            BY <1>4, <5>2 DEF LedgerSound
          <5>4. c <= l.cursor => c <= e.cursor
            <6> DEFINE a == l.cursor
                       b == e.cursor
            <6>1. a \in Nat /\ b \in Nat /\ a <= b /\ c \in Nat
              BY <1>2, <1>6
            <6> HIDE DEF a, b
            <6>2. c <= a => c <= b
              BY <6>1
            <6>3. QED
              BY <6>2 DEF a, b
          <5>5. QED
            BY <1>2, <5>3, <5>4
        <4>3. QED
          BY <4>1, <4>2
      <3>2. Recorded(e, c) = MaxAttempts
        BY <2>3, <3>1 DEF Recorded, Open
      <3>3. QED
        BY <1>3, <1>5, <2>1, <3>2
    <2>4. QED
      BY <2>2, <2>3
  <1>8. CASE c \notin p.batch
    <2>1. Used(k, c)' = IF c \in Open(p.queue) THEN p.queue[c].attempts ELSE Recorded(e, c)
      BY <1>1, <1>8 DEF Used, Open, Recorded
    <2>2. u = IF c \in Open(p.queue) THEN p.queue[c].attempts ELSE Recorded(l, c)
      BY <1>8 DEF Used
    <2>3. Recorded(l, c) <= Recorded(e, c)
      <3>1. e.work[c] = l.work[c]
        BY <1>2, <1>8
      <3>2. CASE c \in Open(l.work)
        <4> DEFINE a == l.work[c].attempts
        <4>1. Recorded(l, c) = a /\ Recorded(e, c) = a
          BY <3>1, <3>2 DEF Recorded, Open
        <4>2. a \in Nat
          BY <1>5, <4>1
        <4> HIDE DEF a
        <4>3. QED
          BY <4>1, <4>2
      <3>3. CASE c \notin Open(l.work)
        <4>1. c \notin Open(e.work)
          BY <3>1, <3>3 DEF Open
        <4>2. CASE l.resolved \/ c <= l.cursor
          <5>1. e.resolved \/ c <= e.cursor
            <6> DEFINE a == l.cursor
                       b == e.cursor
            <6>1. a \in Nat /\ b \in Nat /\ a <= b /\ c \in Nat /\ e.resolved = l.resolved
              BY <1>2, <1>6
            <6>2. l.resolved \/ c <= a
              BY <4>2
            <6> HIDE DEF a, b
            <6>3. c <= a => c <= b
              BY <6>1
            <6>4. e.resolved \/ c <= b
              BY <6>1, <6>2, <6>3
            <6>5. QED
              BY <6>4 DEF b
          <5>2. Recorded(e, c) = MaxAttempts
            BY <4>1, <5>1 DEF Recorded
          <5>3. QED
            BY <1>5, <5>2
        <4>3. CASE ~(l.resolved \/ c <= l.cursor)
          <5>1. Recorded(l, c) = 0
            BY <3>3, <4>3 DEF Recorded
          <5>2. QED
            BY <1>5, <5>1
        <4>4. QED
          BY <4>2, <4>3
      <3>4. QED
        BY <3>2, <3>3
    <2>4. CASE c \in Open(p.queue)
      <3>1. Used(k, c)' = u
        BY <2>1, <2>2, <2>4
      <3> HIDE DEF u
      <3>2. u \in Nat /\ u <= u
        BY <1>5 DEF u
      <3>3. QED
        BY <1>3, <3>1, <3>2 DEF u
    <2>5. CASE c \notin Open(p.queue)
      <3>1. Used(k, c)' = Recorded(e, c) /\ u = Recorded(l, c)
        BY <2>1, <2>2, <2>5
      <3>2. QED
        BY <1>3, <1>5, <2>3, <3>1
    <2>6. QED
      BY <2>4, <2>5
  <1>9. QED
    BY <1>7, <1>8

LEMMA CollectTries ==
    ASSUME StateInv, NEW k \in Containers, CollectChunk(k),
           OthersStay(k), UNCHANGED <<ledger, lost>>, NEW c \in Clients, TriesTold(c)
    PROVE  TriesTold(c)'
  <1> DEFINE p == pass[k]
             q == pass'[k]
  <1>1. /\ ChunkSound(k) /\ q \in Passes /\ q.pc = "chunk" /\ q.ledger = Collected(k)
        /\ Open(q.queue) = Open(p.queue) \ p.batch
    BY CollectMoves
  <1>2. q.ledger.version = p.ledger.version
    BY <1>1, CollectedFacts
  <1>3. k \in AtWork /\ Used(k, c)' \in Nat /\ Used(k, c) <= Used(k, c)'
    BY CollectUses
  <1>4. (k \in MayHaveTried(c)) => (k \in MayHaveTried(c))'
    <2>1. (k \in MayHaveTried(c)) => c \notin Open(q.queue)
      BY <1>1 DEF MayHaveTried
    <2>2. (k \in AtWork)'
      BY <1>1, PassFacts DEF AtWork, At
    <2>3. c \notin Open(q.queue) => (k \in MayHaveTried(c))'
      BY <2>2 DEF MayHaveTried, Open
    <2>4. QED
      BY <2>1, <2>3
  <1>5. \A j \in Containers \ {k} : pass'[j] = pass[j] /\ task'[j][c] = task[j][c]
    BY DEF OthersStay
  <1>6. /\ tried'[c] = tried[c] /\ Recorded(ledger', c) = Recorded(ledger, c)
        /\ pass'[k].ledger.version = ledger'.version => pass[k].ledger.version = ledger.version
    BY <1>2 DEF OthersStay
  <1> HIDE DEF p, q
  <1>7. QED
    BY <1>3, <1>4, <1>5, <1>6, QuietTries
LEMMA OneLost ==
    \A n, u, l, m, s \in Nat : n <= u + l + m /\ m <= s + 1 => n <= u + (l + 1) + s
  OBVIOUS

LEMMA PreparesTries ==
    ASSUME StateInv, NEW k \in Containers, Prepares(k), OthersStay(k),
           NEW c \in Clients, TriesTold(c)
    PROVE  TriesTold(c)'
  <1>1. k \notin AtWork /\ k \notin MayHaveTried(c)
    BY DEF Prepares, AtWork, At, MayHaveTried
  <1>2. ~(k \in AtWork)'
    BY DEF Prepares, AtWork, At
  <1>3. /\ \A j \in Containers \ {k} : pass'[j] = pass[j] /\ task'[j][c] = task[j][c]
        /\ tried'[c] = tried[c] /\ lost' = lost /\ ledger' = ledger
    BY DEF OthersStay, Prepares
  <1>4. QED
    BY <1>1, <1>2, <1>3, QuietTries

\* A lease makes every pass at work an overtaken one.
LEMMA LeasesTries ==
    ASSUME StateInv, VersionsTell, NEW k \in Containers, Leases(k), OthersStay(k),
           NEW c \in Clients, TriesTold(c)
    PROVE  TriesTold(c)'
  <1>1. At(k, "lease") /\ pass[k].ledger.version = ledger.version /\ ledger' = Leased(pass[k]) /\ lost' = lost
    BY DEF Leases, Swaps
  <1>2. pass[k] \in Passes /\ LedgerSound(pass[k].ledger) /\ pass[k] # Idle /\ pass[k].pc = "lease"
    BY <1>1, AtFacts
  <1>3. pass[k].ledger = ledger
    BY <1>1, <1>2 DEF VersionsTell
  <1>4. /\ ledger'.version = ledger.version + 1
        /\ ledger'.resolved = ledger.resolved /\ ledger'.cursor = ledger.cursor /\ ledger'.work = ledger.work
    BY <1>1, <1>2, <1>3, LeasedFacts
  <1>5. Recorded(ledger', c) = Recorded(ledger, c)
    BY <1>4 DEF Recorded
  <1>6. k \notin AtWork /\ k \notin MayHaveTried(c) /\ ~(k \in AtWork)'
    BY <1>1 DEF Leases, AtWork, At, MayHaveTried
  <1>7. ASSUME NEW j \in AtWork \ {k}, pass[j].ledger.version = ledger'.version PROVE FALSE
    <2> DEFINE v == ledger.version
               w == pass[j].ledger.version
    <2>1. j \in Containers /\ pass[j] # Idle /\ pass[j].pc # "read"
      BY DEF AtWork, At
    <2>2. w <= v /\ v \in Nat /\ w \in Nat
      BY <2>1, VersionTypes DEF VersionsTell
    <2>3. w = v + 1
      BY <1>4, <1>7
    <2> HIDE DEF v, w
    <2>4. QED
      BY <2>2, <2>3
  <1>8. /\ \A j \in Containers \ {k} : pass'[j] = pass[j] /\ task'[j][c] = task[j][c]
        /\ tried'[c] = tried[c]
    BY DEF OthersStay
  <1>9. QED
    BY <1>1, <1>5, <1>6, <1>7, <1>8, QuietTries

\* A pass that ends takes itself out of those that tried: what it used is
\* recorded, or it is counted among the lost ones.
LEMMA EndsTries ==
    ASSUME StateInv, VersionsTell, NEW k \in Containers, Ends(k), OthersStay(k),
           NEW c \in Clients, TriesTold(c)
    PROVE  TriesTold(c)'
  <1> DEFINE M == MayHaveTried(c)
             N == MayHaveTried(c)'
             n == tried[c]
             r == Recorded(ledger, c)
  <1>1. pass[k] # Idle /\ pass'[k] = Idle /\ tried'[c] = tried[c]
    BY DEF Ends, OthersStay
  <1>2. \A j \in Containers \ {k} : /\ pass'[j] = pass[j] /\ (j \in N <=> j \in M)
                                    /\ Used(j, c)' = Used(j, c) /\ ((j \in AtWork)' <=> (j \in AtWork))
    BY OthersTries DEF OthersStay
  <1>3. M \subseteq Containers /\ N \subseteq Containers /\ IsFiniteSet(Containers)
    BY NoticeAssumption DEF MayHaveTried, AtWork
  <1>4. ~(k \in AtWork)' /\ k \notin N
    BY <1>1 DEF MayHaveTried, AtWork, At
  <1>5. N = M \ {k} /\ IsFiniteSet(M)
    BY <1>2, <1>3, <1>4, CountsGrow
  <1>6. n \in Nat /\ lost \in Nat /\ r \in Nat /\ n <= r + lost + Cardinality(M)
    BY StateTypes, RecordedType DEF TriesTold, StateInv, TypeOK
  <1>7. \A S \in SUBSET M : /\ IsFiniteSet(S) /\ Cardinality(S) \in Nat /\ Cardinality(S \ {k}) \in Nat
                            /\ Cardinality(S) <= Cardinality(S \ {k}) + 1
    <2> HIDE DEF M, N
    <2>1. SUFFICES ASSUME NEW S \in SUBSET M
                   PROVE  /\ IsFiniteSet(S) /\ Cardinality(S) \in Nat /\ Cardinality(S \ {k}) \in Nat
                          /\ Cardinality(S) <= Cardinality(S \ {k}) + 1
      OBVIOUS
    <2> DEFINE T == S \ {k}
    <2>2. IsFiniteSet(S) /\ T \in SUBSET S
      BY <1>5, <2>1, CountsGrow
    <2>3. k \notin T /\ (S = T \/ S = T \cup {k})
      OBVIOUS
    <2> HIDE DEF T
    <2>4. IsFiniteSet(T) /\ Cardinality(T) \in Nat /\ Cardinality(S) \in Nat
      BY <2>2, CountsGrow
    <2>5. Cardinality(S) = Cardinality(T) \/ Cardinality(S) = Cardinality(T) + 1
      BY <2>3, <2>4, FS_AddElement
    <2>6. Cardinality(S) <= Cardinality(T) + 1
      BY <2>4, <2>5
    <2>7. QED
      BY <2>2, <2>4, <2>6 DEF T
  <1>8. \A j : (j \in AtWork)' => j \in Containers \ {k}
    BY <1>4 DEF AtWork
  <1>9. CASE ledger' = ledger /\ lost' = lost + 1
    <2>1. Recorded(ledger, c)' = r
      BY <1>9 DEF Recorded, Open
    <2>2. n <= r + (lost + 1) + Cardinality(N)
      <3> DEFINE m == Cardinality(M)
                 s == Cardinality(N)
      <3>1. m \in Nat /\ s \in Nat /\ m <= s + 1 /\ n <= r + lost + m
        BY <1>5, <1>6, <1>7
      <3>2. n \in Nat /\ r \in Nat /\ lost \in Nat
        BY <1>6
      <3> HIDE DEF m, s, n, r
      <3>3. n <= r + (lost + 1) + s
        BY <3>1, <3>2, OneLost
      <3>4. QED
        BY <3>3 DEF s
    <2>3. ASSUME NEW j \in Containers \ {k}, (j \in AtWork)', pass'[j].ledger.version = ledger'.version
          PROVE  n <= Used(j, c)' + (lost + 1) + Cardinality(N \ {j})
      <3> DEFINE u == Used(j, c)
                 P == M \ {j}
      <3>1. j \in AtWork /\ Used(j, c)' = u /\ pass[j].ledger.version = ledger.version
        BY <1>2, <1>9, <2>3
      <3>2. n <= u + lost + Cardinality(P) /\ u \in Nat
        BY <3>1, UsedType DEF TriesTold
      <3>3. N \ {j} = P \ {k} /\ P \in SUBSET M
        BY <1>5
      <3> DEFINE m == Cardinality(P)
                 s == Cardinality(P \ {k})
      <3> HIDE DEF P, M, N
      <3>4. m \in Nat /\ s \in Nat /\ m <= s + 1 /\ n <= u + lost + m
        BY <1>7, <3>2, <3>3
      <3>5. Cardinality(N \ {j}) = s
        BY <3>3
      <3> HIDE DEF n, u, m, s
      <3>6. n <= u + (lost + 1) + s
        <4>1. n \in Nat /\ u \in Nat /\ lost \in Nat /\ m \in Nat /\ s \in Nat /\ m <= s + 1 /\ n <= u + lost + m
          BY <1>6, <3>2, <3>4 DEF n
        <4>2. QED
          BY <4>1, OneLost
      <3>7. QED
        BY <3>1, <3>5, <3>6
    <2>4. tried'[c] <= (Recorded(ledger, c) + lost + Cardinality(MayHaveTried(c)))'
      BY <1>1, <1>9, <2>1, <2>2
    <2>5. (\A j \in AtWork : pass[j].ledger.version = ledger.version =>
             tried[c] <= Used(j, c) + lost + Cardinality(MayHaveTried(c) \ {j}))'
      BY <1>1, <1>8, <1>9, <2>3
    <2>6. QED
      BY <2>4, <2>5 DEF TriesTold
  <1>10. CASE Through(k) /\ Swaps(pass[k].ledger.version) /\ ledger' = FinalLedger(pass[k]) /\ lost' = lost
    <2> DEFINE p == pass[k]
    <2>1. k \in AtWork /\ p.ledger.version = ledger.version /\ p \in Passes /\ LedgerSound(p.ledger)
          /\ p.batch = {} /\ p.pc = "chunk"
      BY <1>10, ThroughMoves DEF AtWork, Swaps, At, PassSound
    <2>2. /\ LedgerSound(ledger') /\ ledger'.version = ledger.version + 1
          /\ ledger'.work = p.ledger.work /\ ledger'.resolved = Resolved(p)
          /\ ledger'.cursor = IF Resolved(p) THEN 0 ELSE p.ledger.cursor
      BY <1>10, <2>1, FinalFacts
    <2>3. n <= Used(k, c) + lost + Cardinality(N)
      BY <1>5, <2>1 DEF TriesTold
    <2>4. Used(k, c) = Recorded(p.ledger, c)
      BY <2>1, UsedRecorded
    <2>5. Recorded(p.ledger, c) <= Recorded(ledger', c) /\ Recorded(ledger', c) \in Nat /\ Recorded(p.ledger, c) \in Nat
      <3>1. /\ Recorded(ledger', c) \in Nat /\ Recorded(p.ledger, c) \in Nat
            /\ Recorded(p.ledger, c) <= MaxAttempts /\ MaxAttempts \in Nat
        BY <2>1, <2>2, RecordedType, NoticeAssumption
      <3> DEFINE a == Recorded(p.ledger, c)
      <3>2. Recorded(ledger', c) = a \/ Recorded(ledger', c) = MaxAttempts
        <4>1. CASE c \in Open(p.ledger.work)
          BY <2>2, <4>1 DEF Recorded
        <4>2. CASE c \notin Open(p.ledger.work) /\ Resolved(p)
          BY <2>2, <4>2 DEF Recorded
        <4>3. CASE c \notin Open(p.ledger.work) /\ ~Resolved(p)
          <5>1. ledger'.resolved = FALSE /\ p.ledger.resolved = FALSE /\ ledger'.cursor = p.ledger.cursor
            BY <2>1, <2>2, <4>3, PassFacts, LedgerFacts DEF Resolved
          <5>2. QED
            BY <2>2, <4>3, <5>1 DEF Recorded
        <4>4. QED
          BY <4>1, <4>2, <4>3
      <3> HIDE DEF a
      <3>3. a \in Nat /\ a <= MaxAttempts /\ a <= a
        BY <3>1 DEF a
      <3>4. QED
        BY <3>1, <3>2, <3>3 DEF a
    <2>6. n <= Recorded(ledger', c) + lost + Cardinality(N)
      <3> DEFINE a == Recorded(p.ledger, c)
                 b == Recorded(ledger', c)
                 s == Cardinality(N)
      <3>1. n <= a + lost + s /\ a <= b /\ a \in Nat /\ b \in Nat /\ n \in Nat /\ lost \in Nat
        BY <1>6, <2>3, <2>4, <2>5
      <3>2. s \in Nat
        BY <1>5, <1>7
      <3> HIDE DEF n, a, b, s
      <3>3. n <= b + lost + s
        BY <3>1, <3>2
      <3>4. QED
        BY <3>3 DEF b, s
    <2>7. ASSUME NEW j \in Containers \ {k}, (j \in AtWork)', pass'[j].ledger.version = ledger'.version
          PROVE  FALSE
      <3> DEFINE v == ledger.version
                 w == pass[j].ledger.version
      <3>1. j \in AtWork /\ pass'[j] = pass[j]
        BY <1>2, <2>7
      <3>2. j \in Containers /\ pass[j] # Idle /\ pass[j].pc # "read"
        BY <3>1 DEF AtWork, At
      <3>3. w <= v /\ v \in Nat /\ w \in Nat
        BY <3>2, VersionTypes DEF VersionsTell
      <3>4. w = v + 1
        BY <2>2, <2>7, <3>1
      <3> HIDE DEF v, w
      <3>5. QED
        BY <3>3, <3>4
    <2>8. tried'[c] <= (Recorded(ledger, c) + lost + Cardinality(MayHaveTried(c)))'
      <3>1. Recorded(ledger, c)' = Recorded(ledger', c)
        BY DEF Recorded, Open
      <3>2. QED
        BY <1>1, <1>10, <2>6, <3>1
    <2>9. (\A j \in AtWork : pass[j].ledger.version = ledger.version =>
             tried[c] <= Used(j, c) + lost + Cardinality(MayHaveTried(c) \ {j}))'
      BY <1>8, <2>7
    <2>10. QED
      BY <2>8, <2>9 DEF TriesTold
  <1>11. QED
    BY <1>9, <1>10 DEF Ends

LEMMA PassTries ==
    ASSUME StateInv, VersionsTell, NEW k \in Containers, PassStep(k),
           NEW c \in Clients, TriesTold(c)
    PROVE  TriesTold(c)'
  BY PassKinds, PreparesTries, LeasesTries, EndsTries, ResolveTries, ChunkTries, CollectTries

LEMMA StepTries == StateInv /\ VersionInv /\ TriedInv /\ [Next]_vars => TriedInv'
  <1> SUFFICES ASSUME StateInv, VersionInv, TriedInv, [Next]_vars, notice' # "gone",
                      NEW c \in Clients
               PROVE  TriesTold(c)'
    BY DEF TriedInv
  <1>1. ASSUME NEW k \in Containers, PassStep(k) PROVE TriesTold(c)'
    <2>1. UNCHANGED notice
      BY <1>1, PassKinds DEF OthersStay
    <2>2. QED
      BY <1>1, <2>1, PassTries DEF VersionInv, TriedInv
  <1>2. ASSUME NEW k \in Containers, NEW d \in Clients, AttemptStep(k, d) PROVE TriesTold(c)'
    <2>1. PICK t : AttemptMove(k, d, t)
      BY <1>2, AttemptStepState
    <2>2. TriesTold(c)
      BY <2>1 DEF AttemptMove, TriedInv
    <2>3. QED
      BY <2>1, <2>2, AttemptTries
  <1>3. ASSUME (\E d \in Clients : EditConfig(d)) \/ Delist \/ Tick \/ UNCHANGED vars PROVE TriesTold(c)'
    <2>1. UNCHANGED <<pass, ledger, task, tried, lost>> /\ (notice' # "gone" => notice # "gone")
      BY <1>3 DEF EditConfig, Delist, Tick, vars, pushVars
    <2>2. TriesTold(c)
      BY <2>1 DEF TriedInv
    <2>3. /\ AtWork' = AtWork /\ MayHaveTried(c)' = MayHaveTried(c)
          /\ Recorded(ledger, c)' = Recorded(ledger, c)
          /\ \A k \in Containers : Used(k, c)' = Used(k, c)
      BY <2>1 DEF AtWork, At, MayHaveTried, Recorded, Used, Spent, Open
    <2>4. \A k \in AtWork : k \in Containers
      BY DEF AtWork
    <2>5. QED
      BY <2>1, <2>2, <2>3, <2>4 DEF TriesTold
  <1>4. ~Vanish
    BY DEF Vanish
  <1>5. QED
    BY <1>1, <1>2, <1>3, <1>4 DEF Next

LEMMA InitTries == Init => TriedInv
  <1> SUFFICES ASSUME Init, NEW c \in Clients PROVE TriesTold(c)
    BY DEF TriedInv
  <1>1. AtWork = {} /\ tried[c] = 0 /\ lost = 0
    BY DEF Init, AtWork, At
  <1>2. MayHaveTried(c) = {}
    BY <1>1 DEF MayHaveTried
  <1>3. LedgerSound(ledger)
    BY NoLedgerSound DEF Init
  <1>4. Recorded(ledger, c) \in Nat /\ Cardinality({}) = 0
    BY <1>3, RecordedType, FS_EmptySet
  <1>5. tried[c] <= Recorded(ledger, c) + lost + Cardinality(MayHaveTried(c))
    BY <1>1, <1>2, <1>4
  <1>6. QED
    BY <1>1, <1>5 DEF TriesTold

LEMMA TriedInvariant == Spec => []TriedInv
  <1>1. Init => TriedInv
    BY InitTries, NoticeAssumption
  <1>2. StateInv /\ VersionInv /\ TriedInv /\ [Next]_vars => TriedInv'
    BY StepTries, NoticeAssumption
  <1>3. QED
    BY <1>1, <1>2, StateInvariant, VersionInvariant, PTL DEF Spec

\* "At most MAX_ATTEMPTS in total" (docstring of simultaneous_dispatcher.py), for
\* any number of overlapping passes: the count in the ledger, in the pass that
\* holds the lease and in its running attempts never falls behind by more than
\* one for each pass whose progress is lost, or bound to be.
THEOREM AttemptsAreBounded == Spec => []AttemptsBounded
  <1>1. ASSUME StateInv, VersionInv, TriedInv, notice # "gone", NEW c \in Clients
        PROVE  tried[c] <= MaxAttempts + lost + Cardinality(Overtaken)
    <2> DEFINE M == MayHaveTried(c)
               O == Overtaken
               t == tried[c]
    <2>1. TriesTold(c) /\ VersionsTell
      BY <1>1 DEF TriedInv, VersionInv
    <2>2. IsFiniteSet(Containers) /\ O \subseteq Containers /\ M \subseteq AtWork /\ AtWork \subseteq Containers
      BY <1>1, NoticeAssumption DEF Overtaken, MayHaveTried, AtWork
    <2>3. IsFiniteSet(O)
      BY <2>2, CountsGrow
    <2>4. t \in Nat /\ lost \in Nat /\ MaxAttempts \in Nat
      BY <1>1, StateTypes, NoticeAssumption DEF StateInv, TypeOK
    <2>5. \A j \in AtWork : pass[j].ledger.version # ledger.version => j \in O
      BY DEF AtWork, Overtaken
    <2>6. ASSUME NEW u \in Nat, u <= MaxAttempts, NEW S \in SUBSET O, t <= u + lost + Cardinality(S)
          PROVE  t <= MaxAttempts + lost + Cardinality(O)
      <3> DEFINE s == Cardinality(S)
                 o == Cardinality(O)
      <3> HIDE DEF O, M
      <3>1. s \in Nat /\ o \in Nat /\ s <= o
        BY <2>3, <2>6, CountsGrow
      <3>2. t <= u + lost + s
        BY <2>6
      <3> HIDE DEF t, s, o
      <3>3. t <= MaxAttempts + lost + o
        BY <2>4, <2>6, <3>1, <3>2
      <3>4. QED
        BY <3>3 DEF o
    <2>7. CASE \E k \in AtWork : pass[k].ledger.version = ledger.version
      <3>1. PICK k \in AtWork : pass[k].ledger.version = ledger.version
        BY <2>7
      <3>2. ASSUME NEW j \in M \ {k} PROVE j \in O
        <4>1. j \in AtWork /\ j # k /\ j \in Containers /\ k \in Containers
          BY <2>2
        <4>2. Leaseholder(j) /\ Leaseholder(k)
          BY <3>1, <4>1 DEF AtWork, At, Leaseholder
        <4>3. pass[j].ledger.version # ledger.version
          BY <2>1, <3>1, <4>1, <4>2 DEF VersionsTell, Leaseholder
        <4>4. QED
          BY <2>5, <4>1, <4>3
      <3>3. t <= Used(k, c) + lost + Cardinality(M \ {k})
        BY <2>1, <3>1 DEF TriesTold
      <3>4. Used(k, c) \in Nat /\ Used(k, c) <= MaxAttempts
        BY <1>1, UsedType
      <3>5. M \ {k} \in SUBSET O
        BY <3>2
      <3> HIDE DEF M, O, t
      <3>6. QED
        BY <2>6, <3>3, <3>4, <3>5 DEF O, t
    <2>8. CASE ~\E k \in AtWork : pass[k].ledger.version = ledger.version
      <3>1. M \in SUBSET O
        BY <2>2, <2>5, <2>8
      <3>2. t <= Recorded(ledger, c) + lost + Cardinality(M)
        BY <2>1 DEF TriesTold
      <3>3. Recorded(ledger, c) \in Nat /\ Recorded(ledger, c) <= MaxAttempts
        BY <1>1, StateTypes, RecordedType
      <3> HIDE DEF M, O, t
      <3>4. QED
        BY <2>6, <3>1, <3>2, <3>3 DEF O, t
    <2>9. QED
      BY <2>7, <2>8
  <1>2. StateInv /\ VersionInv /\ TriedInv => AttemptsBounded
    BY <1>1, NoticeAssumption DEF AttemptsBounded, StateInv
  <1>3. QED
    BY <1>2, StateInvariant, VersionInvariant, TriedInvariant, PTL
=============================================================================
