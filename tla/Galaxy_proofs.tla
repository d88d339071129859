---------------------------- MODULE Galaxy_proofs ----------------------------
(* Proofs about Galaxy: the keys of the planet-epochs, and that the inventories *)
(* the clients see, the planets in memory and the research under way keep up   *)
(* with the records while the world moves on.                                  *)
EXTENDS Galaxy, FiniteSums, SequenceTheorems

(* Numbers and their digits.                                                   *)

LEMMA QuotientSmaller ==
  ASSUME NEW b \in Nat \ {0, 1}, NEW n \in Nat, n >= b
  PROVE  n \div b \in Nat /\ n \div b < n /\ n \div b >= 1
  OBVIOUS

LEMMA QuotientAndRest ==
  ASSUME NEW b \in Nat \ {0, 1}, NEW n \in Nat
  PROVE  n % b \in Nat /\ n = b * (n \div b) + (n % b)
  OBVIOUS

LEMMA SameQuotientAndRest ==
  ASSUME NEW b \in Nat \ {0, 1}, NEW m \in Nat, NEW n \in Nat,
         m \div b = n \div b, m % b = n % b
  PROVE  m = n
  BY QuotientAndRest

\* What Digits is of n, given what g is of the smaller numbers.
Step(g, n) == IF n < Base THEN <<n>> ELSE Append(g[n \div Base], n % Base)

\* f writes the numbers up to n as Digits should.
Spells(f, n) == f = [k \in 0..n |-> Step(f, k)]

\* The handlers that work on a planet, from the first request to the listing.
PlanetPhases == {"genes", "deploy", "extinct", "reload"}

Phases == {"idle", "load", "epoch", "sample", "write", "show"} \cup PlanetPhases

Handling == phase \notin {"idle", "load"}

JobFields == {"conn", "command", "slot", "planet", "epoch", "entry", "genes", "ordered"}

\* The server listens, is starting, or has nothing.
ProcessOK ==
    /\ phase = "load" <=> process = "loading"
    /\ phase # "idle" => process # "down"
    /\ process # "listening" => conns = {}
    /\ Handling => job.conn \in conns
    /\ job.ordered \in 0..epoch
    /\ phase = "load" => job.epoch \in 1..epoch
    /\ DOMAIN job = JobFields

\* What a handler's local variables hold when its next request reads them.
JobOK ==
    /\ phase = "epoch" /\ job.command = "RESEARCH" =>
          /\ job.planet \in Identifiers /\ job.slot \in Slots
          /\ job.entry.name \in Names
          /\ job.entry.pointer.name \in Names \cup {NoName}
    /\ phase = "sample" =>
          /\ job.slot \in Slots
          /\ job.entry.name \in Names /\ job.entry.pointer.key \in Keys
    /\ phase = "write" => job.slot \in Slots /\ job.entry \in Entries \cup {Absent}
    /\ phase \in PlanetPhases =>
          /\ job.planet \in Nat /\ job.epoch \in Nat
          /\ job.entry.name \in Names /\ job.genes \in {"some", "none"}

\* The planets are of an epoch the world has been in.
LoadedOK == \A p \in Planets : mEpoch[p] \in 0..epoch

\* Only the session whose write is being read back may differ from the record.
SyncOK ==
    \A c \in synced :
        \/ phase = "show" /\ c = job.conn
        \/ shown[c] = inv[user[c]]
        \/ refusals > 0 /\ shown[c] = NoEntries

\* A research about to be written was given an epoch since it was ordered.
ResearchOK ==
    phase = "write" /\ job.entry # Absent /\ job.entry.type = "Research" =>
        /\ job.entry.done = job.entry.started + RESEARCH_EPOCHS
        /\ job.entry.started <= epoch
        /\ refusals = 0 => job.entry.started >= job.ordered

GalaxyInv == TypeOK /\ ProcessOK /\ JobOK /\ LoadedOK /\ SyncOK /\ ResearchOK

\* A planet in memory lists what is on record for the epoch it was loaded in, but
\* for those led astray, and the one that an interaction may have changed and is
\* about to list again.
ListingOK ==
    \A p \in Planets : mEpoch[p] # 0 =>
        \/ p \in astray
        \/ mSpecies[p] = Listing(Key(p, mEpoch[p]))
        \/ refusals > 0 /\ mSpecies[p] = {}
        \/ phase = "reload" /\ p = job.planet

LEMMA EqualAppends ==
  \A s, t \in Seq(Nat) : \A a, b \in Nat : Append(s, a) = Append(t, b) => s = t /\ a = b
  BY AppendInjective

LEMMA BaseType == Base \in Nat \ {0, 1}
  BY ChronosAssumption

LEMMA StepLocal ==
  ASSUME NEW n \in Nat, NEW f, NEW g, \A k \in 0..(n - 1) : f[k] = g[k]
  PROVE  Step(f, n) = Step(g, n)
<1>1. Base \in Nat \ {0, 1}
  BY ChronosAssumption
<1>2. CASE n < Base
  BY <1>2 DEF Step
<1>3. CASE n >= Base
  <2>1. n \div Base \in 0..(n - 1)
    BY <1>1, <1>3, QuotientSmaller
  <2>2. QED
    BY <1>1, <1>3, <2>1 DEF Step
<1>4. QED
  BY <1>1, <1>2, <1>3

LEMMA SpellingsAgree ==
  ASSUME NEW m \in Nat, NEW n \in Nat, NEW f, NEW g, Spells(f, m), Spells(g, n)
  PROVE  \A k \in Nat : k <= m /\ k <= n => f[k] = g[k]
<1> DEFINE T == {k \in Nat : k <= m /\ k <= n => f[k] = g[k]}
<1>1. ASSUME NEW k \in Nat, \A i \in 0..(k - 1) : i \in T PROVE k \in T
  <2>1. SUFFICES ASSUME k <= m, k <= n PROVE f[k] = g[k]
    OBVIOUS
  <2>2. \A i \in 0..(k - 1) : f[i] = g[i]
    BY <1>1, <2>1
  <2>3. Step(f, k) = Step(g, k)
    BY <2>2, StepLocal
  <2>4. k \in 0..m /\ k \in 0..n
    BY <2>1
  <2>5. f[k] = Step(f, k)
    BY <2>4 DEF Spells
  <2>6. g[k] = Step(g, k)
    BY <2>4 DEF Spells
  <2>7. QED
    BY <2>3, <2>5, <2>6
<1> HIDE DEF T
<1>2. T \in SUBSET Nat
  BY DEF T
<1>3. T = Nat
  BY <1>1, <1>2, BySmallest
<1>4. QED
  BY <1>3 DEF T

LEMMA SpellingsExist == \A n \in Nat : \E f : Spells(f, n)
<1> DEFINE T == {n \in Nat : \E f : Spells(f, n)}
<1>1. ASSUME NEW n \in Nat, \A i \in 0..(n - 1) : i \in T PROVE n \in T
  <2>1. CASE n = 0
    <3> DEFINE f == [k \in 0..n |-> <<k>>]
    <3>1. Spells(f, n)
      <4>1. \A k \in 0..n : k = 0 /\ k < Base
        BY <2>1, ChronosAssumption
      <4>2. \A k \in 0..n : Step(f, k) = <<k>>
        BY <4>1 DEF Step
      <4>3. QED
        BY <4>2 DEF Spells
    <3>2. QED
      BY <3>1
  <2>2. CASE n # 0
    <3>1. PICK g : Spells(g, n - 1)
      BY <1>1, <2>2
    <3> DEFINE f == [k \in 0..n |-> IF k = n THEN Step(g, n) ELSE g[k]]
    <3>2. \A k \in 0..(n - 1) : f[k] = g[k]
      OBVIOUS
    <3>3. \A k \in 0..n : f[k] = Step(g, k)
      BY <2>2, <3>1 DEF Spells
    <3>4. f = [k \in 0..n |-> f[k]]
      OBVIOUS
    <3> HIDE DEF f
    <3>5. \A k \in 0..n : Step(f, k) = Step(g, k)
      <4> SUFFICES ASSUME NEW k \in 0..n PROVE Step(f, k) = Step(g, k)
        OBVIOUS
      <4>1. \A i \in 0..(k - 1) : f[i] = g[i]
        BY <3>2
      <4>2. QED
        BY <4>1, StepLocal
    <3>6. Spells(f, n)
      BY <3>3, <3>4, <3>5 DEF Spells
    <3>7. QED
      BY <3>6
  <2>3. QED
    BY <2>1, <2>2
<1> HIDE DEF T
<1>2. T \in SUBSET Nat
  BY DEF T
<1>3. T = Nat
  BY <1>1, <1>2, BySmallest
<1>4. QED
  BY <1>3 DEF T

\* Digits is the function its definition describes.
LEMMA DigitsStep == \A n \in Nat : Digits[n] = Step(Digits, n)
<1> DEFINE Spelling(n) == CHOOSE f : Spells(f, n)
           All == [n \in Nat |-> Spelling(n)[n]]
<1>1. \A n \in Nat : Spells(Spelling(n), n)
  BY SpellingsExist
<1> HIDE DEF Spelling
<1>2. \A n \in Nat : \A k \in 0..n : All[k] = Spelling(n)[k]
  <2> SUFFICES ASSUME NEW n \in Nat, NEW k \in 0..n PROVE All[k] = Spelling(n)[k]
    OBVIOUS
  <2>1. Spells(Spelling(n), n) /\ Spells(Spelling(k), k)
    BY <1>1
  <2>2. Spelling(k)[k] = Spelling(n)[k]
    BY <2>1, SpellingsAgree
  <2>3. QED
    BY <2>2
<1>3. \A n \in Nat : All[n] = Step(All, n)
  <2> SUFFICES ASSUME NEW n \in Nat PROVE All[n] = Step(All, n)
    OBVIOUS
  <2> HIDE DEF All
  <2>1. All[n] = Spelling(n)[n]
    BY <1>2
  <2>2. Spelling(n)[n] = Step(Spelling(n), n)
    BY <1>1 DEF Spells
  <2>3. \A k \in 0..(n - 1) : All[k] = Spelling(n)[k]
    BY <1>2
  <2>4. Step(All, n) = Step(Spelling(n), n)
    BY <2>3, StepLocal
  <2>5. QED
    BY <2>1, <2>2, <2>4
<1>4. All = [n \in Nat |-> IF n < Base THEN <<n>> ELSE Append(All[n \div Base], n % Base)]
  <2>1. All = [n \in Nat |-> All[n]]
    OBVIOUS
  <2> HIDE DEF All
  <2>2. QED
    BY <1>3, <2>1 DEF Step
<1> HIDE DEF All
<1>5. Digits = [n \in Nat |-> IF n < Base THEN <<n>> ELSE Append(Digits[n \div Base], n % Base)]
  BY <1>4 DEF Digits
<1>6. QED
  BY <1>5 DEF Step

LEMMA DigitsType == \A n \in Nat : Digits[n] \in Seq(Nat) /\ Len(Digits[n]) >= 1
<1> DEFINE T == {n \in Nat : Digits[n] \in Seq(Nat) /\ Len(Digits[n]) >= 1}
<1>1. ASSUME NEW n \in Nat, \A m \in 0..(n - 1) : m \in T PROVE n \in T
  <2>1. Base \in Nat \ {0, 1} /\ Digits[n] = Step(Digits, n)
    BY ChronosAssumption, DigitsStep
  <2>2. CASE n < Base
    <3>1. Digits[n] = <<n>>
      BY <2>1, <2>2 DEF Step
    <3>2. <<n>> \in Seq(Nat) /\ Len(<<n>>) = 1
      OBVIOUS
    <3>3. Digits[n] \in Seq(Nat) /\ Len(Digits[n]) = 1
      BY <3>1, <3>2, Zenon
    <3>4. \A k : k = 1 => k >= 1
      OBVIOUS
    <3>5. QED
      BY <3>3, <3>4, Zenon
  <2>3. CASE ~(n < Base)
    <3>1. n \div Base \in 0..(n - 1) /\ n % Base \in Nat
      BY <2>1, <2>3, QuotientSmaller, QuotientAndRest
    <3>2. Digits[n \div Base] \in Seq(Nat)
      BY <1>1, <3>1
    <3>3. Digits[n] = Append(Digits[n \div Base], n % Base)
      BY <2>1, <2>3 DEF Step
    <3>4. Digits[n] \in Seq(Nat) /\ Len(Digits[n]) = Len(Digits[n \div Base]) + 1
      BY <3>1, <3>2, <3>3, AppendProperties
    <3>5. Len(Digits[n \div Base]) \in Nat
      BY <3>2, LenProperties
    <3>6. QED
      BY <3>4, <3>5
  <2>4. QED
    BY <2>2, <2>3
<1> HIDE DEF T
<1>2. T \in SUBSET Nat
  BY DEF T
<1>3. T = Nat
  BY <1>1, <1>2, BySmallest
<1>4. QED
  BY <1>3 DEF T

\* The length tells the numbers below Base from the others.
LEMMA DigitsShort == \A n \in Nat : n < Base => Digits[n] = <<n>> /\ Len(Digits[n]) = 1
<1>1. \A n \in Nat : n < Base => Digits[n] = <<n>>
  BY DigitsStep DEF Step
<1>2. \A n \in Nat : Len(<<n>>) = 1
  OBVIOUS
<1>3. QED
  BY <1>1, <1>2

LEMMA DigitsLong ==
  ASSUME NEW n \in Nat, n >= Base
  PROVE  /\ n \div Base \in 0..(n - 1) /\ n % Base \in Nat
         /\ Digits[n] = Append(Digits[n \div Base], n % Base)
         /\ Len(Digits[n]) >= 2
<1>1. n \div Base \in 0..(n - 1) /\ n % Base \in Nat
  BY BaseType, QuotientSmaller, QuotientAndRest
<1>2. Digits[n] = Append(Digits[n \div Base], n % Base)
  <2>1. Digits[n] = Step(Digits, n) /\ ~(n < Base)
    BY BaseType, DigitsStep
  <2>2. QED
    BY <2>1 DEF Step
<1>3. Digits[n \div Base] \in Seq(Nat) /\ Len(Digits[n \div Base]) >= 1
  BY <1>1, DigitsType
<1>4. Len(Digits[n]) = Len(Digits[n \div Base]) + 1
  BY <1>1, <1>2, <1>3, AppendProperties
<1>5. Len(Digits[n]) >= 2
  BY <1>3, <1>4, LenProperties
<1>6. QED
  BY <1>1, <1>2, <1>5

\* std::to_string tells the numbers apart.
LEMMA DigitsInjective == \A m, n \in Nat : Digits[m] = Digits[n] => m = n
<1> DEFINE T == {m \in Nat : \A n \in Nat : Digits[m] = Digits[n] => m = n}
<1>1. ASSUME NEW m \in Nat, \A k \in 0..(m - 1) : k \in T PROVE m \in T
  <2>1. SUFFICES ASSUME NEW n \in Nat, Digits[m] = Digits[n] PROVE m = n
    OBVIOUS
  <2>2. CASE m < Base
    <3>1. Digits[m] = <<m>> /\ Len(Digits[m]) = 1
      BY <2>2, DigitsShort
    <3>2. n < Base
      <4>1. n >= Base => Len(Digits[n]) >= 2
        BY DigitsLong
      <4>2. Len(Digits[n]) = 1
        BY <2>1, <3>1
      <4>3. QED
        BY <4>1, <4>2, BaseType
    <3>3. Digits[n] = <<n>>
      BY <3>2, DigitsShort
    <3>4. <<m>>[1] = <<n>>[1]
      BY <2>1, <3>1, <3>3
    <3>5. QED
      BY <3>4
  <2>3. CASE m >= Base
    <3>1. m \div Base \in 0..(m - 1) /\ m % Base \in Nat
      BY <2>3, DigitsLong
    <3>2. Digits[m] = Append(Digits[m \div Base], m % Base) /\ Len(Digits[m]) >= 2
      BY <2>3, DigitsLong
    <3>3. n >= Base
      <4>1. n < Base => Len(Digits[n]) = 1
        BY DigitsShort
      <4>2. Len(Digits[n]) # 1
        BY <2>1, <3>2
      <4>3. QED
        BY <4>1, <4>2, BaseType
    <3>4. /\ n \div Base \in Nat /\ n % Base \in Nat
          /\ Digits[n] = Append(Digits[n \div Base], n % Base)
      BY <3>3, DigitsLong
    <3>5. Digits[m \div Base] \in Seq(Nat) /\ Digits[n \div Base] \in Seq(Nat)
      BY <3>1, <3>4, DigitsType
    <3>6. Digits[m \div Base] = Digits[n \div Base] /\ m % Base = n % Base
      <4>1. Append(Digits[m \div Base], m % Base) = Append(Digits[n \div Base], n % Base)
        BY <2>1, <3>2, <3>4
      <4>2. \A a, b \in Nat :
               Append(Digits[m \div Base], a) = Append(Digits[n \div Base], b)
               => Digits[m \div Base] = Digits[n \div Base] /\ a = b
        BY <3>5, EqualAppends
      <4>3. m % Base \in Nat /\ n % Base \in Nat
        BY <3>1, <3>4
      <4>4. QED
        BY <4>1, <4>2, <4>3
    <3>7. m \div Base = n \div Base
      BY <1>1, <3>1, <3>4, <3>6
    <3>8. QED
      BY <3>6, <3>7, SameQuotientAndRest, BaseType
  <2>4. QED
    BY <2>2, <2>3, BaseType
<1> HIDE DEF T
<1>2. T \in SUBSET Nat
  BY DEF T
<1>3. T = Nat
  BY <1>1, <1>2, BySmallest
<1>4. QED
  BY <1>3 DEF T

\* Of two equal keys with equally long ends, the ends and the beginnings are equal,
\* and so are the numbers they spell.
LEMMA KeysTellApart ==
  ASSUME NEW p \in Nat, NEW q \in Nat, NEW d \in Nat, NEW e \in Nat,
         Len(Digits[d]) = Len(Digits[e]), Key(p, d) = Key(q, e)
  PROVE  p = q /\ d = e
<1>1. /\ Digits[p] \in Seq(Nat) /\ Digits[q] \in Seq(Nat)
      /\ Digits[d] \in Seq(Nat) /\ Digits[e] \in Seq(Nat)
  BY DigitsType
<1>2. Digits[p] \o Digits[d] = Digits[q] \o Digits[e]
  BY DEF Key
<1>3. PICK s1 \in Seq(Nat), s2 \in Seq(Nat), t1 \in Seq(Nat), t2 \in Seq(Nat) :
         s1 = Digits[p] /\ s2 = Digits[q] /\ t1 = Digits[d] /\ t2 = Digits[e]
  BY <1>1
<1>4. s1 \o t1 = s2 \o t2 /\ Len(t1) = Len(t2)
  BY <1>2, <1>3
<1>5. s1 = s2 /\ t1 = t2
  <2>0. Len(s1) \in Nat /\ Len(s2) \in Nat /\ Len(t1) \in Nat
    BY LenProperties
  <2>1. Len(s1) + Len(t1) = Len(s2) + Len(t2)
    <3>1. Len(s1 \o t1) = Len(s1) + Len(t1)
      BY ConcatProperties
    <3>2. Len(s2 \o t2) = Len(s2) + Len(t2)
      BY ConcatProperties
    <3>3. QED
      BY <1>4, <3>1, <3>2
  <2>2. Len(s1) = Len(s2)
    BY <1>4, <2>0, <2>1
  <2>3. \A i \in 1..Len(s1) : s1[i] = s2[i]
    <3> SUFFICES ASSUME NEW i \in 1..Len(s1) PROVE s1[i] = s2[i]
      OBVIOUS
    <3>1. (s1 \o t1)[i] = s1[i] /\ (s2 \o t2)[i] = s2[i]
      BY <2>0, <2>2, ConcatProperties
    <3>2. QED
      BY <1>4, <3>1
  <2>4. \A i \in 1..Len(t1) : t1[i] = t2[i]
    <3> SUFFICES ASSUME NEW i \in 1..Len(t1) PROVE t1[i] = t2[i]
      OBVIOUS
    <3>0. Len(s1) + i \in 1..(Len(s1) + Len(t1)) /\ ~(Len(s1) + i <= Len(s1))
      BY <2>0
    <3>1. (s1 \o t1)[Len(s1) + i] = t1[(Len(s1) + i) - Len(s1)]
      <4>1. \A j \in 1..(Len(s1) + Len(t1)) :
               (s1 \o t1)[j] = IF j <= Len(s1) THEN s1[j] ELSE t1[j - Len(s1)]
        BY ConcatProperties
      <4>2. QED
        BY <3>0, <4>1
    <3>2. (s2 \o t2)[Len(s1) + i] = t2[(Len(s1) + i) - Len(s1)]
      BY <2>0, <2>1, <2>2, <3>0, ConcatProperties
    <3>3. (Len(s1) + i) - Len(s1) = i
      BY <2>0
    <3>4. QED
      BY <1>4, <3>1, <3>2, <3>3
  <2>5. QED
    BY <1>4, <2>2, <2>3, <2>4, SeqEqual
<1>6. QED
  BY <1>3, <1>5, DigitsInjective
-----------------------------------------------------------------------------
(* The inductive invariant, action by action.                                  *)

USE BudgetAssumption, ChronosAssumption, DirectoryAssumption

\* What the handlers do to their local variables.
LEMMA NewJob ==
  ASSUME NEW c, NEW command, NEW k, NEW p, NEW e, NEW entry, NEW j,
         j = Job(c, command, k, p, e, entry)
  PROVE  /\ DOMAIN j = JobFields /\ j.conn = c /\ j.command = command /\ j.slot = k
         /\ j.planet = p /\ j.epoch = e /\ j.entry = entry /\ j.genes = "none"
         /\ j.ordered = epoch
  BY DEF Job, JobFields

LEMMA EntryChosen ==
  ASSUME DOMAIN job = JobFields, NEW x, NEW j, j = [job EXCEPT !.entry = x]
  PROVE  /\ DOMAIN j = JobFields /\ j.entry = x /\ j.conn = job.conn
         /\ j.command = job.command /\ j.slot = job.slot /\ j.planet = job.planet
         /\ j.epoch = job.epoch /\ j.genes = job.genes /\ j.ordered = job.ordered
  BY DEF JobFields

LEMMA GenesRead ==
  ASSUME DOMAIN job = JobFields, NEW x, NEW j, j = [job EXCEPT !.genes = x]
  PROVE  /\ DOMAIN j = JobFields /\ j.genes = x /\ j.conn = job.conn
         /\ j.command = job.command /\ j.slot = job.slot /\ j.planet = job.planet
         /\ j.epoch = job.epoch /\ j.entry = job.entry /\ j.ordered = job.ordered
  BY DEF JobFields

LEMMA NoJobShape == DOMAIN NoJob = JobFields /\ NoJob.ordered = 0
  BY DEF NoJob, JobFields

LEMMA RequestCounts ==
  ASSUME HttpTypeOK, NEW o, Request(o)
  PROVE  /\ HttpTypeOK' /\ refusals' \in Nat /\ refusals' >= refusals
         /\ ReadsEmpty(o) => refusals' > 0
         /\ ~ReadsEmpty(o) => refusals' = refusals
  BY DEF HttpTypeOK, Request, Returns, ReadsEmpty

LEMMA InitInv == Init => GalaxyInv
<1> SUFFICES ASSUME Init PROVE GalaxyInv
  OBVIOUS
<1> USE DEF Init
<1>1. ChronosTypeOK
  <2>1. epoch \in Epochs
    BY DEF ChronosInit, Epochs
  <2>2. \A s \in Names : Record(s, "some") \in Records
    BY DEF Record, Records
  <2>3. records \in [Keys -> [Names -> Records \cup {Absent}]]
    BY <2>2 DEF ChronosInit
  <2>4. QED
    BY <2>1, <2>3 DEF ChronosTypeOK
<1>2. inv \in [Users -> Inventories]
  BY DEF NoEntries, Inventories
<1>3. TypeOK
  BY <1>1, <1>2 DEF TypeOK, HttpInit, HttpTypeOK, Inventories
<1>4. ProcessOK
  BY NoJobShape DEF ProcessOK, Handling, ChronosInit
<1>5. JobOK
  BY DEF JobOK, PlanetPhases
<1>6. LoadedOK
  BY DEF LoadedOK, ChronosInit
<1>7. SyncOK /\ ResearchOK
  BY DEF SyncOK, ResearchOK
<1>8. QED
  BY <1>3, <1>4, <1>5, <1>6, <1>7 DEF GalaxyInv

\* A step that changes the handler only, and not one that must be read back.
LEMMA QuietStep ==
  ASSUME GalaxyInv, process = "listening", phase \notin {"load", "show"},
         HttpTypeOK', refusals' >= refusals, commands' \in 0..MaxCommands,
         UNCHANGED <<chronosVars, planetVars, sessionVars, inv>>,
         phase' \in Phases \ {"load"}, DOMAIN job' = JobFields,
         phase' # "idle" => job'.conn \in conns,
         job'.ordered \in 0..epoch, JobOK', ResearchOK'
  PROVE  GalaxyInv'
<1> USE DEF GalaxyInv, chronosVars, planetVars, sessionVars
<1>1. TypeOK'
  BY DEF TypeOK, ChronosTypeOK, Phases, PlanetPhases
<1>2. ProcessOK'
  BY DEF ProcessOK, Handling
<1>3. LoadedOK'
  BY DEF LoadedOK
<1>4. SyncOK'
  BY DEF SyncOK, TypeOK, HttpTypeOK
<1>5. QED
  BY <1>1, <1>2, <1>3, <1>4

\* The process dies: all that is left is on record.
LEMMA TerminateInv ==
  ASSUME GalaxyInv, Terminate, HttpTypeOK', ChronosTypeOK', epoch' = epoch,
         commands' = commands, inv' \in [Users -> Inventories]
  PROVE  GalaxyInv'
<1> USE DEF GalaxyInv, Terminate, NoPlanets, Return, Await
<1>1. TypeOK'
  BY DEF TypeOK
<1>2. ProcessOK'
  BY NoJobShape DEF ProcessOK, Handling, TypeOK, ChronosTypeOK, Epochs
<1>3. JobOK' /\ SyncOK' /\ ResearchOK'
  BY DEF JobOK, SyncOK, ResearchOK, PlanetPhases
<1>4. LoadedOK'
  BY DEF LoadedOK, TypeOK, ChronosTypeOK, Epochs
<1>5. QED
  BY <1>1, <1>2, <1>3, <1>4

LEMMA StartInv ==
  ASSUME GalaxyInv, NEW o \in Outcomes, Start(o), UNCHANGED inv
  PROVE  GalaxyInv'
<1> USE DEF GalaxyInv
<1>1. /\ process = "down" /\ phase = "idle" /\ HttpTypeOK'
      /\ refusals' \in Nat /\ refusals' >= refusals
  BY RequestCounts DEF Start, ProcessOK, TypeOK
<1>2. /\ UNCHANGED <<chronosVars, planetVars, conns, user, shown, synced, commands>>
      /\ conns = {} /\ epoch \in 1..MaxEpoch
  BY <1>1 DEF Start, ProcessOK, TypeOK, ChronosTypeOK, Epochs
<1>3. \/ process' = "loading" /\ phase' = "load" /\ job' = [NoJob EXCEPT !.epoch = epoch]
      \/ process' \in {"listening", "down"} /\ phase' = "idle" /\ job' = job
  BY <1>1 DEF Start, Await, handlerVars, Outcomes, Returns, ReadsEmpty
<1>4. TypeOK'
  BY <1>1, <1>2, <1>3 DEF TypeOK, ChronosTypeOK, chronosVars, planetVars
<1>5. ProcessOK'
  <2>1. CASE process' = "loading"
    <3>1. job' = [NoJob EXCEPT !.epoch = epoch]
      BY <1>3, <2>1
    <3>2. DOMAIN job' = JobFields /\ job'.epoch = epoch /\ job'.ordered = 0
      BY <3>1 DEF NoJob, JobFields
    <3>3. QED
      BY <1>1, <1>2, <1>3, <2>1, <3>2 DEF ProcessOK, Handling, chronosVars
  <2>2. CASE process' # "loading"
    BY <1>1, <1>2, <1>3, <2>2 DEF ProcessOK, Handling, chronosVars
  <2>3. QED
    BY <2>1, <2>2
<1>6. JobOK' /\ ResearchOK'
  BY <1>3 DEF JobOK, ResearchOK, PlanetPhases
<1>7. LoadedOK'
  BY <1>1, <1>2, <1>3 DEF LoadedOK, chronosVars, planetVars
<1>8. SyncOK'
  BY <1>1, <1>2 DEF SyncOK, TypeOK
<1>9. QED
  BY <1>4, <1>5, <1>6, <1>7, <1>8

LEMMA LoadPlanetInv ==
  ASSUME GalaxyInv, NEW o \in Outcomes, LoadPlanet(o), UNCHANGED inv
  PROVE  GalaxyInv'
<1> USE DEF GalaxyInv
<1>1. /\ phase = "load" /\ process = "loading" /\ HttpTypeOK'
      /\ refusals' \in Nat /\ refusals' >= refusals
  BY RequestCounts DEF LoadPlanet, Ask, ProcessOK, TypeOK
<1>2. /\ UNCHANGED <<chronosVars, commands>> /\ conns = {}
      /\ epoch \in 1..MaxEpoch /\ job.epoch \in 1..epoch
  BY <1>1 DEF LoadPlanet, ProcessOK, TypeOK, ChronosTypeOK, Epochs
<1>3. CASE ~Returns(o)
  <2>1. Terminate
    BY <1>3 DEF LoadPlanet
  <2>2. QED
    BY <1>1, <1>2, <2>1, TerminateInv DEF TypeOK, ChronosTypeOK, chronosVars
<1>4. CASE Returns(o)
  <2> DEFINE q == CHOOSE q \in Planets : mEpoch[q] = 0
             listing == IF o = "answered" THEN Listing(Key(q, job.epoch)) ELSE {}
  <2>1. /\ mEpoch' = [mEpoch EXCEPT ![q] = job.epoch]
        /\ mSpecies' = [mSpecies EXCEPT ![q] = listing]
        /\ UNCHANGED <<astray, conns, user, shown, synced>>
    BY <1>4 DEF LoadPlanet
  <2>2. \/ process' = "listening" /\ phase' = "idle" /\ job' = NoJob
        \/ UNCHANGED <<process, phase, job>>
    BY <1>4 DEF LoadPlanet, Return, Await, handlerVars
  <2>3. listing \in SUBSET Names
    BY DEF Listing
  <2> HIDE DEF q, listing
  <2>4. /\ mEpoch' \in [Planets -> 0..MaxEpoch] /\ mSpecies' \in [Planets -> SUBSET Names]
        /\ \A p \in Planets : mEpoch'[p] \in 0..epoch
    <3>1. /\ mEpoch \in [Planets -> 0..MaxEpoch] /\ mSpecies \in [Planets -> SUBSET Names]
          /\ job.epoch \in 0..MaxEpoch /\ job.epoch \in 0..epoch
      BY <1>2 DEF TypeOK
    <3>2. mEpoch' \in [Planets -> 0..MaxEpoch] /\ mSpecies' \in [Planets -> SUBSET Names]
      BY <2>1, <2>3, <3>1
    <3>3. \A p \in Planets : mEpoch'[p] \in 0..epoch
      BY <2>1, <3>1 DEF LoadedOK
    <3>4. QED
      BY <3>2, <3>3
  <2>5. TypeOK'
    BY <1>1, <1>2, <2>1, <2>2, <2>4 DEF TypeOK, ChronosTypeOK, chronosVars
  <2>6. ProcessOK'
    BY <1>1, <1>2, <2>1, <2>2, NoJobShape DEF ProcessOK, Handling, chronosVars
  <2>7. JobOK' /\ ResearchOK'
    BY <1>1, <2>2 DEF JobOK, ResearchOK, PlanetPhases
  <2>8. LoadedOK'
    BY <1>2, <2>1, <2>4 DEF LoadedOK, chronosVars
  <2>9. SyncOK'
    BY <1>2, <2>1 DEF SyncOK, TypeOK
  <2>10. QED
    BY <2>5, <2>6, <2>7, <2>8, <2>9
<1>5. QED
  BY <1>3, <1>4

LEMMA AdvanceInv ==
  ASSUME GalaxyInv, Chronos
  PROVE  GalaxyInv'
<1> USE DEF GalaxyInv
<1>1. /\ epoch \in 1..MaxEpoch /\ epoch' = epoch + 1 /\ epoch' \in Epochs
      /\ UNCHANGED <<httpVars, mEpoch, mSpecies, sessionVars, handlerVars, commands, inv>>
      /\ astray' \in SUBSET Planets
  <2>1. \A p \in Planets : Sharing(Key(p, epoch + 1)) \subseteq Planets
    BY DEF Sharing
  <2>2. astray' = astray \cup UNION {Sharing(Key(p, epoch + 1)) : p \in Planets}
    BY DEF Chronos
  <2>3. astray' \in SUBSET Planets
    <3>1. UNION {Sharing(Key(p, epoch + 1)) : p \in Planets} \subseteq Planets
      BY <2>1
    <3>2. astray \subseteq Planets
      BY DEF TypeOK
    <3> DEFINE more == UNION {Sharing(Key(p, epoch + 1)) : p \in Planets}
    <3> HIDE DEF more
    <3>3. QED
      BY <2>2, <3>1, <3>2 DEF more
  <2>4. QED
    BY <2>3 DEF Chronos, Advance, TypeOK, ChronosTypeOK, Epochs
<1>2. records' \in [Keys -> [Names -> Records \cup {Absent}]]
  <2>1. PICK extinct \in SUBSET Names :
          records' = [k \in Keys |-> [s \in Names |->
              IF \E p \in Planets : k = Key(p, epoch + 1)
              THEN IF s \in extinct THEN Absent
                   ELSE records[Key(CHOOSE p \in Planets : k = Key(p, epoch + 1), epoch)][s]
              ELSE records[k][s]]]
    BY DEF Chronos, Advance
  <2>2. ASSUME NEW k \in Keys, NEW s \in Names
        PROVE  (IF \E p \in Planets : k = Key(p, epoch + 1)
                THEN IF s \in extinct THEN Absent
                     ELSE records[Key(CHOOSE p \in Planets : k = Key(p, epoch + 1), epoch)][s]
                ELSE records[k][s]) \in Records \cup {Absent}
    <3>1. \A l \in Keys : records[l][s] \in Records \cup {Absent}
      BY DEF TypeOK, ChronosTypeOK
    <3>2. CASE \E p \in Planets : k = Key(p, epoch + 1)
      <4> DEFINE q == CHOOSE p \in Planets : k = Key(p, epoch + 1)
      <4>1. q \in Planets
        BY <3>2
      <4> HIDE DEF q
      <4>2. Key(q, epoch) \in Keys
        BY <1>1, <4>1 DEF Keys, Epochs, Identifiers
      <4>3. QED
        BY <3>1, <3>2, <4>2 DEF q
    <3>3. QED
      BY <3>1, <3>2
  <2>3. QED
    BY <2>1, <2>2
<1>3. TypeOK'
  BY <1>1, <1>2 DEF TypeOK, ChronosTypeOK, HttpTypeOK, httpVars, sessionVars, handlerVars
<1>4. ProcessOK'
  BY <1>1 DEF ProcessOK, Handling, sessionVars, handlerVars
<1>5. JobOK'
  BY <1>1 DEF JobOK, handlerVars
<1>6. LoadedOK'
  BY <1>1 DEF LoadedOK, TypeOK
<1>7. SyncOK'
  BY <1>1 DEF SyncOK, sessionVars, handlerVars, httpVars
<1>8. ResearchOK'
  <2>1. ASSUME phase = "write", job.entry # Absent, job.entry.type = "Research"
        PROVE  job.entry.started <= epoch'
    <3>1. job.entry \in Entries
      BY <2>1 DEF JobOK
    <3>2. job.entry.started \in Nat /\ job.entry.started <= epoch
      BY <2>1, <3>1 DEF ResearchOK, Entries
    <3>3. QED
      BY <1>1, <3>2
  <2>2. QED
    BY <1>1, <2>1 DEF ResearchOK, handlerVars, httpVars
<1>9. QED
  BY <1>3, <1>4, <1>5, <1>6, <1>7, <1>8
-----------------------------------------------------------------------------
(* The sessions.                                                               *)

\* A session comes, goes or changes between two handlers.
LEMMA SessionStep ==
  ASSUME GalaxyInv, phase = "idle", process = "listening",
         UNCHANGED <<httpVars, chronosVars, planetVars, process, handlerVars, commands, inv>>,
         conns' \in SUBSET Conns, user' \in [Conns -> Users],
         shown' \in [Conns -> Inventories \cup {Absent}],
         synced' \subseteq synced \cap conns',
         \A c \in synced' : shown'[c] = shown[c] /\ user'[c] = user[c]
  PROVE  GalaxyInv'
<1> USE DEF GalaxyInv, httpVars, chronosVars, planetVars, handlerVars
<1>1. TypeOK'
  BY DEF TypeOK, ChronosTypeOK, HttpTypeOK
<1>2. ProcessOK'
  BY DEF ProcessOK, Handling
<1>3. JobOK' /\ ResearchOK'
  BY DEF JobOK, ResearchOK, PlanetPhases
<1>4. LoadedOK'
  BY DEF LoadedOK
<1>5. SyncOK'
  BY DEF SyncOK
<1>6. QED
  BY <1>1, <1>2, <1>3, <1>4, <1>5

LEMMA SessionInv ==
  ASSUME GalaxyInv, NEW c \in Conns, Session(c)
  PROVE  GalaxyInv'
<1> USE DEF GalaxyInv
<1>0. /\ conns \subseteq Conns /\ user \in [Conns -> Users] /\ synced \subseteq conns
      /\ shown \in [Conns -> Inventories \cup {Absent}]
      /\ UNCHANGED inv
  BY DEF TypeOK, Session
<1>1. CASE OnConnectionOpen(c)
  BY <1>0, <1>1, SessionStep DEF OnConnectionOpen
<1>2. CASE OnConnectionClose(c)
  BY <1>0, <1>2, SessionStep DEF OnConnectionClose, Free
<1>3. CASE \E u \in Users : LogIn(c, u)
  BY <1>0, <1>3, SessionStep DEF LogIn, Free
<1>4. QED
  BY <1>1, <1>2, <1>3 DEF Session
-----------------------------------------------------------------------------
(* The handlers of the inventory.                                              *)

LEMMA SeedIsEntry ==
  ASSUME NEW s \in Names, NEW ptr \in Pointers
  PROVE  /\ Seed(s, ptr) \in Entries /\ Seed(s, ptr).type = "SpeciesSeed"
         /\ Seed(s, ptr).name = s /\ Seed(s, ptr).pointer = ptr
<1>1. 0 \in 0..MaxEpoch /\ 0 \in 0..(MaxEpoch + 2)
  OBVIOUS
<1>2. QED
  BY <1>1 DEF Seed, Entries, Pointers

\* What a message names.
LEMMA NamedPlaces ==
  ASSUME NEW pe \in Named
  PROVE  /\ pe[1] \in Nat /\ pe[2] \in Nat /\ pe[1] \in Identifiers
         /\ Key(pe[1], pe[2]) \in Keys
<1>1. pe[1] \in Nat /\ pe[2] \in Nat
  OBVIOUS
<1>2. QED
  BY <1>1 DEF Identifiers, Keys

LEMMA DraftOK ==
  ASSUME NEW command \in Reads \cup Writes,
         NEW pe \in Places(command), NEW draft \in Drafts(command, pe[1], pe[2])
  PROVE  /\ command = "RESEARCH" =>
               /\ pe[1] \in Identifiers /\ draft.name \in Names
               /\ draft.pointer.name \in Names \cup {NoName}
         /\ command = "SAMPLE_FROM_PLANET" =>
               draft.name \in Names /\ draft.pointer.key \in Keys
         /\ command \in {"NEW_SPECIES", "UPDATE_SPECIES", "DELETE_ENTRY"} =>
               /\ draft \in Entries \cup {Absent}
               /\ draft # Absent => draft.type # "Research"
<1>1. CASE command \in {"RESEARCH", "SAMPLE_FROM_PLANET"}
  <2>1. pe \in Named
    BY <1>1 DEF Places
  <2>2. pe[1] \in Identifiers /\ Key(pe[1], pe[2]) \in Keys
    BY <2>1, NamedPlaces
  <2>3. \A o \in Names \cup {NoName} :
           /\ Pointer(Key(pe[1], pe[2]), o) \in Pointers
           /\ Pointer(Key(pe[1], pe[2]), o).name = o
           /\ Pointer(Key(pe[1], pe[2]), o).key = Key(pe[1], pe[2])
    BY <2>2 DEF Pointer, Pointers
  <2>4. PICK s \in Names, o \in Names \cup {NoName} :
           draft = Seed(s, Pointer(Key(pe[1], pe[2]), o))
    BY <1>1 DEF Drafts
  <2>5. /\ draft.name = s
        /\ draft.pointer = Pointer(Key(pe[1], pe[2]), o)
    BY <2>3, <2>4, SeedIsEntry
  <2>6. QED
    BY <1>1, <2>2, <2>3, <2>5
<1>2. CASE command \in {"NEW_SPECIES", "UPDATE_SPECIES"}
  <2>1. PICK s \in Names, ptr \in SentPointers \cup {Prebaked} : draft = Seed(s, ptr)
    BY <1>2 DEF Drafts
  <2>2. ptr \in Pointers
    BY SeedsAssumption DEF Pointers
  <2>3. QED
    BY <1>2, <2>1, <2>2, SeedIsEntry
<1>3. CASE command = "DELETE_ENTRY"
  BY <1>3 DEF Drafts
<1>4. CASE command \in Reads
  BY <1>4 DEF Reads
<1>5. QED
  BY <1>1, <1>2, <1>3, <1>4 DEF Writes

LEMMA InventoryEndpointInv ==
  ASSUME GalaxyInv, NEW c \in Conns, NEW command \in Reads \cup Writes,
         InventoryEndpoint(c, command)
  PROVE  GalaxyInv'
<1>1. PICK k \in Slots, pe \in Places(command) :
        \E draft \in Drafts(command, pe[1], pe[2]) :
           Await(First(command), Job(c, command, k, pe[1], pe[2], draft))
  BY DEF InventoryEndpoint
<1>2. PICK draft \in Drafts(command, pe[1], pe[2]) :
         phase' = First(command) /\ job' = Job(c, command, k, pe[1], pe[2], draft)
  BY <1>1 DEF Await
<1>3. /\ DOMAIN job' = JobFields /\ job'.conn = c /\ job'.command = command
      /\ job'.slot = k /\ job'.planet = pe[1] /\ job'.entry = draft
      /\ job'.ordered = epoch
  BY <1>2, NewJob
<1>4. /\ process = "listening" /\ phase = "idle" /\ c \in conns
      /\ commands' \in 0..MaxCommands
      /\ UNCHANGED <<httpVars, chronosVars, planetVars, sessionVars, inv>>
  BY DEF InventoryEndpoint, Free, AcceptCommand, GalaxyInv, TypeOK
<1>5. /\ phase' \in {"epoch", "sample", "show", "write"}
      /\ phase' = "epoch" => command \in {"RESEARCH", "GET_GLOBAL_EPOCH"}
      /\ phase' = "sample" => command = "SAMPLE_FROM_PLANET"
      /\ phase' = "write" => command \in {"NEW_SPECIES", "UPDATE_SPECIES", "DELETE_ENTRY"}
  BY <1>2 DEF First, Reads, Writes
<1>6. JobOK'
  BY <1>3, <1>4, <1>5, DraftOK DEF JobOK, PlanetPhases
<1>7. ResearchOK'
  BY <1>3, <1>5, DraftOK DEF ResearchOK
<1>8. HttpTypeOK' /\ refusals' >= refusals /\ epoch \in 0..epoch
  BY <1>4 DEF GalaxyInv, TypeOK, HttpTypeOK, ChronosTypeOK, Epochs, httpVars
<1>9. QED
  BY <1>3, <1>4, <1>5, <1>6, <1>7, <1>8, QuietStep DEF Phases

\* A handler at one of its requests.
LEMMA AtRequest ==
  ASSUME GalaxyInv, Handling, NEW o, Request(o)
  PROVE  /\ process = "listening" /\ job.conn \in conns /\ job.conn \in Conns
         /\ DOMAIN job = JobFields /\ job.ordered \in 0..epoch /\ epoch \in 1..MaxEpoch
         /\ HttpTypeOK' /\ refusals' \in Nat /\ refusals' >= refusals
         /\ ReadsEmpty(o) => refusals' > 0
         /\ ~ReadsEmpty(o) => refusals' = refusals
<1>1. /\ process = "listening" /\ job.conn \in conns /\ job.conn \in Conns
      /\ DOMAIN job = JobFields /\ job.ordered \in 0..epoch /\ epoch \in 1..MaxEpoch
  BY DEF GalaxyInv, ProcessOK, Handling, TypeOK, ChronosTypeOK, Epochs
<1>2. QED
  BY <1>1, RequestCounts DEF GalaxyInv, TypeOK

\* A handler whose request throws.
LEMMA ThrownInv ==
  ASSUME GalaxyInv, HttpTypeOK', Terminate, UNCHANGED <<chronosVars, commands>>,
         inv' \in [Users -> Inventories]
  PROVE  GalaxyInv'
  BY TerminateInv DEF GalaxyInv, TypeOK, ChronosTypeOK, chronosVars

LEMMA GetGlobalEpochInv ==
  ASSUME GalaxyInv, NEW o \in Outcomes, GetGlobalEpoch(o)
  PROVE  GalaxyInv'
<1>1. phase = "epoch" /\ Request(o) /\ UNCHANGED <<chronosVars, commands, inv>> /\ Handling
  BY DEF GetGlobalEpoch, Ask, Handling
<1>2. /\ process = "listening" /\ job.conn \in conns
      /\ DOMAIN job = JobFields /\ job.ordered \in 0..epoch /\ epoch \in 1..MaxEpoch
      /\ HttpTypeOK' /\ refusals' \in Nat /\ refusals' >= refusals
      /\ ReadsEmpty(o) => refusals' > 0
      /\ commands' \in 0..MaxCommands /\ inv' \in [Users -> Inventories]
  BY <1>1, AtRequest DEF GalaxyInv, TypeOK
<1>3. CASE ~Returns(o)
  <2>1. Terminate
    BY <1>3 DEF GetGlobalEpoch
  <2>2. QED
    BY <1>1, <1>2, <2>1, ThrownInv
<1>4. CASE Returns(o) /\ job.command # "RESEARCH"
  <2>1. phase' = "idle" /\ job' = NoJob /\ UNCHANGED <<planetVars, sessionVars>>
    BY <1>4 DEF GetGlobalEpoch, Return, Await
  <2>2. JobOK' /\ ResearchOK'
    BY <2>1 DEF JobOK, ResearchOK, PlanetPhases
  <2>3. QED
    BY <1>1, <1>2, <2>1, <2>2, NoJobShape, QuietStep DEF Phases
<1>5. CASE Returns(o) /\ job.command = "RESEARCH"
  <2> DEFINE e == GlobalEpoch(o)
  <2>1. /\ phase' = "write" /\ job' = [job EXCEPT !.entry = Research(e)]
        /\ UNCHANGED <<planetVars, sessionVars>>
    BY <1>5 DEF GetGlobalEpoch, Await
  <2>2. e \in 0..MaxEpoch /\ e <= epoch /\ (~ReadsEmpty(o) => e = epoch)
    BY <1>2, <1>5 DEF GlobalEpoch, Returns, ReadsEmpty
  <2>3. /\ job.planet \in Identifiers /\ job.slot \in Slots /\ job.entry.name \in Names
        /\ job.entry.pointer.name \in Names \cup {NoName}
    BY <1>1, <1>5 DEF GalaxyInv, JobOK
  <2>4. Pointer(Key(job.planet, e), job.entry.pointer.name) \in Pointers
    <3>1. Key(job.planet, e) \in Keys \cup {Key(p, 0) : p \in Identifiers}
      BY <2>2, <2>3 DEF Keys, Epochs
    <3>2. QED
      BY <2>3, <3>1 DEF Pointer, Pointers
  <2> HIDE DEF e
  <2>5. /\ Research(e) \in Entries
        /\ Research(e).done = Research(e).started + RESEARCH_EPOCHS
        /\ Research(e).started = e
    <3>1. e + 2 \in 0..(MaxEpoch + 2)
      BY <2>2
    <3>2. QED
      BY <2>2, <2>3, <2>4, <3>1 DEF Research, Entries, Pointers, RESEARCH_EPOCHS
  <2>6. /\ DOMAIN job' = JobFields /\ job'.entry = Research(e) /\ job'.conn = job.conn
        /\ job'.slot = job.slot /\ job'.ordered = job.ordered
    BY <1>2, <2>1, EntryChosen
  <2>7. JobOK'
    BY <2>1, <2>3, <2>5, <2>6 DEF JobOK, PlanetPhases
  <2>8. ResearchOK'
    <3>1. epoch' = epoch /\ (refusals' = 0 => e = epoch)
      BY <1>1, <1>2, <2>2 DEF chronosVars
    <3>2. job'.entry.done = job'.entry.started + RESEARCH_EPOCHS /\ job'.entry.started = e
      BY <2>5, <2>6
    <3>3. QED
      BY <1>2, <2>2, <2>6, <3>1, <3>2 DEF ResearchOK
  <2>9. QED
    BY <1>1, <1>2, <2>1, <2>6, <2>7, <2>8, QuietStep DEF Phases
<1>6. QED
  BY <1>3, <1>4, <1>5

LEMMA SampleSpeciesInv ==
  ASSUME GalaxyInv, NEW o \in Outcomes, SampleSpecies(o)
  PROVE  GalaxyInv'
<1>1. phase = "sample" /\ Request(o) /\ UNCHANGED <<chronosVars, commands, inv>> /\ Handling
  BY DEF SampleSpecies, Ask, Handling
<1>2. /\ process = "listening" /\ job.conn \in conns
      /\ DOMAIN job = JobFields /\ job.ordered \in 0..epoch
      /\ HttpTypeOK' /\ refusals' >= refusals
      /\ commands' \in 0..MaxCommands /\ inv' \in [Users -> Inventories]
  BY <1>1, AtRequest DEF GalaxyInv, TypeOK
<1>3. CASE ~Returns(o)
  <2>1. Terminate
    BY <1>3 DEF SampleSpecies
  <2>2. QED
    BY <1>1, <1>2, <2>1, ThrownInv
<1>4. CASE Returns(o)
  <2> DEFINE k == job.entry.pointer.key
             s == job.entry.name
             seed == Seed(s, Pointer(k, Original(o, k, s)))
  <2>1. /\ phase' = "write" /\ job' = [job EXCEPT !.entry = seed]
        /\ UNCHANGED <<planetVars, sessionVars>>
    BY <1>4 DEF SampleSpecies, Await
  <2>2. job.slot \in Slots /\ s \in Names /\ k \in Keys
    BY <1>1 DEF GalaxyInv, JobOK
  <2>3. Original(o, k, s) \in Names \cup {NoName}
    <3>1. CASE Recorded(k, s)
      <4>1. records[k][s] \in Records
        BY <3>1 DEF Recorded, GalaxyInv, TypeOK, ChronosTypeOK
      <4>2. QED
        BY <4>1 DEF Original, Records
    <3>2. CASE ~Recorded(k, s)
      BY <3>2 DEF Original
    <3>3. QED
      BY <3>1, <3>2
  <2>4. Pointer(k, Original(o, k, s)) \in Pointers
    BY <2>2, <2>3 DEF Pointer, Pointers
  <2>5. seed \in Entries /\ seed.type = "SpeciesSeed"
    BY <2>2, <2>4, SeedIsEntry
  <2> HIDE DEF seed, k, s
  <2>6. /\ DOMAIN job' = JobFields /\ job'.entry = seed /\ job'.conn = job.conn
        /\ job'.slot = job.slot /\ job'.ordered = job.ordered
    BY <1>2, <2>1, EntryChosen
  <2>7. JobOK'
    BY <2>1, <2>2, <2>5, <2>6 DEF JobOK, PlanetPhases
  <2>8. ResearchOK'
    BY <2>5, <2>6 DEF ResearchOK
  <2>9. QED
    BY <1>1, <1>2, <2>1, <2>6, <2>7, <2>8, QuietStep DEF Phases
<1>5. QED
  BY <1>3, <1>4

LEMMA WriteEntryInv ==
  ASSUME GalaxyInv, NEW o \in Outcomes, WriteEntry(o)
  PROVE  GalaxyInv'
<1> USE DEF GalaxyInv
<1>1. phase = "write" /\ Request(o) /\ UNCHANGED <<chronosVars, commands>> /\ Handling
  BY DEF WriteEntry, Ask, Handling
<1>2. /\ process = "listening" /\ job.conn \in conns /\ job.conn \in Conns
      /\ DOMAIN job = JobFields /\ job.ordered \in 0..epoch
      /\ HttpTypeOK' /\ refusals' \in Nat /\ refusals' >= refusals
  BY <1>1, AtRequest
<1>3. job.slot \in Slots /\ job.entry \in Entries \cup {Absent}
  BY <1>1 DEF JobOK
<1>4. user[job.conn] \in Users /\ inv \in [Users -> Inventories]
  BY <1>2 DEF TypeOK
<1>5. /\ inv' \in [Users -> Inventories]
      /\ \A u \in Users : u # user[job.conn] => inv'[u] = inv[u]
      /\ ~Applied(o) => inv' = inv
  <2>1. CASE SetEntry(user[job.conn], job.slot, job.entry) /\ Applied(o)
    <3>1. [inv[user[job.conn]] EXCEPT ![job.slot] = job.entry] \in Inventories
      <4>1. inv[user[job.conn]] \in [Slots -> Entries \cup {Absent}]
        BY <1>4 DEF Inventories
      <4>2. QED
        BY <1>3, <4>1 DEF Inventories
    <3>2. QED
      BY <1>4, <2>1, <3>1 DEF SetEntry
  <2>2. CASE UNCHANGED inv
    BY <1>4, <2>2
  <2>3. QED
    BY <2>1, <2>2 DEF WriteEntry, PutEntry
<1>6. CASE ~Returns(o)
  <2>1. Terminate
    BY <1>6 DEF WriteEntry
  <2>2. QED
    BY <1>1, <1>2, <1>5, <2>1, ThrownInv
<1>7. CASE Returns(o)
  <2>1. /\ phase' = "show" /\ job' = job
        /\ UNCHANGED <<planetVars, process, conns, user, shown>>
        /\ synced' = IF Applied(o)
                     THEN synced \ {d \in Conns \ {job.conn} : user[d] = user[job.conn]}
                     ELSE synced
    BY <1>7 DEF WriteEntry, Await, AfterWrite
  <2>2. TypeOK'
    BY <1>1, <1>2, <1>5, <2>1 DEF TypeOK, ChronosTypeOK, chronosVars, planetVars
  <2>3. ProcessOK'
    BY <1>1, <1>2, <2>1 DEF ProcessOK, Handling, chronosVars
  <2>4. JobOK' /\ ResearchOK'
    BY <2>1 DEF JobOK, ResearchOK, PlanetPhases
  <2>5. LoadedOK'
    BY <1>1, <2>1 DEF LoadedOK, chronosVars, planetVars
  <2>6. SyncOK'
    <3>1. SUFFICES ASSUME NEW c \in synced', c # job.conn
                   PROVE  shown[c] = inv'[user[c]] \/ (refusals' > 0 /\ shown[c] = NoEntries)
      BY <2>1 DEF SyncOK
    <3>2. c \in synced /\ c \in Conns /\ user[c] \in Users
      BY <2>1 DEF TypeOK
    <3>3. shown[c] = inv[user[c]] \/ (refusals > 0 /\ shown[c] = NoEntries)
      BY <1>1, <3>1, <3>2 DEF SyncOK
    <3>4. inv'[user[c]] = inv[user[c]]
      BY <1>5, <2>1, <3>1, <3>2
    <3>5. refusals > 0 => refusals' > 0
      BY <1>2 DEF TypeOK, HttpTypeOK
    <3>6. QED
      BY <3>3, <3>4, <3>5
  <2>7. QED
    BY <2>2, <2>3, <2>4, <2>5, <2>6
<1>8. QED
  BY <1>6, <1>7

LEMMA ShowInventoryInv ==
  ASSUME GalaxyInv, NEW o \in Outcomes, ShowInventory(o)
  PROVE  GalaxyInv'
<1> USE DEF GalaxyInv
<1>1. phase = "show" /\ Request(o) /\ UNCHANGED <<chronosVars, commands, inv>> /\ Handling
  BY DEF ShowInventory, Ask, Handling
<1>2. /\ process = "listening" /\ job.conn \in conns /\ job.conn \in Conns
      /\ DOMAIN job = JobFields /\ epoch \in 1..MaxEpoch
      /\ HttpTypeOK' /\ refusals' \in Nat /\ refusals' >= refusals
      /\ ReadsEmpty(o) => refusals' > 0
  BY <1>1, AtRequest
<1>3. CASE ~Returns(o)
  <2>1. Terminate
    BY <1>3 DEF ShowInventory
  <2>2. QED
    BY <1>1, <1>2, <2>1, ThrownInv DEF TypeOK
<1>4. CASE Returns(o)
  <2> DEFINE x == IF o = "answered" THEN inv[user[job.conn]] ELSE NoEntries
  <2>1. /\ phase' = "idle" /\ job' = NoJob
        /\ shown' = [shown EXCEPT ![job.conn] = x]
        /\ synced' = synced \cup {job.conn}
        /\ UNCHANGED <<planetVars, process, conns, user>>
    BY <1>4 DEF ShowInventory, Return, Await
  <2>2. x \in Inventories
    BY <1>2 DEF TypeOK, NoEntries, Inventories
  <2>3. x = inv[user[job.conn]] \/ (refusals' > 0 /\ x = NoEntries)
    BY <1>2, <1>4 DEF Returns, ReadsEmpty
  <2>4. PICK c \in Conns : c = job.conn
    BY <1>2
  <2> HIDE DEF x
  <2>5. \A d \in Conns : shown'[d] = IF d = c THEN x ELSE shown[d]
    BY <2>1, <2>4 DEF TypeOK
  <2>6. TypeOK'
    BY <1>1, <1>2, <2>1, <2>2, <2>5 DEF TypeOK, ChronosTypeOK, chronosVars, planetVars
  <2>7. ProcessOK'
    BY <1>1, <1>2, <2>1, NoJobShape DEF ProcessOK, Handling, chronosVars
  <2>8. JobOK' /\ ResearchOK'
    BY <2>1 DEF JobOK, ResearchOK, PlanetPhases
  <2>9. LoadedOK'
    BY <1>1, <2>1 DEF LoadedOK, chronosVars, planetVars
  <2>10. SyncOK'
    <3>1. SUFFICES ASSUME NEW d \in synced'
                   PROVE  shown'[d] = inv[user[d]] \/ (refusals' > 0 /\ shown'[d] = NoEntries)
      BY <1>1, <2>1 DEF SyncOK
    <3>2. CASE d = c
      BY <2>3, <2>4, <2>5, <3>2
    <3>3. CASE d # c
      <4>1. d \in synced /\ d \in Conns
        BY <2>1, <2>4, <3>3 DEF TypeOK
      <4>2. shown[d] = inv[user[d]] \/ (refusals > 0 /\ shown[d] = NoEntries)
        BY <2>4, <3>3, <4>1 DEF SyncOK
      <4>3. refusals > 0 => refusals' > 0
        BY <1>2 DEF TypeOK, HttpTypeOK
      <4>4. QED
        BY <2>5, <3>3, <4>1, <4>2, <4>3
    <3>4. QED
      BY <3>2, <3>3
  <2>11. QED
    BY <2>6, <2>7, <2>8, <2>9, <2>10
<1>5. QED
  BY <1>3, <1>4
-----------------------------------------------------------------------------
(* The handlers of the orbital interactions.                                   *)

\* A handler that works on a planet begins.
LEMMA PlanetHandlerBegins ==
  ASSUME GalaxyInv, NEW c \in Conns, Free(c), AcceptCommand,
         UNCHANGED <<httpVars, chronosVars, planetVars, sessionVars, inv>>,
         NEW pe \in Named, NEW command, NEW k, NEW seed, seed.name \in Names,
         phase' \in PlanetPhases, job' = Job(c, command, k, pe[1], pe[2], seed)
  PROVE  GalaxyInv'
<1>1. /\ DOMAIN job' = JobFields /\ job'.conn = c /\ job'.planet = pe[1]
      /\ job'.epoch = pe[2] /\ job'.entry = seed /\ job'.genes = "none"
      /\ job'.ordered = epoch
  BY NewJob
<1>2. /\ process = "listening" /\ phase = "idle" /\ c \in conns
      /\ commands' \in 0..MaxCommands /\ epoch \in 0..epoch
      /\ HttpTypeOK' /\ refusals' >= refusals
  BY DEF Free, AcceptCommand, GalaxyInv, TypeOK, HttpTypeOK, ChronosTypeOK, Epochs, httpVars
<1>3. JobOK'
  <2>1. pe[1] \in Nat /\ pe[2] \in Nat
    BY NamedPlaces
  <2>2. QED
    BY <1>1, <2>1 DEF JobOK, PlanetPhases
<1>4. ResearchOK'
  BY DEF ResearchOK, PlanetPhases
<1>5. phase' \in Phases \ {"load"}
  BY DEF Phases, PlanetPhases
<1>6. QED
  BY <1>1, <1>2, <1>3, <1>4, <1>5, QuietStep

LEMMA DeployInv ==
  ASSUME GalaxyInv, NEW c \in Conns, Deploy(c)
  PROVE  GalaxyInv'
<1>1. PICK s \in Names, ptr \in SentPointers, pe \in Named :
        Await("genes", Job(c, "DEPLOY", Absent, pe[1], pe[2], Seed(s, ptr)))
  BY DEF Deploy
<1>2. Seed(s, ptr).name \in Names
  BY DEF Seed
<1>3. /\ phase' \in PlanetPhases
      /\ job' = Job(c, "DEPLOY", Absent, pe[1], pe[2], Seed(s, ptr))
  BY <1>1 DEF Await, PlanetPhases
<1>4. QED
  BY <1>2, <1>3, PlanetHandlerBegins DEF Deploy

LEMMA InteractInv ==
  ASSUME GalaxyInv, NEW c \in Conns, Interact(c)
  PROVE  GalaxyInv'
<1>1. PICK s \in Names, pe \in Named, first \in {"extinct", "reload"} :
        Await(first, Job(c, "EXTRACT", Absent, pe[1], pe[2], Seed(s, Prebaked)))
  BY DEF Interact
<1>2. Seed(s, Prebaked).name \in Names
  BY DEF Seed
<1>3. /\ phase' \in PlanetPhases
      /\ job' = Job(c, "EXTRACT", Absent, pe[1], pe[2], Seed(s, Prebaked))
  BY <1>1 DEF Await, PlanetPhases
<1>4. QED
  BY <1>2, <1>3, PlanetHandlerBegins DEF Interact

LEMMA GetGenesInv ==
  ASSUME GalaxyInv, NEW o \in Outcomes, GetGenes(o)
  PROVE  GalaxyInv'
<1>1. phase = "genes" /\ Request(o) /\ UNCHANGED <<chronosVars, commands, inv>> /\ Handling
  BY DEF GetGenes, Ask, Handling
<1>2. /\ process = "listening" /\ job.conn \in conns
      /\ DOMAIN job = JobFields /\ job.ordered \in 0..epoch
      /\ HttpTypeOK' /\ refusals' >= refusals
      /\ commands' \in 0..MaxCommands /\ inv' \in [Users -> Inventories]
  BY <1>1, AtRequest DEF GalaxyInv, TypeOK
<1>3. CASE ~Returns(o)
  <2>1. Terminate
    BY <1>3 DEF GetGenes
  <2>2. QED
    BY <1>1, <1>2, <2>1, ThrownInv
<1>4. CASE Returns(o)
  <2> DEFINE x == IF o = "answered" /\ Resolves(job.entry.pointer) THEN "some" ELSE "none"
  <2>1. /\ phase' = "deploy" /\ job' = [job EXCEPT !.genes = x]
        /\ UNCHANGED <<planetVars, sessionVars>>
    BY <1>4 DEF GetGenes, Await
  <2>2. x \in {"some", "none"}
    OBVIOUS
  <2> HIDE DEF x
  <2>3. /\ DOMAIN job' = JobFields /\ job'.conn = job.conn /\ job'.planet = job.planet
        /\ job'.epoch = job.epoch /\ job'.entry = job.entry /\ job'.genes = x
        /\ job'.ordered = job.ordered
    BY <1>2, <2>1, GenesRead
  <2>4. JobOK'
    BY <1>1, <2>1, <2>2, <2>3 DEF JobOK, PlanetPhases, planetVars, GalaxyInv
  <2>5. ResearchOK'
    BY <2>1 DEF ResearchOK
  <2>6. QED
    BY <1>1, <1>2, <2>1, <2>3, <2>4, <2>5, QuietStep DEF Phases, PlanetPhases
<1>5. QED
  BY <1>3, <1>4

\* What SetSpecies writes on record, if it arrives.
LEMMA SetSpeciesWrites ==
  ASSUME GalaxyInv, NEW o \in Outcomes, SetSpecies(o)
  PROVE  /\ phase \in {"deploy", "extinct"} /\ Request(o)
         /\ records' \in [Keys -> [Names -> Records \cup {Absent}]]
         /\ \A k \in Keys : k # Key(job.planet, job.epoch) => records'[k] = records[k]
<1>1. phase \in {"deploy", "extinct"} /\ Request(o)
  BY DEF SetSpecies, Ask
<1>2. /\ job.entry.name \in Names /\ job.genes \in {"some", "none"}
      /\ records \in [Keys -> [Names -> Records \cup {Absent}]]
  BY <1>1 DEF GalaxyInv, JobOK, PlanetPhases, TypeOK, ChronosTypeOK
<1>3. Deployed \in Records
  BY <1>2 DEF Deployed, Record, Records
<1>4. CASE UNCHANGED records
  BY <1>1, <1>2, <1>4
<1>5. CASE ~UNCHANGED records
  <2>1. PICK r \in Records \cup {Absent} :
          SetRecord(Key(job.planet, job.epoch), job.entry.name, r)
    BY <1>3, <1>5 DEF SetSpecies
  <2> DEFINE k == Key(job.planet, job.epoch)
             new == [records[k] EXCEPT ![job.entry.name] = r]
  <2>2. records' = [records EXCEPT ![k] = new]
    BY <2>1 DEF SetRecord
  <2>3. k \in Keys => new \in [Names -> Records \cup {Absent}]
    BY <1>2, <2>1
  <2> HIDE DEF k, new
  <2>4. records' \in [Keys -> [Names -> Records \cup {Absent}]]
    BY <1>2, <2>2, <2>3
  <2>5. \A l \in Keys : l # k => records'[l] = records[l]
    BY <1>2, <2>2
  <2>6. QED
    BY <1>1, <2>4, <2>5 DEF k
<1>6. QED
  BY <1>4, <1>5

LEMMA SetSpeciesInv ==
  ASSUME GalaxyInv, NEW o \in Outcomes, SetSpecies(o)
  PROVE  GalaxyInv'
<1> USE DEF GalaxyInv
<1>1. /\ phase \in {"deploy", "extinct"} /\ Request(o) /\ Handling
      /\ UNCHANGED <<epoch, commands, inv>>
      /\ records' \in [Keys -> [Names -> Records \cup {Absent}]]
  BY SetSpeciesWrites DEF SetSpecies, Handling
<1>2. /\ process = "listening" /\ job.conn \in conns /\ HttpTypeOK'
      /\ refusals' \in Nat /\ refusals' >= refusals
  BY <1>1, AtRequest
<1>3. ChronosTypeOK'
  BY <1>1 DEF TypeOK, ChronosTypeOK
<1>4. CASE ~Returns(o)
  <2>1. Terminate
    BY <1>4 DEF SetSpecies
  <2>2. QED
    BY <1>1, <1>2, <1>3, <2>1, TerminateInv DEF TypeOK
<1>5. CASE Returns(o)
  <2>1. /\ phase' = "reload" /\ job' = job /\ UNCHANGED <<mEpoch, mSpecies, sessionVars>>
        /\ astray' \in SUBSET Planets
    BY <1>5 DEF SetSpecies, Await, Sharing, TypeOK
  <2>2. TypeOK'
    BY <1>1, <1>2, <1>3, <2>1 DEF TypeOK, sessionVars
  <2>3. ProcessOK'
    BY <1>1, <1>2, <2>1 DEF ProcessOK, Handling, sessionVars
  <2>4. JobOK'
    BY <1>1, <2>1 DEF JobOK, PlanetPhases
  <2>5. ResearchOK'
    BY <2>1 DEF ResearchOK
  <2>6. LoadedOK'
    BY <1>1, <2>1 DEF LoadedOK
  <2>7. SyncOK'
    BY <1>1, <1>2, <2>1 DEF SyncOK, sessionVars, TypeOK, HttpTypeOK
  <2>8. QED
    BY <2>2, <2>3, <2>4, <2>5, <2>6, <2>7
<1>6. QED
  BY <1>4, <1>5

\* What ReloadPlanet puts into the planet.
LEMMA ReloadLists ==
  ASSUME GalaxyInv, NEW o \in Outcomes, ReloadPlanet(o), Returns(o)
  PROVE  /\ mSpecies' \in [Planets -> SUBSET Names] /\ astray' \in SUBSET Planets
         /\ \A p \in Planets : p # job.planet =>
               mSpecies'[p] = mSpecies[p] /\ (p \in astray => p \in astray')
         /\ \A p \in Planets : p = job.planet /\ mEpoch[p] # 0 =>
               \/ mEpoch[p] # job.epoch /\ p \in astray'
               \/ mEpoch[p] = job.epoch /\ mSpecies'[p] = SpeciesListed(o)
         /\ phase' = "idle" /\ job' = NoJob /\ UNCHANGED <<mEpoch, sessionVars>>
<1>1. mSpecies \in [Planets -> SUBSET Names] /\ astray \subseteq Planets
  BY DEF GalaxyInv, TypeOK
<1>2. SpeciesListed(o) \in SUBSET Names
  BY DEF SpeciesListed, Listing
<1>3. phase' = "idle" /\ job' = NoJob /\ UNCHANGED <<mEpoch, sessionVars>>
  BY DEF ReloadPlanet, Return, Await
<1>4. CASE Found
  <2>1. /\ mSpecies' = [mSpecies EXCEPT ![job.planet] = SpeciesListed(o)]
        /\ astray' = IF job.epoch = mEpoch[job.planet] THEN astray \ {job.planet}
                     ELSE astray \cup {job.planet}
        /\ job.planet \in Planets
    BY <1>4 DEF ReloadPlanet, Found
  <2>2. QED
    BY <1>1, <1>2, <1>3, <2>1
<1>5. CASE ~Found
  BY <1>1, <1>3, <1>5 DEF ReloadPlanet, Found
<1>6. QED
  BY <1>4, <1>5

LEMMA ReloadPlanetInv ==
  ASSUME GalaxyInv, NEW o \in Outcomes, ReloadPlanet(o)
  PROVE  GalaxyInv'
<1> USE DEF GalaxyInv
<1>1. phase = "reload" /\ Request(o) /\ UNCHANGED <<chronosVars, commands, inv>> /\ Handling
  BY DEF ReloadPlanet, Ask, Handling
<1>2. /\ process = "listening" /\ job.conn \in conns /\ epoch \in 1..MaxEpoch
      /\ HttpTypeOK' /\ refusals' \in Nat /\ refusals' >= refusals
  BY <1>1, AtRequest
<1>3. CASE ~Returns(o)
  <2>1. Terminate
    BY <1>3 DEF ReloadPlanet
  <2>2. QED
    BY <1>1, <1>2, <2>1, ThrownInv DEF TypeOK
<1>4. CASE Returns(o)
  <2>1. /\ mSpecies' \in [Planets -> SUBSET Names] /\ astray' \in SUBSET Planets
        /\ phase' = "idle" /\ job' = NoJob /\ UNCHANGED <<mEpoch, sessionVars>>
    BY <1>4, ReloadLists
  <2>2. TypeOK'
    BY <1>1, <1>2, <2>1 DEF TypeOK, ChronosTypeOK, chronosVars, sessionVars
  <2>3. ProcessOK'
    BY <1>1, <1>2, <2>1, NoJobShape DEF ProcessOK, Handling, chronosVars, sessionVars
  <2>4. JobOK' /\ ResearchOK'
    BY <2>1 DEF JobOK, ResearchOK, PlanetPhases
  <2>5. LoadedOK'
    BY <1>1, <2>1 DEF LoadedOK, chronosVars, sessionVars
  <2>6. SyncOK'
    BY <1>1, <1>2, <2>1 DEF SyncOK, sessionVars, TypeOK, HttpTypeOK
  <2>7. QED
    BY <2>2, <2>3, <2>4, <2>5, <2>6
<1>5. QED
  BY <1>3, <1>4
-----------------------------------------------------------------------------
LEMMA HandlerStepInv ==
  ASSUME GalaxyInv, HandlerStep
  PROVE  GalaxyInv'
  BY GetGlobalEpochInv, SampleSpeciesInv, WriteEntryInv, ShowInventoryInv,
     GetGenesInv, SetSpeciesInv, ReloadPlanetInv DEF HandlerStep

LEMMA CommandInv ==
  ASSUME GalaxyInv, NEW c \in Conns, Command(c)
  PROVE  GalaxyInv'
  BY InventoryEndpointInv, DeployInv, InteractInv DEF Command

LEMMA UnchangedInv ==
  ASSUME GalaxyInv, UNCHANGED vars
  PROVE  GalaxyInv'
<1> USE DEF GalaxyInv, vars, httpVars, chronosVars, planetVars, sessionVars, handlerVars
<1>1. TypeOK' /\ ProcessOK'
  BY DEF TypeOK, HttpTypeOK, ChronosTypeOK, ProcessOK, Handling
<1>2. JobOK' /\ LoadedOK' /\ SyncOK' /\ ResearchOK'
  BY DEF JobOK, LoadedOK, SyncOK, ResearchOK
<1>3. QED
  BY <1>1, <1>2

LEMMA GalaxyInvariant == Spec => []GalaxyInv
<1>1. GalaxyInv /\ [Next]_vars => GalaxyInv'
  <2> SUFFICES ASSUME GalaxyInv, [Next]_vars PROVE GalaxyInv'
    OBVIOUS
  <2>1. CASE Lifecycle /\ UNCHANGED inv
    BY <2>1, StartInv, LoadPlanetInv DEF Lifecycle
  <2>2. CASE Chronos
    BY <2>2, AdvanceInv
  <2>3. CASE \E c \in Conns : Session(c) \/ Command(c)
    BY <2>3, SessionInv, CommandInv
  <2>4. CASE HandlerStep
    BY <2>4, HandlerStepInv
  <2>5. CASE UNCHANGED vars
    BY <2>5, UnchangedInv
  <2>6. QED
    BY <2>1, <2>2, <2>3, <2>4, <2>5 DEF Next
<1>2. QED
  BY <1>1, InitInv, PTL DEF Spec

\* The variables of Galaxy keep their types (TypeOK), whatever the numbers of
\* planets, players, slots and epochs.
THEOREM GalaxyTypeCorrect == Spec => []TypeOK
  BY GalaxyInvariant, PTL DEF GalaxyInv

\* Between two handlers the inventory a session was shown last is the one on
\* record (see InventoryInSync).
THEOREM InventoriesStayInSync == Spec => []InventoryInSync
<1>1. GalaxyInv => InventoryInSync
  BY DEF GalaxyInv, SyncOK, InventoryInSync
<1>2. QED
  BY <1>1, GalaxyInvariant, PTL

\* Research is never written with less than RESEARCH_EPOCHS to go since it was
\* ordered, nor with more than that from now (see ResearchTakesItsTime).
THEOREM ResearchAlwaysTakesItsTime == Spec => ResearchTakesItsTime
<1> DEFINE Timely ==
      \A u \in Users, k \in Slots :
          /\ refusals = 0
          /\ inv'[u][k] # inv[u][k] /\ inv'[u][k] # Absent
          /\ inv'[u][k].type = "Research"
          => /\ inv'[u][k].done >= job.ordered + RESEARCH_EPOCHS
             /\ inv'[u][k].done <= epoch + RESEARCH_EPOCHS
<1>1. GalaxyInv /\ [Next]_vars => [Timely]_vars
  <2> SUFFICES ASSUME GalaxyInv, Next, NEW u \in Users, NEW k \in Slots,
                      refusals = 0, inv'[u][k] # inv[u][k], inv'[u][k] # Absent,
                      inv'[u][k].type = "Research"
               PROVE  /\ inv'[u][k].done >= job.ordered + RESEARCH_EPOCHS
                      /\ inv'[u][k].done <= epoch + RESEARCH_EPOCHS
    OBVIOUS
  <2>1. PICK o \in Outcomes : WriteEntry(o)
    <3>1. ~UNCHANGED inv
      OBVIOUS
    <3>2. \A c \in Conns : Session(c) \/ Command(c) => UNCHANGED inv
      BY DEF Session, Command, InventoryEndpoint, Deploy, Interact
    <3>3. Chronos => UNCHANGED inv
      BY DEF Chronos
    <3>4. HandlerStep
      BY <3>1, <3>2, <3>3 DEF Next
    <3>5. QED
      BY <3>1, <3>4 DEF HandlerStep, GetGlobalEpoch, SampleSpecies, ShowInventory, GetGenes,
                        SetSpecies, ReloadPlanet
  <2>2. phase = "write"
    BY <2>1 DEF WriteEntry, Ask
  <2>3. /\ job.slot \in Slots /\ job.entry \in Entries \cup {Absent}
        /\ inv \in [Users -> Inventories] /\ job.ordered \in 0..epoch
        /\ epoch \in 1..MaxEpoch
    BY <2>2 DEF GalaxyInv, JobOK, TypeOK, ProcessOK, ChronosTypeOK, Epochs
  <2>4. inv[u] \in [Slots -> Entries \cup {Absent}]
    BY <2>3 DEF Inventories
  <2>5. SetEntry(user[job.conn], job.slot, job.entry)
    BY <2>1 DEF WriteEntry, PutEntry
  <2>6. inv'[u][k] = job.entry
    BY <2>3, <2>4, <2>5 DEF SetEntry
  <2>7. /\ job.entry.done = job.entry.started + RESEARCH_EPOCHS
        /\ job.entry.started <= epoch /\ job.entry.started >= job.ordered
    BY <2>2, <2>6 DEF GalaxyInv, ResearchOK
  <2>8. job.entry.started \in Nat
    BY <2>3, <2>6 DEF Entries
  <2>9. QED
    BY <2>3, <2>6, <2>7, <2>8 DEF RESEARCH_EPOCHS
<1>2. QED
  BY <1>1, GalaxyInvariant, PTL DEF Spec, ResearchTakesItsTime
-----------------------------------------------------------------------------
(* The planets in memory.                                                      *)

\* The listing of a planet does not change with the records of other keys.
LEMMA OtherRecords ==
  ASSUME NEW k \in Keys, records'[k] = records[k]
  PROVE  Listing(k)' = Listing(k)
  BY DEF Listing, Recorded, Keys, Epochs, Identifiers

\* The planets keep their listings when neither they nor their records change.
LEMMA ListingsKept ==
  ASSUME GalaxyInv, ListingOK, refusals' \in Nat, refusals' >= refusals,
         UNCHANGED <<mEpoch, mSpecies>>,
         phase = "reload" => UNCHANGED <<phase, job>>,
         \A p \in Planets : p \in astray => p \in astray',
         \A p \in Planets : mEpoch[p] # 0 =>
            \/ records'[Key(p, mEpoch[p])] = records[Key(p, mEpoch[p])]
            \/ p \in astray'
            \/ phase' = "reload" /\ p = job'.planet
  PROVE  ListingOK'
<1> SUFFICES ASSUME NEW p \in Planets, mEpoch[p] # 0, p \notin astray',
                    ~(phase' = "reload" /\ p = job'.planet),
                    ~(refusals' > 0 /\ mSpecies[p] = {})
             PROVE  mSpecies[p] = Listing(Key(p, mEpoch[p]))'
  BY DEF ListingOK
<1>1. mEpoch[p] \in Epochs
  <2>1. mEpoch \in [Planets -> 0..MaxEpoch]
    BY DEF GalaxyInv, TypeOK
  <2>2. mEpoch[p] \in 0..MaxEpoch
    BY <2>1
  <2>3. QED
    BY <2>2 DEF Epochs
<1>2. PICK k \in Keys : k = Key(p, mEpoch[p])
  BY <1>1 DEF Keys, Identifiers
<1>3. records'[k] = records[k]
  BY <1>2
<1>4. mSpecies[p] = Listing(k)
  <2>1. refusals \in Nat
    BY DEF GalaxyInv, TypeOK, HttpTypeOK
  <2>2. ~(refusals > 0 /\ mSpecies[p] = {})
    BY <2>1
  <2>3. QED
    BY <1>2, <2>2 DEF ListingOK
<1>5. Listing(k)' = Listing(k)
  BY <1>3, OtherRecords
<1>6. Key(p, mEpoch[p])' = k
  BY <1>2 DEF Key
<1>7. QED
  BY <1>4, <1>5, <1>6

LEMMA TerminateListing == Terminate => ListingOK'
  BY DEF Terminate, NoPlanets, ListingOK

LEMMA LoadPlanetListing ==
  ASSUME GalaxyInv, ListingOK, NEW o \in Outcomes, LoadPlanet(o)
  PROVE  ListingOK'
<1>1. CASE ~Returns(o)
  BY <1>1, TerminateListing DEF LoadPlanet
<1>2. CASE Returns(o)
  <2> DEFINE q == CHOOSE q \in Planets : mEpoch[q] = 0
             listing == IF o = "answered" THEN Listing(Key(q, job.epoch)) ELSE {}
  <2>1. /\ mEpoch' = [mEpoch EXCEPT ![q] = job.epoch]
        /\ mSpecies' = [mSpecies EXCEPT ![q] = listing]
        /\ UNCHANGED <<records, astray>>
    BY <1>2 DEF LoadPlanet, chronosVars
  <2>2. /\ mEpoch \in [Planets -> 0..MaxEpoch] /\ mSpecies \in [Planets -> SUBSET Names]
        /\ phase = "load" /\ refusals \in Nat
        /\ refusals' \in Nat /\ refusals' >= refusals /\ (ReadsEmpty(o) => refusals' > 0)
    BY RequestCounts DEF GalaxyInv, TypeOK, HttpTypeOK, LoadPlanet, Ask
  <2>3. (refusals' > 0 /\ listing = {}) \/ listing = Listing(Key(q, job.epoch))
    BY <1>2, <2>2 DEF Returns
  <2> HIDE DEF q, listing
  <2> SUFFICES ASSUME NEW p \in Planets, mEpoch'[p] # 0, p \notin astray
               PROVE  \/ refusals' > 0 /\ mSpecies'[p] = {}
                      \/ mSpecies'[p] = Listing(Key(p, mEpoch[p]))'
    BY <2>1 DEF ListingOK
  <2>4. \A k : Listing(k)' = Listing(k)
    BY <2>1 DEF Listing, Recorded, Keys, Epochs, Identifiers
  <2>5. CASE p = q
    <3>1. mEpoch'[p] = job.epoch /\ mSpecies'[p] = listing
      BY <2>1, <2>2, <2>5
    <3>2. PICK k : k = Key(p, job.epoch)
      OBVIOUS
    <3>3. Key(p, mEpoch[p])' = k
      BY <3>1, <3>2 DEF Key
    <3>4. (refusals' > 0 /\ listing = {}) \/ listing = Listing(k)
      BY <2>3, <2>5, <3>2
    <3>5. QED
      BY <2>4, <3>1, <3>3, <3>4
  <2>6. CASE p # q
    <3>1. mEpoch'[p] = mEpoch[p] /\ mSpecies'[p] = mSpecies[p]
      BY <2>1, <2>2, <2>6
    <3>2. PICK k : k = Key(p, mEpoch[p])
      OBVIOUS
    <3>3. Key(p, mEpoch[p])' = k
      BY <3>1, <3>2 DEF Key
    <3>4. (refusals > 0 /\ mSpecies[p] = {}) \/ mSpecies[p] = Listing(k)
      BY <2>2, <3>1, <3>2 DEF ListingOK
    <3>5. refusals > 0 => refusals' > 0
      BY <2>2
    <3>6. QED
      BY <2>4, <3>1, <3>3, <3>4, <3>5
  <2>7. QED
    BY <2>5, <2>6
<1>3. QED
  BY <1>1, <1>2

LEMMA ReloadPlanetListing ==
  ASSUME GalaxyInv, ListingOK, NEW o \in Outcomes, ReloadPlanet(o)
  PROVE  ListingOK'
<1>1. CASE ~Returns(o)
  BY <1>1, TerminateListing DEF ReloadPlanet
<1>2. CASE Returns(o)
  <2>1. /\ \A p \in Planets : p # job.planet =>
              mSpecies'[p] = mSpecies[p] /\ (p \in astray => p \in astray')
        /\ \A p \in Planets : p = job.planet /\ mEpoch[p] # 0 =>
              \/ mEpoch[p] # job.epoch /\ p \in astray'
              \/ mEpoch[p] = job.epoch /\ mSpecies'[p] = SpeciesListed(o)
        /\ mEpoch' = mEpoch
    BY <1>2, ReloadLists
  <2>2. /\ UNCHANGED records /\ phase = "reload" /\ refusals \in Nat
        /\ refusals' \in Nat /\ refusals' >= refusals /\ (ReadsEmpty(o) => refusals' > 0)
    BY RequestCounts DEF ReloadPlanet, Ask, chronosVars, GalaxyInv, TypeOK, HttpTypeOK
  <2> SUFFICES ASSUME NEW p \in Planets, mEpoch[p] # 0, p \notin astray'
               PROVE  \/ refusals' > 0 /\ mSpecies'[p] = {}
                      \/ mSpecies'[p] = Listing(Key(p, mEpoch[p]))'
    BY <2>1 DEF ListingOK
  <2>3. \A k : Listing(k)' = Listing(k)
    BY <2>2 DEF Listing, Recorded, Keys, Epochs, Identifiers
  <2>4. PICK k : k = Key(p, mEpoch[p])
    OBVIOUS
  <2>5. Key(p, mEpoch[p])' = k
    BY <2>1, <2>4 DEF Key
  <2>6. CASE p # job.planet
    <3>1. (refusals > 0 /\ mSpecies[p] = {}) \/ mSpecies[p] = Listing(k)
      BY <2>1, <2>4, <2>6 DEF ListingOK
    <3>2. refusals > 0 => refusals' > 0
      BY <2>2
    <3>3. QED
      BY <2>1, <2>3, <2>5, <2>6, <3>1, <3>2
  <2>7. CASE p = job.planet
    <3>1. mEpoch[p] = job.epoch /\ mSpecies'[p] = SpeciesListed(o)
      BY <2>1, <2>7
    <3>2. o = "answered" => mSpecies'[p] = Listing(k)
      BY <2>4, <2>7, <3>1 DEF SpeciesListed
    <3>3. o # "answered" => refusals' > 0 /\ mSpecies'[p] = {}
      BY <1>2, <2>2, <3>1 DEF SpeciesListed, Returns
    <3>4. QED
      BY <2>3, <2>5, <3>2, <3>3
  <2>8. QED
    BY <2>6, <2>7
<1>3. QED
  BY <1>1, <1>2

LEMMA SetSpeciesListing ==
  ASSUME GalaxyInv, ListingOK, NEW o \in Outcomes, SetSpecies(o)
  PROVE  ListingOK'
<1>1. CASE ~Returns(o)
  BY <1>1, TerminateListing DEF SetSpecies
<1>2. CASE Returns(o)
  <2>1. /\ phase' = "reload" /\ job' = job /\ UNCHANGED <<mEpoch, mSpecies>>
        /\ astray' = IF Applied(o)
                     THEN astray \cup (Sharing(Key(job.planet, job.epoch)) \ {job.planet})
                     ELSE astray
    BY <1>2 DEF SetSpecies, Await
  <2>2. /\ phase \in {"deploy", "extinct"} /\ Request(o)
        /\ \A k \in Keys : k # Key(job.planet, job.epoch) => records'[k] = records[k]
    BY SetSpeciesWrites
  <2>3. refusals' \in Nat /\ refusals' >= refusals
    BY <2>2, RequestCounts DEF GalaxyInv, TypeOK
  <2>4. ASSUME NEW p \in Planets, mEpoch[p] # 0, p # job.planet, p \notin astray'
        PROVE  records'[Key(p, mEpoch[p])] = records[Key(p, mEpoch[p])]
    <3>1. mEpoch[p] \in Epochs
      BY <2>4 DEF GalaxyInv, TypeOK, Epochs
    <3>2. Key(p, mEpoch[p]) \in Keys
      BY <3>1 DEF Keys, Identifiers
    <3>3. CASE Applied(o)
      <4>1. Key(p, mEpoch[p]) # Key(job.planet, job.epoch)
        BY <2>1, <2>4, <3>3 DEF Sharing
      <4>2. QED
        BY <2>2, <3>2, <4>1
    <3>4. CASE ~Applied(o)
      BY <3>4 DEF SetSpecies
    <3>5. QED
      BY <3>3, <3>4
  <2>5. QED
    BY <2>1, <2>2, <2>3, <2>4, ListingsKept
<1>3. QED
  BY <1>1, <1>2

\* A new epoch writes the records of that epoch.
LEMMA AdvanceWrites ==
  ASSUME GalaxyInv, Chronos, NEW k \in Keys, ~\E p \in Planets : k = Key(p, epoch + 1)
  PROVE  records'[k] = records[k]
<1>1. PICK extinct \in SUBSET Names :
        records' = [l \in Keys |-> [s \in Names |->
            IF \E p \in Planets : l = Key(p, epoch + 1)
            THEN IF s \in extinct THEN Absent
                 ELSE records[Key(CHOOSE p \in Planets : l = Key(p, epoch + 1), epoch)][s]
            ELSE records[l][s]]]
  BY DEF Chronos, Advance
<1>2. records'[k] = [s \in Names |-> records[k][s]]
  BY <1>1
<1>3. records[k] \in [Names -> Records \cup {Absent}]
  BY DEF GalaxyInv, TypeOK, ChronosTypeOK
<1>4. QED
  BY <1>2, <1>3

LEMMA AdvanceListing ==
  ASSUME GalaxyInv, ListingOK, Chronos
  PROVE  ListingOK'
<1>1. /\ UNCHANGED <<httpVars, mEpoch, mSpecies, handlerVars>>
      /\ astray' = astray \cup UNION {Sharing(Key(p, epoch + 1)) : p \in Planets}
  BY DEF Chronos
<1>2. ASSUME NEW p \in Planets, mEpoch[p] # 0, p \notin astray'
      PROVE  records'[Key(p, mEpoch[p])] = records[Key(p, mEpoch[p])]
  <2>1. mEpoch[p] \in Epochs
    BY <1>2 DEF GalaxyInv, TypeOK, Epochs
  <2>2. Key(p, mEpoch[p]) \in Keys
    BY <2>1 DEF Keys, Identifiers
  <2>3. ASSUME NEW q \in Planets, Key(p, mEpoch[p]) = Key(q, epoch + 1)
        PROVE  FALSE
    <3>1. p \in Sharing(Key(q, epoch + 1))
      BY <1>2, <2>3 DEF Sharing
    <3>2. QED
      BY <1>1, <1>2, <3>1
  <2>4. QED
    BY <2>2, <2>3, AdvanceWrites
<1>3. refusals' \in Nat /\ refusals' >= refusals
  BY <1>1 DEF httpVars, GalaxyInv, TypeOK, HttpTypeOK
<1>4. QED
  BY <1>1, <1>2, <1>3, ListingsKept DEF handlerVars

\* The other steps leave the planets and the records alone.
LEMMA OtherListing ==
  ASSUME GalaxyInv, ListingOK,
         \/ \E o \in Outcomes : Start(o)
         \/ \E c \in Conns : Session(c) \/ Command(c)
         \/ \E o \in Outcomes :
               GetGlobalEpoch(o) \/ SampleSpecies(o) \/ WriteEntry(o) \/ ShowInventory(o)
               \/ GetGenes(o)
         \/ UNCHANGED vars
  PROVE  ListingOK'
<1> DEFINE Quiet == /\ UNCHANGED <<records, mEpoch, mSpecies, astray>>
                    /\ phase = "reload" => UNCHANGED <<phase, job>>
           Counted == refusals' \in Nat /\ refusals' >= refusals
<1>1. Quiet /\ Counted => ListingOK'
  BY ListingsKept
<1>2. ASSUME NEW o \in Outcomes, Start(o) PROVE Quiet /\ Counted
  <2>1. Counted
    BY <1>2, RequestCounts DEF Start, GalaxyInv, TypeOK
  <2>2. QED
    BY <1>2, <2>1 DEF Start, chronosVars, planetVars, GalaxyInv, ProcessOK
<1>3. UNCHANGED httpVars => Counted
  BY DEF httpVars, GalaxyInv, TypeOK, HttpTypeOK
<1>4. ASSUME NEW c \in Conns, Session(c) \/ Command(c) PROVE Quiet /\ Counted
  BY <1>3, <1>4 DEF Session, OnConnectionOpen, OnConnectionClose, LogIn, Free, Command,
              InventoryEndpoint, Deploy, Interact, chronosVars, planetVars, handlerVars
<1>5. ASSUME NEW o \in Outcomes,
             \/ GetGlobalEpoch(o) \/ SampleSpecies(o) \/ WriteEntry(o) \/ ShowInventory(o)
             \/ GetGenes(o)
      PROVE  Terminate \/ (Quiet /\ Counted)
  <2>1. Request(o)
    BY <1>5 DEF GetGlobalEpoch, SampleSpecies, WriteEntry, ShowInventory, GetGenes, Ask
  <2>2. Counted
    BY <2>1, RequestCounts DEF GalaxyInv, TypeOK
  <2>3. Terminate \/ Quiet
    BY <1>5 DEF GetGlobalEpoch, SampleSpecies, WriteEntry, ShowInventory, GetGenes, Ask,
              chronosVars, planetVars
  <2>4. QED
    BY <2>2, <2>3
<1>6. UNCHANGED vars => Quiet /\ Counted
  BY <1>3 DEF vars, chronosVars, planetVars, handlerVars
<1>7. QED
  BY <1>1, <1>2, <1>4, <1>5, <1>6, TerminateListing

\* A planet in memory lists the species on record for the epoch it was loaded in,
\* but where an interaction that named another epoch, or a write to a key it
\* shares, has led it astray (see PlanetOfItsEpoch): whatever planets, epochs and
\* pointers the messages name, and however many digits they have.
THEOREM PlanetsStayInTheirEpoch == Spec => []PlanetOfItsEpoch
<1>1. Init => ListingOK
  BY DEF Init, ListingOK
<1>2. GalaxyInv /\ ListingOK /\ [Next]_vars => ListingOK'
  <2> SUFFICES ASSUME GalaxyInv, ListingOK, [Next]_vars PROVE ListingOK'
    OBVIOUS
  <2>1. CASE Lifecycle
    BY <2>1, LoadPlanetListing, OtherListing DEF Lifecycle
  <2>2. CASE Chronos
    BY <2>2, AdvanceListing
  <2>3. CASE \E c \in Conns : Session(c) \/ Command(c)
    BY <2>3, OtherListing
  <2>4. CASE HandlerStep
    BY <2>4, SetSpeciesListing, ReloadPlanetListing, OtherListing DEF HandlerStep
  <2>5. CASE UNCHANGED vars
    BY <2>5, OtherListing
  <2>6. QED
    BY <2>1, <2>2, <2>3, <2>4, <2>5 DEF Next
<1>3. ListingOK => PlanetOfItsEpoch
  <2> SUFFICES ASSUME ListingOK, phase = "idle", NEW p \in Planets, mEpoch[p] # 0,
                      p \notin astray, ~(refusals > 0 /\ mSpecies[p] = {})
               PROVE  mSpecies[p] = {s \in Names : Recorded(Digits[p] \o Digits[mEpoch[p]], s)}
    BY DEF PlanetOfItsEpoch
  <2>1. mSpecies[p] = Listing(Digits[p] \o Digits[mEpoch[p]])
    BY DEF ListingOK, Key
  <2>2. QED
    BY <2>1 DEF Listing, Recorded
<1>4. QED
  BY <1>1, <1>2, <1>3, GalaxyInvariant, PTL DEF Spec

\* What is on record of a planet in an epoch the world has been in is changed by
\* no command and no new epoch of another planet or epoch, unless its number has
\* another number of digits (see RecordsApart): std::to_string is injective, so two
\* keys with equally long ends are equal only if both numbers are. It does not
\* matter where the handlers were when the epoch changed.
THEOREM RecordsStayApart == Spec => RecordsApart
<1> DEFINE Apart ==
      \A p \in Planets, e \in 1..epoch :
          records'[Key(p, e)] # records[Key(p, e)] =>
              \/ epoch' = epoch /\ job.planet = p /\ job.epoch = e
              \/ epoch' = epoch /\ Len(Digits[job.epoch]) # Len(Digits[e])
              \/ epoch' # epoch /\ Len(Digits[epoch']) # Len(Digits[e])
<1>1. GalaxyInv /\ [Next]_vars => [Apart]_vars
  <2> SUFFICES ASSUME GalaxyInv, Next, NEW p \in Planets, NEW e \in 1..epoch,
                      records'[Key(p, e)] # records[Key(p, e)]
               PROVE  \/ epoch' = epoch /\ job.planet = p /\ job.epoch = e
                      \/ epoch' = epoch /\ Len(Digits[job.epoch]) # Len(Digits[e])
                      \/ epoch' # epoch /\ Len(Digits[epoch']) # Len(Digits[e])
    OBVIOUS
  <2>1. /\ epoch \in 1..MaxEpoch /\ p \in Nat /\ e \in Nat /\ e <= epoch /\ e \in Epochs
    BY DEF GalaxyInv, TypeOK, ChronosTypeOK, Epochs
  <2>2. Key(p, e) \in Keys
    BY <2>1 DEF Keys, Identifiers
  <2>3. CASE Chronos
    <3>1. epoch' = epoch + 1
      BY <2>3 DEF Chronos, Advance
    <3>2. PICK q \in Planets : Key(p, e) = Key(q, epoch + 1)
      BY <2>2, <2>3, AdvanceWrites
    <3>3. Len(Digits[epoch + 1]) # Len(Digits[e])
      <4>1. SUFFICES ASSUME Len(Digits[e]) = Len(Digits[epoch + 1]) PROVE FALSE
        OBVIOUS
      <4>2. q \in Nat /\ epoch + 1 \in Nat
        BY <2>1
      <4>3. e = epoch + 1
        BY <2>1, <3>2, <4>1, <4>2, KeysTellApart
      <4>4. QED
        BY <2>1, <4>3
    <3>4. QED
      BY <2>1, <3>1, <3>3
  <2>4. CASE \E o \in Outcomes : SetSpecies(o)
    <3>1. PICK o \in Outcomes : SetSpecies(o)
      BY <2>4
    <3>2. epoch' = epoch
      BY <3>1 DEF SetSpecies
    <3>3. phase \in {"deploy", "extinct"} /\ Key(p, e) = Key(job.planet, job.epoch)
      BY <2>2, <3>1, SetSpeciesWrites
    <3>4. job.planet \in Nat /\ job.epoch \in Nat
      BY <3>3 DEF GalaxyInv, JobOK, PlanetPhases
    <3>5. Len(Digits[e]) = Len(Digits[job.epoch]) => p = job.planet /\ e = job.epoch
      BY <2>1, <3>3, <3>4, KeysTellApart
    <3>6. QED
      BY <3>2, <3>5
  <2>5. QED
    <3>1. ~UNCHANGED records
      OBVIOUS
    <3>2. \A c \in Conns : Session(c) \/ Command(c) => UNCHANGED records
      BY DEF Session, OnConnectionOpen, OnConnectionClose, LogIn, Command, InventoryEndpoint,
             Deploy, Interact, chronosVars
    <3>3. Lifecycle => UNCHANGED records
      BY DEF Lifecycle, Start, LoadPlanet, chronosVars
    <3>4. Chronos \/ HandlerStep
      BY <3>1, <3>2, <3>3 DEF Next
    <3>5. Chronos \/ \E o \in Outcomes : SetSpecies(o)
      BY <3>1, <3>4 DEF HandlerStep, GetGlobalEpoch, SampleSpecies, WriteEntry, ShowInventory,
                        GetGenes, ReloadPlanet, chronosVars
    <3>6. QED
      BY <2>3, <2>4, <3>5
<1>2. QED
  BY <1>1, GalaxyInvariant, PTL DEF Spec, RecordsApart
=============================================================================
