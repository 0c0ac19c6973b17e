------------------------------ MODULE ZosProofs ------------------------------
(***************************************************************************)
(* Proofs about the two halves of a SELECT on Db2 for z/OS: its section    *)
(* and the cache (ZosSelect), for any SELECTs and any number of sections,  *)
(* cache entries and calls; and its LOBs (LobChunks), for any columns,     *)
(* rows, lengths, chunk limits, windows, batches, changes and repetitions. *)
(***************************************************************************)
EXTENDS ZosSelect, LobChunks, SequenceLemmas, FiniteSetTheorems

-----------------------------------------------------------------------------
(* The select cache *)

Sections == 1..MaxSection
Filled(cache) == {q \in Selects : cache[q] # 0}
InCacheOf(cache) == {cache[q] : q \in Selects} \ {0}
One(section) == IF section # 0 THEN {section} ELSE {}

\* Every section handed out is free or owned, but for section 1.
Stock(free, next, owned) ==
    /\ free \in Seq(Sections) /\ IsInjective(free)
    /\ next \in 1..(MaxSection + 1)
    /\ Range(free) \cap owned = {}
    /\ Range(free) \cup owned \subseteq 1..(next - 1)
    /\ (1..(next - 1)) \ {Direct} \subseteq Range(free) \cup owned

Distinct(cache) ==
    /\ cache \in [Selects -> 0..MaxSection]
    /\ \A p, q \in Selects : cache[p] = cache[q] /\ cache[p] # 0 => p = q
    /\ \A q \in Selects : cache[q] # Direct

\* The owners of a section: the cache, a call, prepared statements, nobody.
Owned(cache, mine, stmts, gone) == InCacheOf(cache) \cup mine \cup stmts \cup gone
Disjoint(cache, mine, stmts, gone) ==
    /\ InCacheOf(cache) \cap mine = {} /\ InCacheOf(cache) \cap stmts = {}
    /\ InCacheOf(cache) \cap gone = {} /\ mine \cap stmts = {}
    /\ mine \cap gone = {} /\ stmts \cap gone = {}

Accounts(free, next, cache, mine, stmts, gone) ==
    /\ Stock(free, next, Owned(cache, mine, stmts, gone))
    /\ Disjoint(cache, mine, stmts, gone)
    /\ Distinct(cache)
    /\ Cardinality(Filled(cache)) <= MaxEntries
-----------------------------------------------------------------------------
(* The free sections *)

LEMMA AllocateStock ==
    ASSUME NEW free, NEW next, NEW owned, Stock(free, next, owned),
           NEW got, got = Allocate(free, next)
    PROVE  /\ got.section = 0 => Stock(got.free, got.next, owned)
           /\ got.section # 0 => /\ got.section \in Sections \ owned
                                 /\ Stock(got.free, got.next, owned \cup {got.section})
<1> USE ZosSelectAssumption
<1>1. CASE free # <<>>
  <2>1. got = [section |-> Last(free), free |-> Front(free), next |-> next]
    BY <1>1 DEF Allocate
  <2>2. /\ Range(Front(free)) = Range(free) \ {Last(free)} /\ IsInjective(Front(free))
        /\ Last(free) \in Range(free)
    BY <1>1, FrontOwned DEF Stock
  <2>3. Front(free) \in Seq(Sections) /\ Last(free) \in Sections
    BY <1>1, FrontType DEF Stock
  <2> QED
    BY <2>1, <2>2, <2>3 DEF Stock, Sections
<1>2. CASE free = <<>> /\ next <= MaxSection
  <2>1. got = [section |-> next, free |-> free, next |-> next + 1]
    BY <1>2 DEF Allocate
  <2>2. next \in Sections \ owned /\ next + 1 \in 1..(MaxSection + 1)
    BY <1>2 DEF Stock, Sections
  <2>3. 1..next = (1..(next - 1)) \cup {next}
    BY <2>2 DEF Sections
  <2>4. Range(free) = {}
    BY <1>2, NoneOwned
  <2>5. Stock(free, next + 1, owned \cup {next})
    BY <2>2, <2>3, <2>4 DEF Stock, Sections
  <2> QED
    BY <2>1, <2>2, <2>5 DEF Sections
<1>3. CASE free = <<>> /\ ~(next <= MaxSection)
  BY <1>3 DEF Allocate
<1> QED
  BY <1>1, <1>2, <1>3

LEMMA AllocateCachedStock ==
    ASSUME NEW free, NEW next, NEW owned, Stock(free, next, owned),
           NEW got, got = AllocateCached(free, next)
    PROVE  /\ got.section = 0 => Stock(got.free, got.next, owned)
           /\ got.section # 0 => /\ got.section \in Sections \ (owned \cup {Direct})
                                 /\ Stock(got.free, got.next, owned \cup {got.section})
<1> DEFINE first == Allocate(free, next)
<1>1. /\ first.section = 0 => Stock(first.free, first.next, owned)
      /\ first.section # 0 => /\ first.section \in Sections \ owned
                              /\ Stock(first.free, first.next, owned \cup {first.section})
  BY AllocateStock
<1> HIDE DEF first
<1>2. got = IF first.section = Direct THEN Allocate(first.free, first.next) ELSE first
  BY DEF AllocateCached, first
<1>3. CASE first.section # Direct
  BY <1>1, <1>2, <1>3
<1>4. CASE first.section = Direct
  <2>1. Stock(first.free, first.next, owned \cup {Direct}) /\ Direct # 0
    BY <1>1, <1>4 DEF Direct
  <2>2. got = Allocate(first.free, first.next)
    BY <1>2, <1>4
  <2>3. /\ got.section = 0 => Stock(got.free, got.next, owned \cup {Direct})
        /\ got.section # 0 => /\ got.section \in Sections \ (owned \cup {Direct})
                              /\ Stock(got.free, got.next,
                                       (owned \cup {Direct}) \cup {got.section})
    BY <2>1, <2>2, AllocateStock
  <2>4. ASSUME NEW f, NEW n, NEW o, Stock(f, n, o \cup {Direct})
        PROVE  Stock(f, n, o)
    BY <2>4 DEF Stock
  <2>5. Stock(got.free, got.next, (owned \cup {got.section}) \cup {Direct})
           => Stock(got.free, got.next, owned \cup {got.section})
    BY <2>4
  <2>6. (owned \cup {got.section}) \cup {Direct} = (owned \cup {Direct}) \cup {got.section}
    OBVIOUS
  <2> QED
    BY <2>3, <2>4, <2>5, <2>6
<1> QED
  BY <1>3, <1>4

\* A section goes back to the pool.
LEMMA ReleaseStock ==
    ASSUME NEW free, NEW next, NEW owned, NEW s \in 0..MaxSection,
           Stock(free, next, owned \cup One(s)), s \notin owned
    PROVE  Stock(Release(free, s), next, owned)
<1> USE ZosSelectAssumption
<1>1. CASE s = 0
  <2>1. owned \cup One(s) = owned
    BY <1>1 DEF One
  <2> QED
    BY <1>1, <2>1 DEF Release
<1>2. CASE s # 0
  <2>1. /\ s \in Sections /\ One(s) = {s} /\ s \notin Range(free)
        /\ free \in Seq(Sections) /\ IsInjective(free)
    BY <1>2 DEF Stock, Sections, One
  <2>2. Release(free, s) = Append(free, s)
    BY <1>2, <2>1 DEF Release, Sections, ToSet, Range
  <2>3. /\ Append(free, s) \in Seq(Sections)
        /\ Range(Append(free, s)) = Range(free) \cup {s} /\ IsInjective(Append(free, s))
    BY <2>1, AppendOwned, AppendProperties
  <2> QED
    BY <2>1, <2>2, <2>3 DEF Stock
<1> QED
  BY <1>1, <1>2
-----------------------------------------------------------------------------
(* The sections in the cache *)

LEMMA FilledCount ==
    ASSUME NEW cache, Distinct(cache)
    PROVE  /\ IsFiniteSet(Filled(cache)) /\ IsFiniteSet(InCacheOf(cache))
           /\ Cardinality(Filled(cache)) = Cardinality(InCacheOf(cache))
           /\ Cardinality(Filled(cache)) \in Nat
           /\ InCacheOf(cache) \subseteq Sections
<1> DEFINE f == [q \in Filled(cache) |-> cache[q]]
<1>1. InCacheOf(cache) \subseteq Sections
  BY ZosSelectAssumption DEF Distinct, InCacheOf, Sections
<1>2. IsFiniteSet(InCacheOf(cache))
  <2>1. IsFiniteSet(Sections)
    BY ZosSelectAssumption, FS_Interval DEF Sections
  <2>2. InCacheOf(cache) \in SUBSET Sections
    BY <1>1
  <2> QED
    BY <2>1, <2>2, FS_Subset
<1>3. f \in [Filled(cache) -> InCacheOf(cache)]
  BY DEF Filled, InCacheOf
<1>4. f \in Injection(Filled(cache), InCacheOf(cache))
  BY <1>3 DEF Injection, IsInjective, Distinct, Filled
<1>5. f \in Surjection(Filled(cache), InCacheOf(cache))
  BY <1>3 DEF Surjection, Filled, InCacheOf
<1>6. /\ IsFiniteSet(Filled(cache))
      /\ Cardinality(Filled(cache)) = Cardinality(InCacheOf(cache))
  BY <1>2, <1>4, <1>5, FS_Injection
<1> QED
  BY <1>1, <1>2, <1>6, FS_CardinalityType

\* An entry is dropped and its section released.
LEMMA DropAccounts ==
    ASSUME NEW free, NEW next, NEW cache, NEW stmts, NEW gone, NEW q \in Selects,
           Accounts(free, next, cache, {}, stmts, gone)
    PROVE  /\ Accounts(Release(free, cache[q]), next, Drop(cache, q), {}, stmts, gone)
           /\ Drop(cache, q)[q] = 0
           /\ cache[q] # 0 => Cardinality(Filled(Drop(cache, q))) < MaxEntries
<1> DEFINE s == cache[q]
           less == Drop(cache, q)
<1>1. /\ s \in 0..MaxSection /\ less \in [Selects -> 0..MaxSection] /\ less[q] = 0
      /\ \A p \in Selects : p # q => less[p] = cache[p]
  BY ZosSelectAssumption DEF Accounts, Distinct, Drop
<1>2. Distinct(less)
  BY <1>1 DEF Accounts, Distinct, Direct
<1>3. InCacheOf(cache) = InCacheOf(less) \cup One(s) /\ s \notin InCacheOf(less)
  BY <1>1 DEF InCacheOf, One, Accounts, Distinct
<1>4. /\ Owned(cache, {}, stmts, gone) = Owned(less, {}, stmts, gone) \cup One(s)
      /\ s \notin Owned(less, {}, stmts, gone) \/ s = 0
  BY <1>3 DEF Owned, Accounts, Disjoint, One
<1>5. Stock(Release(free, s), next, Owned(less, {}, stmts, gone))
  <2>1. CASE s = 0
    BY <1>4, <2>1 DEF Accounts, Release, One
  <2>2. CASE s # 0
    BY <1>1, <1>4, <2>2, ReleaseStock DEF Accounts
  <2> QED
    BY <2>1, <2>2
<1>6. Disjoint(less, {}, stmts, gone)
  BY <1>3 DEF Accounts, Disjoint
<1>7. /\ Cardinality(Filled(less)) <= Cardinality(Filled(cache))
      /\ s # 0 => Cardinality(Filled(less)) = Cardinality(Filled(cache)) - 1
  <2>1. IsFiniteSet(Filled(cache)) /\ Cardinality(Filled(cache)) \in Nat
    BY FilledCount DEF Accounts
  <2>2. Filled(less) = Filled(cache) \ {q}
    BY <1>1 DEF Filled
  <2>3. s # 0 => q \in Filled(cache)
    BY DEF Filled
  <2>4. Cardinality(Filled(cache) \ {q}) =
            IF q \in Filled(cache) THEN Cardinality(Filled(cache)) - 1
                                   ELSE Cardinality(Filled(cache))
    BY <2>1, FS_RemoveElement
  <2> QED
    BY <2>1, <2>2, <2>3, <2>4
<1>8. Cardinality(Filled(cache)) \in Nat /\ Cardinality(Filled(less)) \in Nat
  BY <1>2, FilledCount DEF Accounts
<1> QED
  BY <1>1, <1>2, <1>5, <1>6, <1>7, <1>8, ZosSelectAssumption DEF Accounts

\* The section of a call comes into the cache.
LEMMA FillAccounts ==
    ASSUME NEW free, NEW next, NEW cache, NEW stmts, NEW gone, NEW q \in Selects,
           NEW s \in Sections, s # Direct,
           Accounts(free, next, cache, One(s), stmts, gone),
           cache[q] = 0, Cardinality(Filled(cache)) < MaxEntries
    PROVE  Accounts(free, next, [cache EXCEPT ![q] = s], {}, stmts, gone)
<1> DEFINE more == [cache EXCEPT ![q] = s]
<1>1. /\ more \in [Selects -> 0..MaxSection] /\ more[q] = s
      /\ \A p \in Selects : p # q => more[p] = cache[p]
      /\ s # 0 /\ One(s) = {s}
  BY ZosSelectAssumption DEF Accounts, Distinct, Sections, One
<1>2. s \notin InCacheOf(cache)
  BY <1>1 DEF Accounts, Disjoint
<1>3. InCacheOf(more) = InCacheOf(cache) \cup {s}
  BY <1>1 DEF InCacheOf
<1>4. Distinct(more)
  BY <1>1, <1>2 DEF Accounts, Distinct, InCacheOf
<1>5. Owned(more, {}, stmts, gone) = Owned(cache, One(s), stmts, gone)
  BY <1>1, <1>3 DEF Owned
<1>6. Disjoint(more, {}, stmts, gone)
  BY <1>1, <1>3 DEF Accounts, Disjoint
<1>7. Cardinality(Filled(more)) <= MaxEntries
  <2>1. IsFiniteSet(Filled(cache)) /\ Cardinality(Filled(cache)) \in Nat
    BY FilledCount DEF Accounts
  <2>2. Filled(more) = Filled(cache) \cup {q} /\ q \notin Filled(cache)
    BY <1>1 DEF Filled
  <2>3. Cardinality(Filled(more)) = Cardinality(Filled(cache)) + 1
    BY <2>1, <2>2, FS_AddElement
  <2> QED
    BY <2>1, <2>3, ZosSelectAssumption
<1> QED
  BY <1>4, <1>5, <1>6, <1>7 DEF Accounts

\* The section of a call is released, or it had none.
LEMMA EndAccounts ==
    ASSUME NEW free, NEW next, NEW cache, NEW stmts, NEW gone,
           NEW s \in 0..MaxSection,
           Accounts(free, next, cache, One(s), stmts, gone)
    PROVE  Accounts(Release(free, s), next, cache, {}, stmts, gone)
<1>1. CASE s = 0
  BY <1>1 DEF Release, One
<1>2. CASE s # 0
  <2>1. /\ Owned(cache, One(s), stmts, gone) = Owned(cache, {}, stmts, gone) \cup One(s)
        /\ s \notin Owned(cache, {}, stmts, gone)
    BY <1>2 DEF Owned, Accounts, Disjoint, One
  <2>2. Stock(Release(free, s), next, Owned(cache, {}, stmts, gone))
    BY <2>1, ReleaseStock DEF Accounts
  <2> QED
    BY <2>2 DEF Accounts, Disjoint
<1> QED
  BY <1>1, <1>2
-----------------------------------------------------------------------------
(* The invariant *)

Kept == Accounts(freeSections, nextSection, cached, InCall, held, lost)

Calls ==
    /\ call \in [step : {"idle", "reopen", "prepare", "open"},
                 sql : Selects \cup {"none"}, section : 0..MaxSection,
                 keep : BOOLEAN, listed : BOOLEAN]
    /\ call.step = "reopen" =>
           /\ call.sql \in Selects
           /\ call.section = cached[call.sql] /\ call.section # 0
    /\ call.step \in {"prepare", "open"} =>
           /\ call.sql \in Selects /\ cached[call.sql] = 0 /\ call.section # Direct
           /\ call.keep => /\ call.section # 0
                           /\ Cardinality(Filled(cached)) < MaxEntries
                           /\ call.sql \notin lobs

\* A SELECT that returned LOBs to this client is on the list of all clients.
Listed == lobs \subseteq denied /\ LobsAreNotCached

\* What a section that may be opened holds.
Served ==
    /\ server \in [Packages -> [Sections -> Selects \cup {"none", "statement"}]]
    /\ \A q \in Selects : cached[q] # 0 =>
           server[PackageOf(q, cached[q])][cached[q]] \in {q, "none"}
    /\ call.step = "open" =>
           server[PackageOf(call.sql, call.section)][Target] \in {call.sql, "none"}
    /\ \A s \in held : server["prepared"][s] = "statement"

ZInv == Kept /\ Calls /\ Listed /\ Served

LEMMA ZInit == ZosInit => ZInv
<1> SUFFICES ASSUME ZosInit PROVE ZInv
  OBVIOUS
<1> USE ZosSelectAssumption
<1>1. Distinct(cached) /\ Filled(cached) = {} /\ InCacheOf(cached) = {}
  BY DEF ZosInit, Distinct, Filled, InCacheOf, Direct
<1>2. Cardinality(Filled(cached)) <= MaxEntries
  BY <1>1, FS_EmptySet
<1>3. Stock(freeSections, nextSection, {})
  BY NoneOwned DEF ZosInit, Stock, Sections, Direct
<1>4. InCall = {}
  BY DEF ZosInit, Idle, InCall
<1>5. Kept
  BY <1>1, <1>2, <1>3, <1>4 DEF Kept, Accounts, Owned, Disjoint, ZosInit
<1>6. Calls /\ Listed
  BY DEF ZosInit, Calls, Idle, Listed, LobsAreNotCached
<1>7. Served
  BY DEF ZosInit, Served, Unprepared, Idle, Sections
<1> QED
  BY <1>5, <1>6, <1>7 DEF ZInv

\* The plan of a prepare owns what it allocates.
LEMMA PlanKeeps ==
    ASSUME NEW q \in Selects, NEW free, NEW cache, NEW listed \in BOOLEAN,
           Accounts(free, nextSection, cache, {}, held, lost), cache[q] = 0,
           Plan(q, free, cache, listed), held' = held, listed \/ q \notin lobs'
    PROVE  Kept' /\ Calls' /\ cached' = cache /\ call'.step = "prepare"
<1> DEFINE room == ~listed /\ Cardinality({s \in Selects : cache[s] # 0}) < MaxEntries
           nothing == [section |-> 0, free |-> free, next |-> nextSection]
           took == IF room THEN AllocateCached(free, nextSection) ELSE nothing
           got == IF took.section = 0 /\ q \in Like
                  THEN AllocateCached(took.free, took.next) ELSE took
           owned == Owned(cache, {}, held, lost)
<1>1. /\ call' = [step |-> "prepare", sql |-> q, section |-> got.section,
                  keep |-> took.section # 0, listed |-> listed]
      /\ freeSections' = got.free /\ nextSection' = got.next
      /\ cached' = cache /\ lost' = lost
  BY DEF Plan
<1>2. /\ took.section = 0 => Stock(took.free, took.next, owned)
      /\ took.section # 0 => /\ took.section \in Sections \ (owned \cup {Direct})
                             /\ Stock(took.free, took.next, owned \cup {took.section})
                             /\ room
  <2>1. CASE room
    BY <2>1, AllocateCachedStock DEF Accounts
  <2>2. CASE ~room
    BY <2>2 DEF Accounts
  <2> QED
    BY <2>1, <2>2
<1> HIDE DEF took
<1>3. /\ got.section = 0 => Stock(got.free, got.next, owned)
      /\ got.section # 0 => /\ got.section \in Sections \ (owned \cup {Direct})
                            /\ Stock(got.free, got.next, owned \cup {got.section})
      /\ took.section # 0 => got = took
  <2>1. CASE took.section = 0 /\ q \in Like
    <3> DEFINE second == AllocateCached(took.free, took.next)
    <3>1. /\ second.section = 0 => Stock(second.free, second.next, owned)
          /\ second.section # 0 =>
                 /\ second.section \in Sections \ (owned \cup {Direct})
                 /\ Stock(second.free, second.next, owned \cup {second.section})
      BY <1>2, <2>1, AllocateCachedStock
    <3> QED
      BY <2>1, <3>1
  <2>2. CASE ~(took.section = 0 /\ q \in Like)
    BY <1>2, <2>2
  <2> QED
    BY <2>1, <2>2
<1> HIDE DEF got, room
<1>4. Stock(got.free, got.next, Owned(cache, One(got.section), held, lost))
  <2>1. Owned(cache, One(got.section), held, lost) = owned \cup One(got.section)
    BY DEF Owned
  <2> HIDE DEF owned
  <2>2. owned \cup One(got.section)
          = IF got.section = 0 THEN owned ELSE owned \cup {got.section}
    BY DEF One
  <2> QED
    BY <1>3, <2>1, <2>2
<1>5. Disjoint(cache, One(got.section), held, lost)
  BY <1>3 DEF Accounts, Disjoint, One, Owned
<1>6. InCall' = One(got.section)
  BY <1>1 DEF InCall, One
<1>7. Kept'
  BY <1>1, <1>4, <1>5, <1>6 DEF Kept, Accounts
<1>8. got.section \in 0..MaxSection /\ got.section # Direct
  BY <1>3, ZosSelectAssumption DEF Sections, Direct
<1>9. took.section # 0 => /\ got.section # 0 /\ q \notin lobs'
                          /\ Cardinality(Filled(cache)) < MaxEntries
  BY <1>2, <1>3 DEF room, Filled
<1> HIDE DEF owned
<1>10. Calls'
  BY <1>1, <1>8, <1>9 DEF Calls
<1> QED
  BY <1>1, <1>7, <1>10

LEMMA IdleCall ==
    ASSUME call' = Idle
    PROVE  InCall' = {} /\ Calls'
BY ZosSelectAssumption DEF Idle, InCall, Calls

LEMMA CallOwns ==
    ASSUME Calls
    PROVE  /\ call.step \in {"idle", "reopen"} => InCall = {}
           /\ call.step \in {"prepare", "open"} => InCall = One(call.section)
BY DEF Calls, InCall, One

LEMMA SameCount ==
    ASSUME cached' = cached
    PROVE  Cardinality(Filled(cached))' = Cardinality(Filled(cached))
BY DEF Filled

\* What was served stays so when the cache and the statements only shrink.
LEMMA StillServed ==
    ASSUME Served, server' = server, held' \subseteq held, call'.step # "open",
           \A q \in Selects : cached'[q] \in {cached[q], 0}
    PROVE  Served'
BY DEF Served

LEMMA StartKeeps ==
    ASSUME ZInv, NEW q \in Selects, Start(q)
    PROVE  ZInv'
<1>1. /\ call.step = "idle" /\ InCall = {}
      /\ Accounts(freeSections, nextSection, cached, {}, held, lost)
      /\ UNCHANGED <<denied, server, held, lobs>>
  BY CallOwns DEF Start, world, ZInv, Kept
<1>2. CASE q \notin denied /\ cached[q] # 0
  <2>1. /\ call' = [step |-> "reopen", sql |-> q, section |-> cached[q],
                    keep |-> TRUE, listed |-> FALSE]
        /\ UNCHANGED <<freeSections, nextSection, lost, cached>>
    BY <1>2 DEF Start, pool
  <2>2. InCall' = {}
    BY <2>1 DEF InCall
  <2>3. Kept'
    BY <1>1, <2>1, <2>2 DEF Kept
  <2>4. Calls'
    BY <1>2, <2>1 DEF Calls, ZInv, Kept, Accounts, Distinct
  <2>5. Listed'
    BY <1>1, <2>1 DEF Listed, LobsAreNotCached, ZInv
  <2>6. Served'
    BY <1>1, <2>1, StillServed DEF ZInv
  <2> QED
    BY <2>3, <2>4, <2>5, <2>6 DEF ZInv
<1>3. CASE ~(q \notin denied /\ cached[q] # 0)
  <2> DEFINE free == Release(freeSections, cached[q])
             less == Drop(cached, q)
  <2>1. Plan(q, free, less, q \in denied)
    BY <1>3 DEF Start
  <2>2. Accounts(free, nextSection, less, {}, held, lost) /\ less[q] = 0
    BY <1>1, DropAccounts
  <2>3. (q \in denied) \in BOOLEAN /\ (q \in denied \/ q \notin lobs')
    BY <1>1 DEF ZInv, Listed
  <2>4. \A p \in Selects : less[p] \in {cached[p], 0}
    BY DEF Drop, ZInv, Kept, Accounts, Distinct
  <2> HIDE DEF free, less
  <2>5. Kept' /\ Calls' /\ cached' = less /\ call'.step = "prepare"
    BY <1>1, <2>1, <2>2, <2>3, PlanKeeps
  <2>6. Listed'
    BY <1>1, <2>4, <2>5 DEF Listed, LobsAreNotCached, ZInv
  <2>7. Served'
    BY <1>1, <2>4, <2>5, StillServed DEF ZInv
  <2> QED
    BY <2>5, <2>6, <2>7 DEF ZInv
<1> QED
  BY <1>2, <1>3

\* A reopen that leads to a prepare.
LEMMA Replans ==
    ASSUME ZInv, call.step = "reopen", UNCHANGED <<server, held, lobs, denied>>,
           Plan(call.sql, Release(freeSections, call.section), Drop(cached, call.sql), FALSE)
    PROVE  ZInv'
<1> DEFINE q == call.sql
           free == Release(freeSections, cached[q])
           less == Drop(cached, q)
<1>1. /\ InCall = {} /\ q \in Selects /\ call.section = cached[q] /\ cached[q] # 0
      /\ Accounts(freeSections, nextSection, cached, {}, held, lost)
  BY CallOwns DEF ZInv, Kept, Calls
<1>2. Accounts(free, nextSection, less, {}, held, lost) /\ less[q] = 0
  BY <1>1, DropAccounts
<1>3. q \notin lobs'
  BY <1>1 DEF ZInv, Listed, LobsAreNotCached
<1>4. \A p \in Selects : less[p] \in {cached[p], 0}
  BY DEF Drop, ZInv, Kept, Accounts, Distinct
<1>5. Plan(q, free, less, FALSE)
  BY <1>1
<1> HIDE DEF free, less
<1>6. Kept' /\ Calls' /\ cached' = less /\ call'.step = "prepare"
  BY <1>1, <1>2, <1>3, <1>5, PlanKeeps
<1>7. Listed'
  BY <1>4, <1>6 DEF Listed, LobsAreNotCached, ZInv
<1>8. Served'
  BY <1>4, <1>6, StillServed DEF ZInv
<1> QED
  BY <1>6, <1>7, <1>8 DEF ZInv

\* A reopen that ends the call and leaves the entry.
LEMMA Reopens ==
    ASSUME ZInv, call.step = "reopen", call' = Idle,
           UNCHANGED <<freeSections, nextSection, lost, cached, denied, server, held, lobs>>
    PROVE  ZInv'
<1>1. InCall = {} /\ InCall' = {} /\ Calls'
  BY CallOwns, IdleCall DEF ZInv
<1>2. Kept'
  BY <1>1 DEF ZInv, Kept
<1>3. Listed'
  BY DEF ZInv, Listed, LobsAreNotCached
<1>4. Served'
  BY StillServed DEF ZInv, Idle
<1> QED
  BY <1>1, <1>2, <1>3, <1>4 DEF ZInv

LEMMA ReopenedKeeps ==
    ASSUME ZInv, NEW rows \in BOOLEAN, Reopened(rows)
    PROVE  ZInv'
<1> DEFINE q == call.sql
           lob == Returns(q, rows)
<1>1. /\ call.step = "reopen" /\ UNCHANGED <<server, held>>
      /\ lobs' = IF lob THEN lobs \cup {q} ELSE lobs
  BY DEF Reopened
<1>2. /\ InCall = {} /\ q \in Selects /\ call.section = cached[q] /\ cached[q] # 0
      /\ Accounts(freeSections, nextSection, cached, {}, held, lost)
      /\ q \notin LobColumns
  BY <1>1, CallOwns DEF ZInv, Kept, Calls, Listed, LobsAreNotCached
<1>3. CASE ~rows
  <2>1. ~lob
    BY <1>2, <1>3 DEF Returns
  <2> QED
    BY <1>1, <1>3, <2>1, Replans DEF Reopened
<1>4. CASE rows /\ lob
  <2> DEFINE free == Release(freeSections, cached[q])
             less == Drop(cached, q)
  <2>1. /\ freeSections' = free /\ cached' = less /\ call' = Idle
        /\ denied' = denied \cup {q} /\ UNCHANGED <<nextSection, lost>>
        /\ lobs' = lobs \cup {q}
    BY <1>1, <1>2, <1>4 DEF Reopened
  <2>2. Accounts(free, nextSection, less, {}, held, lost) /\ less[q] = 0
    BY <1>2, DropAccounts
  <2>3. \A p \in Selects : less[p] = IF p = q THEN 0 ELSE cached[p]
    BY DEF Drop, ZInv, Kept, Accounts, Distinct
  <2> HIDE DEF free, less, q
  <2>4. InCall' = {} /\ Calls'
    BY <2>1, IdleCall
  <2>5. Kept'
    BY <1>1, <2>1, <2>2, <2>4 DEF Kept
  <2>6. Listed'
    BY <2>1, <2>3 DEF ZInv, Listed, LobsAreNotCached
  <2>7. Served'
    BY <1>1, <2>1, <2>3, StillServed DEF ZInv, Idle
  <2> QED
    BY <2>4, <2>5, <2>6, <2>7 DEF ZInv
<1>5. CASE rows /\ ~lob
  BY <1>1, <1>5, Reopens DEF Reopened, pool, world
<1> QED
  BY <1>3, <1>4, <1>5

LEMMA RefusedKeeps ==
    ASSUME ZInv, NEW unprepared \in BOOLEAN, ReopenRefused(unprepared)
    PROVE  ZInv'
<1>1. CASE unprepared
  BY <1>1, Replans DEF ReopenRefused, world
<1>2. CASE ~unprepared
  BY <1>2, Reopens DEF ReopenRefused, world, pool
<1> QED
  BY <1>1, <1>2

LEMMA PreparedKeeps ==
    ASSUME ZInv, Prepared
    PROVE  ZInv'
<1> DEFINE q == call.sql
           package == PackageOf(q, call.section)
<1>1. /\ call.step = "prepare" /\ q \in Selects /\ InCall = One(call.section)
      /\ call' = [call EXCEPT !.step = "open"]
      /\ server' = [server EXCEPT ![package][Target] = q]
      /\ UNCHANGED <<freeSections, nextSection, lost, cached, denied, held, lobs>>
  BY CallOwns DEF Prepared, pool, ZInv, Calls
<1>2. /\ call'.step = "open" /\ call'.sql = q /\ call'.section = call.section
      /\ call'.keep = call.keep /\ call'.listed = call.listed
  BY <1>1 DEF ZInv, Calls
<1>3. InCall' = InCall
  BY <1>1, <1>2 DEF InCall
<1>4. Kept'
  BY <1>1, <1>3 DEF ZInv, Kept
<1>5. Calls'
  BY <1>1, <1>2 DEF ZInv, Calls
<1>6. Listed'
  BY <1>1 DEF ZInv, Listed, LobsAreNotCached
<1>7. Target \in Sections /\ package \in Packages /\ Target' = Target
  BY <1>2, ZosSelectAssumption
  DEF Target, Direct, Sections, PackageOf, Packages, ZInv, Calls
<1>8. /\ server' \in [Packages -> [Sections -> Selects \cup {"none", "statement"}]]
      /\ server'[package][Target] = q
      /\ \A p \in Packages, s \in Sections :
            p # package \/ s # Target => server'[p][s] = server[p][s]
  BY <1>1, <1>7 DEF ZInv, Served
<1>9. ASSUME NEW p \in Selects, cached[p] # 0
      PROVE  server'[PackageOf(p, cached[p])][cached[p]] \in {p, "none"}
  <2>1. cached[p] \in Sections /\ cached[p] # Direct /\ cached[p] \in InCacheOf(cached)
    BY <1>9, ZosSelectAssumption
    DEF ZInv, Kept, Accounts, Distinct, Sections, InCacheOf
  <2>2. cached[p] # Target
    BY <1>1, <2>1 DEF ZInv, Kept, Accounts, Disjoint, One, Target
  <2>3. PackageOf(p, cached[p]) \in Packages
    BY DEF PackageOf, Packages
  <2> QED
    BY <1>8, <1>9, <2>1, <2>2, <2>3 DEF ZInv, Served
<1>10. ASSUME NEW s \in held
       PROVE  server'["prepared"][s] = "statement"
  <2>1. s \in Sections /\ (call.section # 0 => s # call.section)
    BY <1>1, ZosSelectAssumption
    DEF ZInv, Kept, Accounts, Stock, Owned, Sections, Disjoint, One
  <2>2. "prepared" # package \/ s # Target
    BY <2>1 DEF PackageOf, Target
  <2> QED
    BY <1>8, <2>1, <2>2 DEF ZInv, Served, Packages
<1>11. Served'
  BY <1>1, <1>2, <1>7, <1>8, <1>9, <1>10 DEF Served
<1> QED
  BY <1>4, <1>5, <1>6, <1>11 DEF ZInv

LEMMA GiveUpKeeps ==
    ASSUME ZInv, GiveUp
    PROVE  ZInv'
<1>1. /\ InCall = One(call.section) /\ call' = Idle /\ call.section \in 0..MaxSection
      /\ freeSections' = Release(freeSections, call.section)
      /\ UNCHANGED <<nextSection, lost, cached, denied, server, held, lobs>>
  BY CallOwns DEF GiveUp, world, ZInv, Calls
<1>2. InCall' = {} /\ Calls'
  BY <1>1, IdleCall
<1>3. Kept'
  BY <1>1, <1>2, EndAccounts DEF ZInv, Kept
<1>4. Listed'
  BY <1>1 DEF ZInv, Listed, LobsAreNotCached
<1>5. Served'
  BY <1>1, StillServed DEF ZInv, Idle
<1> QED
  BY <1>2, <1>3, <1>4, <1>5 DEF ZInv

LEMMA OpenedKeeps ==
    ASSUME ZInv, NEW rows \in BOOLEAN, Opened(rows)
    PROVE  ZInv'
<1> DEFINE q == call.sql
           lob == Returns(q, rows)
           s == call.section
<1>1. /\ call.step = "open" /\ call' = Idle
      /\ lobs' = IF lob THEN lobs \cup {q} ELSE lobs
      /\ denied' = IF lob THEN denied \cup {q} ELSE denied
      /\ UNCHANGED <<nextSection, lost, server, held>>
  BY DEF Opened
<1>2. /\ InCall = One(s) /\ q \in Selects /\ cached[q] = 0 /\ s \in 0..MaxSection
      /\ s # Direct
      /\ Accounts(freeSections, nextSection, cached, One(s), held, lost)
  BY <1>1, CallOwns DEF ZInv, Calls, Kept
<1>3. InCall' = {} /\ Calls'
  BY <1>1, IdleCall
<1>4. CASE Keeps(q, lob)
  <2> DEFINE more == [cached EXCEPT ![q] = s]
  <2>1. cached' = more /\ freeSections' = freeSections
    BY <1>4 DEF Opened
  <2>2. /\ q \notin LobColumns /\ ~lob /\ s \in Sections /\ q \notin lobs
        /\ Cardinality(Filled(cached)) < MaxEntries
    BY <1>1, <1>2, <1>4, ZosSelectAssumption DEF Keeps, ZInv, Calls, Sections
  <2>3. Accounts(freeSections, nextSection, more, {}, held, lost)
    BY <1>2, <2>2, FillAccounts
  <2>4. /\ more[q] = s /\ s # 0
        /\ \A p \in Selects : p # q => more[p] = cached[p]
    <3>1. cached \in [Selects -> 0..MaxSection] /\ q \in Selects
      BY <1>2 DEF Accounts, Distinct
    <3>2. s # 0
      BY <2>2 DEF Sections
    <3> HIDE DEF q, s
    <3> QED
      BY <3>1, <3>2
  <2> HIDE DEF more
  <2>5. Kept'
    BY <1>1, <1>3, <2>1, <2>3 DEF Kept
  <2>6. Listed'
    BY <1>1, <2>1, <2>2, <2>4 DEF ZInv, Listed, LobsAreNotCached
  <2>7. server[PackageOf(q, s)][s] \in {q, "none"}
    BY <1>1, <2>4 DEF ZInv, Served, Target
  <2>8. Served'
    BY <1>1, <2>1, <2>4, <2>7 DEF ZInv, Served, Idle
  <2> QED
    BY <1>3, <2>5, <2>6, <2>8 DEF ZInv
<1>5. CASE ~Keeps(q, lob)
  <2>1. cached' = cached /\ freeSections' = Release(freeSections, s)
    BY <1>5 DEF Opened
  <2>2. Kept'
    BY <1>1, <1>2, <1>3, <2>1, EndAccounts DEF Kept
  <2>3. Listed'
    BY <1>1, <1>2, <2>1 DEF ZInv, Listed, LobsAreNotCached
  <2>4. Served'
    BY <1>1, <2>1, StillServed DEF ZInv, Idle
  <2> QED
    BY <1>3, <2>2, <2>3, <2>4 DEF ZInv
<1> QED
  BY <1>4, <1>5

LEMMA DropCallKeeps ==
    ASSUME ZInv, DropCall
    PROVE  ZInv'
<1>1. /\ call' = Idle /\ lost' = lost \cup InCall
      /\ UNCHANGED <<freeSections, nextSection, cached, denied, server, held, lobs>>
  BY DEF DropCall, world, InCall, ZInv, Calls
<1>2. InCall' = {} /\ Calls'
  BY <1>1, IdleCall
<1>3. /\ Owned(cached, {}, held, lost \cup InCall) = Owned(cached, InCall, held, lost)
      /\ Disjoint(cached, {}, held, lost \cup InCall)
  BY DEF Owned, ZInv, Kept, Accounts, Disjoint
<1>4. Kept'
  BY <1>1, <1>2, <1>3 DEF ZInv, Kept, Accounts
<1>5. Listed'
  BY <1>1 DEF ZInv, Listed, LobsAreNotCached
<1>6. Served'
  BY <1>1, StillServed DEF ZInv, Idle
<1> QED
  BY <1>2, <1>4, <1>5, <1>6 DEF ZInv

LEMMA StatementsKeep ==
    ASSUME ZInv, PrepareStatement \/ CloseStatement
    PROVE  ZInv'
<1>1. /\ call.step = "idle" /\ call' = call /\ InCall = {} /\ InCall' = {}
      /\ UNCHANGED <<lost, cached, denied, lobs>>
      /\ Accounts(freeSections, nextSection, cached, {}, held, lost)
  BY CallOwns DEF PrepareStatement, CloseStatement, world, ZInv, Kept, InCall
<1>2. Calls' /\ Listed'
  BY <1>1 DEF ZInv, Calls, Listed, LobsAreNotCached
<1>3. ASSUME PrepareStatement
      PROVE  Kept' /\ Served'
  <2> DEFINE got == Allocate(freeSections, nextSection)
             owned == Owned(cached, {}, {}, lost)
  <2>1. /\ held = {} /\ got.section # 0 /\ freeSections' = got.free
        /\ nextSection' = got.next /\ held' = {got.section}
        /\ server' = [server EXCEPT !["prepared"][got.section] = "statement"]
    BY <1>3 DEF PrepareStatement
  <2>2. /\ got.section \in Sections \ owned
        /\ Stock(got.free, got.next, owned \cup {got.section})
    BY <1>1, <2>1, AllocateStock DEF Accounts
  <2> HIDE DEF got
  <2>3. owned \cup {got.section} = Owned(cached, {}, held', lost)
    BY <2>1 DEF Owned
  <2>4. Disjoint(cached, {}, held', lost)
    BY <1>1, <2>1, <2>2 DEF Accounts, Disjoint, Owned
  <2>5. Kept'
    BY <1>1, <2>1, <2>2, <2>3, <2>4 DEF Kept, Accounts
  <2>6. /\ server' \in [Packages -> [Sections -> Selects \cup {"none", "statement"}]]
        /\ server'["prepared"][got.section] = "statement"
        /\ \A p \in Packages, s \in Sections :
              p # "prepared" \/ s # got.section => server'[p][s] = server[p][s]
    BY <2>1, <2>2 DEF ZInv, Served, Packages
  <2>7. ASSUME NEW q \in Selects, cached[q] # 0
        PROVE  server'[PackageOf(q, cached[q])][cached[q]] \in {q, "none"}
    <3>1. cached[q] \in Sections /\ cached[q] \in InCacheOf(cached)
      BY <2>7, ZosSelectAssumption DEF ZInv, Kept, Accounts, Distinct, Sections, InCacheOf
    <3>2. cached[q] # got.section
      BY <2>2, <3>1 DEF Owned
    <3>3. PackageOf(q, cached[q]) \in Packages
      BY DEF PackageOf, Packages
    <3> QED
      BY <2>6, <2>7, <3>1, <3>2, <3>3 DEF ZInv, Served
  <2>8. Served'
    BY <1>1, <2>1, <2>6, <2>7 DEF Served
  <2> QED
    BY <2>5, <2>8
<1>4. ASSUME CloseStatement
      PROVE  Kept' /\ Served'
  <2>1. PICK s \in held : freeSections' = Release(freeSections, s) /\ held' = held \ {s}
    BY <1>4 DEF CloseStatement
  <2>2. nextSection' = nextSection /\ server' = server
    BY <1>4 DEF CloseStatement
  <2>3. s \in 0..MaxSection /\ One(s) = {s}
    BY <1>1, ZosSelectAssumption DEF Accounts, Stock, Owned, One
  <2>4. /\ Owned(cached, {}, held, lost) = Owned(cached, {}, held \ {s}, lost) \cup One(s)
        /\ s \notin Owned(cached, {}, held \ {s}, lost)
        /\ Disjoint(cached, {}, held \ {s}, lost)
    BY <1>1, <2>1, <2>3 DEF Accounts, Owned, Disjoint
  <2>5. Stock(Release(freeSections, s), nextSection, Owned(cached, {}, held \ {s}, lost))
    BY <1>1, <2>3, <2>4, ReleaseStock DEF Accounts
  <2>6. Kept'
    BY <1>1, <2>1, <2>2, <2>4, <2>5 DEF Kept, Accounts
  <2>7. Served'
    BY <1>1, <2>1, <2>2, StillServed DEF ZInv
  <2> QED
    BY <2>6, <2>7
<1> QED
  BY <1>2, <1>3, <1>4 DEF ZInv

LEMMA ResetKeeps ==
    ASSUME ZInv, ResetZosSession
    PROVE  ZInv'
<1> USE ZosSelectAssumption
<1>1. /\ freeSections' = <<>> /\ nextSection' = 1 /\ lost' = {} /\ held' = {}
      /\ cached' = [q \in Selects |-> 0] /\ server' = Unprepared /\ call' = Idle
      /\ UNCHANGED <<denied, lobs>>
  BY DEF ResetZosSession, world
<1>2. InCall' = {} /\ Calls'
  BY <1>1, IdleCall
<1>3. Distinct(cached') /\ Filled(cached') = {} /\ InCacheOf(cached') = {}
  BY <1>1 DEF Distinct, Filled, InCacheOf, Direct
<1>4. Cardinality(Filled(cached')) <= MaxEntries
  BY <1>3, FS_EmptySet
<1>5. Stock(<<>>, 1, {})
  BY NoneOwned DEF Stock, Sections, Direct
<1>6. Kept'
  BY <1>1, <1>2, <1>3, <1>4, <1>5 DEF Kept, Accounts, Owned, Disjoint
<1>7. Listed'
  BY <1>1 DEF ZInv, Listed, LobsAreNotCached
<1>8. Served'
  BY <1>1 DEF Served, Unprepared, Idle, Sections
<1> QED
  BY <1>2, <1>6, <1>7, <1>8 DEF ZInv

LEMMA WorldKeeps ==
    ASSUME ZInv, NEW q \in Selects, Invalidate(q) \/ OtherClient(q)
    PROVE  ZInv'
<1>1. /\ UNCHANGED <<freeSections, nextSection, lost, cached, held, lobs, call>>
      /\ denied \subseteq denied'
  BY DEF Invalidate, OtherClient, pool, world
<1>2. Kept' /\ Calls' /\ Listed'
  BY <1>1 DEF ZInv, Kept, InCall, Calls, Listed, LobsAreNotCached
<1>3. CASE Invalidate(q)
  <2>1. /\ server' \in [Packages -> [Sections -> Selects \cup {"none", "statement"}]]
        /\ \A p \in Packages, s \in Sections :
              server'[p][s] = IF server[p][s] = q THEN "none" ELSE server[p][s]
    BY <1>3 DEF Invalidate, ZInv, Served, Sections
  <2>2. held \subseteq Sections /\ q # "statement" /\ call.step = "idle"
    BY <1>3, ZosSelectAssumption DEF Invalidate, ZInv, Kept, Accounts, Stock, Owned, Sections
  <2>3. ASSUME NEW p \in Selects, cached[p] # 0
        PROVE  PackageOf(p, cached[p]) \in Packages /\ cached[p] \in Sections
    BY <2>3, ZosSelectAssumption
    DEF PackageOf, Packages, ZInv, Kept, Accounts, Distinct, Sections
  <2> QED
    BY <1>1, <1>2, <2>1, <2>2, <2>3 DEF ZInv, Served, Packages
<1>4. CASE OtherClient(q)
  BY <1>1, <1>2, <1>4 DEF OtherClient, ZInv, Served, Target
<1> QED
  BY <1>3, <1>4

LEMMA ZStep == ZInv /\ [ZosNext]_zosVars => ZInv'
<1> SUFFICES ASSUME ZInv, [ZosNext]_zosVars PROVE ZInv'
  OBVIOUS
<1>1. CASE UNCHANGED zosVars
  BY <1>1 DEF zosVars, ZInv, Kept, InCall, Calls, Listed, LobsAreNotCached, Served, Target
<1> QED
  BY <1>1, StartKeeps, WorldKeeps, ReopenedKeeps, OpenedKeeps, RefusedKeeps, PreparedKeeps,
     GiveUpKeeps, DropCallKeeps, StatementsKeep, ResetKeeps DEF ZosNext

LEMMA ZInvHolds == ZosSpec => []ZInv
BY ZInit, ZStep, PTL DEF ZosSpec
-----------------------------------------------------------------------------
(* What follows *)

\* A sequence without duplicates has as many elements as its length says.
LEMMA LengthCounts ==
    ASSUME NEW S, NEW q \in Seq(S), IsInjective(q)
    PROVE  IsFiniteSet(Range(q)) /\ Cardinality(Range(q)) = Len(q)
<1>1. Len(q) \in Nat /\ DOMAIN q = 1..Len(q)
  BY LenProperties
<1>2. IsFiniteSet(1..Len(q)) /\ Cardinality(1..Len(q)) = Len(q)
  BY <1>1, FS_Interval
<1>3. q \in [1..Len(q) -> Range(q)]
  BY <1>1, LenProperties DEF Range
<1>4. q \in Bijection(1..Len(q), Range(q))
  BY <1>1, <1>3 DEF Bijection, Injection, Surjection, IsInjective, Range
<1>5. ExistsBijection(1..Len(q), Range(q))
  BY <1>4 DEF ExistsBijection
<1> QED
  BY <1>2, <1>5, FS_Bijection

LEMMA DisjointCount ==
    ASSUME NEW S, NEW T, IsFiniteSet(S), IsFiniteSet(T), S \cap T = {}
    PROVE  IsFiniteSet(S \cup T) /\ Cardinality(S \cup T) = Cardinality(S) + Cardinality(T)
<1>1. Cardinality(S) \in Nat /\ Cardinality(T) \in Nat
  BY FS_CardinalityType
<1>2. Cardinality(S \cap T) = 0
  BY FS_EmptySet
<1>3. /\ IsFiniteSet(S \cup T)
      /\ Cardinality(S \cup T) = Cardinality(S) + Cardinality(T) - Cardinality(S \cap T)
  BY FS_Union
<1> QED
  BY <1>1, <1>2, <1>3

\* execute_query and the two allocators of sections: whatever is cached, dropped,
\* closed or reset, no section but the first is forgotten and none belongs to two.
THEOREM SectionsAddUp == ZosSpec => []SectionsAccounted
<1>1. ASSUME ZInv PROVE SectionsAccounted
  <2> DEFINE owned == ToSet(freeSections) \cup InCache \cup InCall \cup held \cup lost
  <2>1. ToSet(freeSections) = Range(freeSections) /\ InCache = InCacheOf(cached)
    BY DEF ToSet, Range, InCache, InCacheOf
  <2>2. /\ freeSections \in Seq(Sections) /\ IsInjective(freeSections)
        /\ nextSection \in Nat /\ nextSection <= MaxSection + 1
        /\ Range(freeSections) \cap (InCache \cup InCall \cup held \cup lost) = {}
        /\ owned \subseteq 1..(nextSection - 1)
        /\ (1..(nextSection - 1)) \ {Direct} \subseteq owned
    BY <1>1, <2>1, ZosSelectAssumption DEF ZInv, Kept, Accounts, Stock, Owned
  <2>3. /\ InCache \cap InCall = {} /\ InCache \cap held = {} /\ InCache \cap lost = {}
        /\ InCall \cap held = {} /\ InCall \cap lost = {} /\ held \cap lost = {}
    BY <1>1, <2>1 DEF ZInv, Kept, Accounts, Disjoint
  <2>4. IsFiniteSet(1..(nextSection - 1))
    BY <2>2, FS_Interval
  <2> DEFINE later == held \cup lost
             mine == InCall \cup later
             kept == InCache \cup mine
  <2>5. /\ IsFiniteSet(InCache) /\ IsFiniteSet(InCall) /\ IsFiniteSet(held)
        /\ IsFiniteSet(lost) /\ IsFiniteSet(Range(freeSections))
    <3>1. /\ InCache \in SUBSET (1..(nextSection - 1)) /\ held \in SUBSET (1..(nextSection - 1))
          /\ InCall \in SUBSET (1..(nextSection - 1)) /\ lost \in SUBSET (1..(nextSection - 1))
      BY <2>2
    <3>2. Range(freeSections) \in SUBSET (1..(nextSection - 1))
      BY <2>1, <2>2
    <3> QED
      BY <2>4, <3>1, <3>2, FS_Subset
  <2>6. /\ IsFiniteSet(later)
        /\ Cardinality(later) = Cardinality(held) + Cardinality(lost)
    BY <2>3, <2>5, DisjointCount
  <2>7. /\ IsFiniteSet(mine)
        /\ Cardinality(mine) = Cardinality(InCall) + Cardinality(later)
    <3>1. InCall \cap later = {}
      BY <2>3
    <3> HIDE DEF later
    <3> QED
      BY <2>5, <2>6, <3>1, DisjointCount
  <2>8. /\ IsFiniteSet(kept)
        /\ Cardinality(kept) = Cardinality(InCache) + Cardinality(mine)
    <3>1. InCache \cap mine = {}
      BY <2>3
    <3> HIDE DEF mine
    <3> QED
      BY <2>5, <2>7, <3>1, DisjointCount
  <2>9. Cardinality(owned) = Cardinality(Range(freeSections)) + Cardinality(kept)
    <3>1. owned = Range(freeSections) \cup kept /\ Range(freeSections) \cap kept = {}
      BY <2>1, <2>2
    <3> HIDE DEF kept, owned
    <3> QED
      BY <2>5, <2>8, <3>1, DisjointCount
  <2>10. Cardinality(Range(freeSections)) = Len(freeSections)
    BY <2>2, LengthCounts
  <2>11. /\ Cardinality(InCache) = Cardinality(Filled(cached))
         /\ Cardinality(Filled(cached)) <= MaxEntries
    BY <1>1, <2>1, FilledCount DEF ZInv, Kept, Accounts
  <2>12. /\ Cardinality(held) \in Nat /\ Cardinality(lost) \in Nat
         /\ Cardinality(InCall) \in Nat /\ Cardinality(InCache) \in Nat
         /\ Len(freeSections) \in Nat
    BY <2>2, <2>5, FS_CardinalityType, LenProperties
  <2> HIDE DEF kept, mine, later
  <2>13. Cardinality(owned) = Len(freeSections) + Cardinality(Filled(cached))
                + Cardinality(InCall) + Cardinality(held) + Cardinality(lost)
    <3> HIDE DEF owned
    <3> QED
      BY <2>6, <2>7, <2>8, <2>9, <2>10, <2>11, <2>12
  <2> QED
    BY <2>2, <2>11, <2>13 DEF SectionsAccounted, Filled
<1> QED
  BY <1>1, ZInvHolds, PTL

\* execute_query: what a cached or fresh section holds on the server is the SELECT
\* that is opened, or nothing, and prepared statements keep theirs.
THEOREM SectionsHoldTheirSelect == ZosSpec => []OpensItsOwnSelect
<1>1. ASSUME ZInv PROVE OpensItsOwnSelect
  <2>1. CASE call.step = "reopen"
    <3>1. /\ call.sql \in Selects /\ cached[call.sql] = call.section
          /\ call.section # 0
      BY <1>1, <2>1 DEF ZInv, Calls
    <3>2. server[PackageOf(call.sql, call.section)][call.section] \in {call.sql, "none"}
      BY <1>1, <3>1 DEF ZInv, Served
    <3> QED
      BY <1>1, <2>1, <3>1, <3>2 DEF ZInv, Served, OpensItsOwnSelect, Target
  <2>2. CASE call.step # "reopen"
    BY <1>1, <2>2 DEF ZInv, Served, OpensItsOwnSelect
  <2> QED
    BY <2>1, <2>2
<1> QED
  BY <1>1, ZInvHolds, PTL

\* zos_select_section_cacheable and the list of SELECTs with LOBs.
THEOREM LobsStayOut == ZosSpec => []LobsAreNotCached
<1>1. ZInv => LobsAreNotCached
  BY DEF ZInv, Listed
<1> QED
  BY <1>1, ZInvHolds, PTL

-----------------------------------------------------------------------------
(* What a chunk, a row and a text are *)

\* What a character can be.
Char == (Nat \X ColIds \X Nat \X Nat) \cup {Pad}
Lens == Missing..MaxLob
LobType == [version : Nat, len : Lens]
RowType == [id : Nat, lobs : [ColIds -> LobType]]
ChunkSpec == [col : ColIds, n : Nat \ {0}, start : Nat \ {0}, len : Nat \ {0}]
TextType == Seq(Char) \cup {Missing}
TextOf(len) == IF len = Missing THEN {Missing} ELSE Seq(Char)
OutRow == [id : Nat, text : [ColIds -> TextType]]

\* Where the n-th chunk of a column ends, if it is full.
End(n, c) == n * Limit(c)

\* The n-th chunk of a column, which is full unless the longest LOB ends in it.
Good(spec) ==
    /\ spec.start = End(spec.n - 1, spec.col) + 1
    /\ spec.len <= Limit(spec.col)
Covers(spec, lens) ==
    \/ spec.len = Limit(spec.col)
    \/ \A r \in DOMAIN lens : lens[r][spec.col] < spec.start + spec.len

\* Behind the k-th, the chunks of column c are those behind the p-th, to the
\* q-th, in order.
FollowFrom(list, k, c, p, q) ==
    /\ p <= q
    /\ \A i \in (k + 1)..Len(list) : list[i].col = c => list[i].n \in (p + 1)..q
    /\ \A i, j \in (k + 1)..Len(list) :
          i < j /\ list[i].col = c /\ list[j].col = c => list[i].n < list[j].n
    /\ \A n \in (p + 1)..q : \E i \in (k + 1)..Len(list) : list[i].col = c /\ list[i].n = n

\* The text after the first p chunks of column c: no longer than they are, and
\* than the LOB is; if exact, as far as they go, and as stored.
Upto(text, len, c, p, exact, stored) ==
    IF len = Missing THEN text = Missing
    ELSE /\ text \in Seq(Char) /\ Len(text) <= len /\ Len(text) <= End(p, c)
         /\ exact => /\ Len(text) = len \/ Len(text) = End(p, c)
                     /\ \A i \in 1..Len(text) : text[i] = stored[i]

Passed(r) == IF r < rowStart /\ specs # <<>> THEN WindowLength(specs) ELSE 0
Exact == ~stale /\ ~chosen.ordered
Stored(answer) ==
    [i \in DOMAIN answer |->
       [id |-> answer[i].row.id, text |-> [c \in ColIds |-> Text(answer[i].row, c)]]]

Rebuilding == step \in {"chunks", "done"}

LobTypeOK ==
    /\ table \in Seq(RowType) /\ changes \in Nat /\ stale \in BOOLEAN
    /\ chosen \in [ordered : BOOLEAN, limit : Nat]
    /\ rowStart \in Nat \ {0} /\ specs \in Seq(ChunkSpec)
    /\ lengths \in Seq([ColIds -> Lens])
    /\ out \in Seq(OutRow) /\ expected \in Seq(OutRow)

SameRows ==
    /\ Len(out) = Len(lengths) /\ Len(expected) = Len(lengths)
    /\ \A r \in 1..Len(out) : out[r].id = expected[r].id
    /\ \A r \in 1..Len(out), c \in ColIds :
          out[r].text[c] \in TextOf(lengths[r][c])

AsRead == Rebuilding /\ ~stale => lengths = Lengths(Numbered) /\ expected = Stored(Numbered)

Chunks ==
    /\ step = "done" => specs = <<>>
    /\ \A i \in 1..Len(specs) : Good(specs[i]) /\ Covers(specs[i], lengths)

\* How far a text of a row has got, with the chunks passed and those left.
Rebuilt(r, c) ==
    \E p, q \in Nat :
      /\ FollowFrom(specs, Passed(r), c, p, q)
      /\ lengths[r][c] <= End(q, c)
      /\ Upto(out[r].text[c], lengths[r][c], c, p, Exact, expected[r].text[c])

Grid == Rebuilding /\ ~ReadTwice => \A r \in 1..Len(out), c \in ColIds : Rebuilt(r, c)

LobIInv == LobTypeOK /\ SameRows /\ AsRead /\ Chunks /\ Grid

LEMMA LargestNatural ==
    ASSUME NEW T, T \subseteq Nat, NEW x \in T, NEW b \in Nat, \A y \in T : y <= b
    PROVE  \E m \in T : \A y \in T : y <= m
<1> DEFINE U == {u \in Nat : \A y \in T : y <= u}
<1>1. PICK u \in U : \A v \in U : u <= v
  <2>1. U \subseteq Nat /\ b \in U
    OBVIOUS
  <2> QED
    BY <2>1, LeastNatural
<1>2. ASSUME u \notin T
      PROVE  FALSE
  <2>1. x <= u /\ x # u /\ x \in Nat /\ u \in Nat
    BY <1>1, <1>2
  <2>2. u - 1 \in Nat
    BY <2>1
  <2>3. \A y \in T : y <= u - 1
    BY <1>1, <1>2
  <2>4. u - 1 \in U
    BY <2>2, <2>3
  <2> QED
    BY <1>1, <2>4
<1> QED
  BY <1>1, <1>2

LEMMA MaxOf ==
    ASSUME NEW T, T \subseteq Nat, NEW x \in T, NEW b \in Nat, \A y \in T : y <= b
    PROVE  Max(T) \in T /\ \A y \in T : y <= Max(T)
<1>1. PICK m \in T : \A y \in T : y <= m
  BY LargestNatural
<1>2. \E m2 \in T : \A y \in T : m2 >= y
  BY <1>1
<1>3. Max(T) \in T /\ \A y \in T : Max(T) >= y
  BY <1>2 DEF Max
<1> QED
  BY <1>3

LEMMA MinOfTwo ==
    ASSUME NEW a \in Int, NEW b \in Int
    PROVE  Min({a, b}) = IF a <= b THEN a ELSE b
<1>1. \E x \in {a, b} : \A y \in {a, b} : x <= y
  OBVIOUS
<1> QED
  BY <1>1 DEF Min

LEMMA MaxOfTwo ==
    ASSUME NEW a \in Int, NEW b \in Int
    PROVE  Max({a, b}) = IF a <= b THEN b ELSE a
<1>1. \E x \in {a, b} : \A y \in {a, b} : x >= y
  OBVIOUS
<1> QED
  BY <1>1 DEF Max

LEMMA ListedSequence ==
    ASSUME NEW S, NEW n \in Nat, NEW f \in [1..n -> S]
    PROVE  f \in Seq(S) /\ Len(f) = n
<1>1. f \in Seq(S)
  BY SeqDef
<1> QED
  BY <1>1, LenProperties

LEMMA LimitPositive ==
    ASSUME NEW c \in ColIds
    PROVE  Limit(c) \in Nat \ {0}
<1>1. ChunkLimit \in Nat \ {0} /\ ChunkLimit % 2 = 0
  BY LobChunksAssumption
<1>2. ChunkLimit \div 2 \in Nat \ {0}
  BY <1>1
<1> QED
  BY <1>1, <1>2 DEF Limit

LEMMA ColumnCount ==
    /\ Len(LobCols) \in Nat \ {0} /\ ColIds = 1..Len(LobCols)
    /\ \A c \in ColIds : c \in Nat \ {0}
<1>1. LobCols \in Seq({"clob", "dbclob"}) /\ LobCols # <<>>
  BY LobChunksAssumption
<1> QED
  BY <1>1 DEF ColIds

LEMMA Products ==
    ASSUME NEW a \in Nat, NEW l \in Nat \ {0}
    PROVE  /\ a * l \in Nat /\ (a + 1) * l = a * l + l
           /\ a # 0 => (a - 1) * l = a * l - l /\ a * l >= l
           /\ a * l >= a
BY SMTT(30)

LEMMA ProductsGrow ==
    ASSUME NEW a \in Nat, NEW b \in Nat, NEW l \in Nat \ {0}, a <= b
    PROVE  a * l <= b * l
<1>1. b - a \in Nat /\ b = a + (b - a)
  OBVIOUS
<1>2. b * l = a * l + (b - a) * l /\ (b - a) * l >= 0
  BY <1>1, SMTT(30)
<1>3. a * l \in Int /\ (b - a) * l \in Int /\ b * l \in Int
  BY <1>1
<1> QED
  BY <1>2, <1>3

LEMMA Ends ==
    ASSUME NEW c \in ColIds, NEW n \in Nat
    PROVE  /\ End(n, c) \in Nat /\ End(n + 1, c) = End(n, c) + Limit(c)
           /\ n # 0 => End(n - 1, c) \in Nat /\ End(n, c) = End(n - 1, c) + Limit(c)
           /\ End(0, c) = 0
<1>1. Limit(c) \in Nat \ {0}
  BY LimitPositive
<1>2. CASE n = 0
  BY <1>1, <1>2, Products DEF End
<1>3. CASE n # 0
  <2>1. n - 1 \in Nat
    BY <1>3
  <2> QED
    BY <1>1, <1>3, <2>1, Products DEF End
<1> QED
  BY <1>2, <1>3

LEMMA EndsGrow ==
    ASSUME NEW c \in ColIds, NEW m \in Nat, NEW n \in Nat, m <= n
    PROVE  End(m, c) <= End(n, c)
BY LimitPositive, ProductsGrow DEF End

LEMMA LobBounds ==
    MaxLob \in Nat /\ Missing = -1 /\ Lens = (-1)..MaxLob
BY LobChunksAssumption DEF Missing, Lens
-----------------------------------------------------------------------------
(* Reading a chunk *)

LEMMA SubstrRead ==
    ASSUME NEW row \in RowType, NEW spec \in ChunkSpec
    PROVE  /\ Substr(row, spec) \in Seq(Char)
           /\ Len(Substr(row, spec)) <= spec.len
           /\ spec.start <= row.lobs[spec.col].len =>
                /\ Len(Substr(row, spec)) = spec.len
                /\ \A i \in 1..spec.len :
                     spec.start + i - 1 <= row.lobs[spec.col].len =>
                       Substr(row, spec)[i] =
                         <<row.id, spec.col, row.lobs[spec.col].version, spec.start + i - 1>>
<1> DEFINE lob == row.lobs[spec.col]
           read == [i \in 1..spec.len |->
                      IF spec.start + i - 1 <= lob.len
                      THEN <<row.id, spec.col, lob.version, spec.start + i - 1>> ELSE Pad]
<1>1. /\ spec.len \in Nat /\ spec.start \in Nat \ {0} /\ spec.col \in ColIds
      /\ row.id \in Nat /\ lob.version \in Nat /\ lob.len \in Lens /\ lob.len \in Int
  BY LobBounds DEF ChunkSpec, RowType, LobType
<1>2. read \in Seq(Char) /\ Len(read) = spec.len
  <2>1. ASSUME NEW i \in 1..spec.len
        PROVE  read[i] \in Char
    <3>1. spec.start + i - 1 \in Nat
      BY <1>1
    <3> QED
      BY <1>1, <3>1 DEF Char
  <2>2. read \in [1..spec.len -> Char]
    BY <2>1
  <2> HIDE DEF read
  <2> QED
    BY <1>1, <2>2, ListedSequence
<1>3. spec.start <= lob.len => Substr(row, spec) = read
  BY <1>1 DEF Substr
<1>4. ~(spec.start <= lob.len) => Substr(row, spec) = <<>>
  BY <1>1 DEF Substr
<1>5. <<>> \in Seq(Char) /\ Len(<<>>) = 0
  OBVIOUS
<1>6. CASE spec.start <= lob.len
  <2>1. Substr(row, spec) = read
    BY <1>3, <1>6
  <2>2. \A i \in 1..spec.len : spec.start + i - 1 <= lob.len =>
           read[i] = <<row.id, spec.col, lob.version, spec.start + i - 1>>
    OBVIOUS
  <2> HIDE DEF read
  <2> QED
    BY <1>1, <1>2, <2>1, <2>2
<1>7. CASE ~(spec.start <= lob.len)
  BY <1>1, <1>4, <1>5, <1>7
<1> QED
  BY <1>6, <1>7

LEMMA TrimRead ==
    ASSUME NEW row \in RowType, NEW spec \in ChunkSpec, NEW len \in Lens, spec.start <= len
    PROVE  LET got == Trim(Substr(row, spec), spec, len)
           IN  /\ got \in Seq(Char) /\ Len(got) <= spec.len /\ Len(got) <= len - (spec.start - 1)
               /\ row.lobs[spec.col].len = len =>
                    /\ Len(got) = spec.len \/ Len(got) = len - (spec.start - 1)
                    /\ \A i \in 1..Len(got) : got[i] =
                         <<row.id, spec.col, row.lobs[spec.col].version, spec.start + i - 1>>
<1> DEFINE chunk == Substr(row, spec)
           left == len - (spec.start - 1)
           size == IF Len(chunk) <= left THEN Len(chunk) ELSE left
           got == SubSeq(chunk, 1, size)
<1>1. spec.len \in Nat /\ spec.start \in Nat \ {0} /\ len \in Int /\ left \in Nat \ {0}
  BY LobBounds DEF ChunkSpec
<1>2. chunk \in Seq(Char) /\ Len(chunk) <= spec.len /\ Len(chunk) \in Nat
  BY SubstrRead
<1>3. Min({Len(chunk), left}) = size
  BY <1>1, <1>2, MinOfTwo
<1>4. Trim(chunk, spec, len) = got
  BY <1>3 DEF Trim
<1>5. size \in Nat /\ size <= Len(chunk) /\ size <= left
  BY <1>1, <1>2
<1>6. got \in Seq(Char) /\ Len(got) = size /\ \A i \in 1..size : got[i] = chunk[i]
  <2> HIDE DEF chunk, left, size
  <2> QED
    BY <1>2, <1>5, SubSeqProperties
<1>7. ASSUME row.lobs[spec.col].len = len
      PROVE  /\ Len(got) = spec.len \/ Len(got) = left
             /\ \A i \in 1..Len(got) : got[i] =
                  <<row.id, spec.col, row.lobs[spec.col].version, spec.start + i - 1>>
  <2>1. /\ Len(chunk) = spec.len
        /\ \A i \in 1..spec.len : spec.start + i - 1 <= len =>
             chunk[i] = <<row.id, spec.col, row.lobs[spec.col].version, spec.start + i - 1>>
    BY <1>7, SubstrRead
  <2>2. ASSUME NEW i \in 1..size
        PROVE  i \in 1..spec.len /\ spec.start + i - 1 <= len
    BY <1>1, <1>5, <2>1
  <2> HIDE DEF chunk, got
  <2> QED
    BY <1>6, <2>1, <2>2
<1>8. Trim(Substr(row, spec), spec, len) = got
  BY <1>4
<1> HIDE DEF chunk, got, size
<1>9. Len(got) <= spec.len
  BY <1>1, <1>2, <1>5, <1>6
<1> QED
  BY <1>5, <1>6, <1>7, <1>8, <1>9

LEMMA SpecFields ==
    ASSUME NEW spec \in ChunkSpec
    PROVE  /\ spec.col \in ColIds /\ spec.n \in Nat \ {0}
           /\ spec.start \in Nat \ {0} /\ spec.len \in Nat \ {0}
BY DEF ChunkSpec

\* The text after a chunk, of what it was before.
After(text, c, len, spec, row) ==
    IF spec.col # c \/ spec.start > len THEN text
    ELSE text \o Trim(Substr(row, spec), spec, len)

\* The next chunk of a column, as Good and Covers say it.
Follows(spec, c, len, p) ==
    /\ spec.col = c /\ spec.n = p + 1 /\ Good(spec)
    /\ spec.len = Limit(c) \/ len < spec.start + spec.len

LEMMA NextChunk ==
    ASSUME NEW c \in ColIds, NEW len \in Lens, NEW p \in Nat, NEW spec \in ChunkSpec,
           Follows(spec, c, len, p)
    PROVE  /\ spec.start = End(p, c) + 1 /\ spec.len \in Nat \ {0} /\ End(p, c) \in Nat
           /\ Limit(c) \in Nat \ {0} /\ End(p + 1, c) = End(p, c) + Limit(c)
           /\ spec.len <= Limit(c) /\ len \in Int
           /\ spec.len = Limit(c) \/ len < spec.start + spec.len
<1>1. spec.n - 1 = p /\ spec.len \in Nat \ {0}
  BY DEF Follows, ChunkSpec
<1>2. len \in Int
  BY LobBounds
<1> QED
  BY <1>1, <1>2, Ends, LimitPositive DEF Follows, Good

\* A chunk that begins behind the end.
LEMMA ChunkBehind ==
    ASSUME NEW c \in ColIds, NEW len \in Lens, NEW p \in Nat, NEW spec \in ChunkSpec,
           Follows(spec, c, len, p), NEW t, NEW exact \in BOOLEAN, NEW stored,
           Upto(t, len, c, p, exact, stored), exact => spec.start > len
    PROVE  Upto(t, len, c, p + 1, exact, stored)
<1>1. /\ spec.start = End(p, c) + 1 /\ End(p, c) \in Nat /\ len \in Int
      /\ Limit(c) \in Nat /\ End(p + 1, c) = End(p, c) + Limit(c)
  BY NextChunk
<1>2. CASE len = Missing
  BY <1>2 DEF Upto
<1>3. CASE len # Missing
  <2>1. /\ t \in Seq(Char) /\ Len(t) <= len /\ Len(t) <= End(p, c)
        /\ exact => /\ Len(t) = len \/ Len(t) = End(p, c)
                    /\ \A i \in 1..Len(t) : t[i] = stored[i]
    BY <1>3 DEF Upto
  <2>2. Len(t) \in Nat
    BY <2>1, LenProperties
  <2>3. Len(t) <= End(p + 1, c)
    BY <1>1, <2>1, <2>2
  <2>4. exact => Len(t) = len
    BY <1>1, <2>1, <2>2
  <2> QED
    BY <1>3, <2>1, <2>3, <2>4 DEF Upto
<1> QED
  BY <1>2, <1>3

LEMMA ChunkRead ==
    ASSUME NEW c \in ColIds, NEW len \in Lens, NEW p \in Nat, NEW spec \in ChunkSpec,
           Follows(spec, c, len, p), NEW t, NEW exact \in BOOLEAN, NEW stored,
           Upto(t, len, c, p, exact, stored), spec.start <= len, NEW row \in RowType,
           exact => row.lobs[c].len = len /\ stored = Text(row, c)
    PROVE  Upto(t \o Trim(Substr(row, spec), spec, len), len, c, p + 1, exact, stored)
<1> DEFINE got == Trim(Substr(row, spec), spec, len)
<1>1. /\ spec.start = End(p, c) + 1 /\ spec.len \in Nat \ {0} /\ End(p, c) \in Nat
      /\ Limit(c) \in Nat \ {0} /\ End(p + 1, c) = End(p, c) + Limit(c)
      /\ spec.len <= Limit(c) /\ len \in Int
      /\ spec.len = Limit(c) \/ len < spec.start + spec.len
  BY NextChunk
<1>2. spec.col = c
  BY DEF Follows
<1>3. /\ got \in Seq(Char) /\ Len(got) <= spec.len /\ Len(got) <= len - (spec.start - 1)
      /\ row.lobs[c].len = len =>
           /\ Len(got) = spec.len \/ Len(got) = len - (spec.start - 1)
           /\ \A i \in 1..Len(got) : got[i] =
                <<row.id, c, row.lobs[c].version, spec.start + i - 1>>
  BY <1>2, TrimRead
<1>4. len # Missing /\ len \in Nat
  BY <1>1, LobBounds
<1>5. /\ t \in Seq(Char) /\ Len(t) <= len /\ Len(t) <= End(p, c)
      /\ exact => /\ Len(t) = len \/ Len(t) = End(p, c)
                  /\ \A i \in 1..Len(t) : t[i] = stored[i]
  BY <1>4 DEF Upto
<1> HIDE DEF got
<1>6. Len(t) \in Nat /\ Len(got) \in Nat
  BY <1>3, <1>5, LenProperties
<1>7. /\ t \o got \in Seq(Char) /\ Len(t \o got) = Len(t) + Len(got)
      /\ \A i \in 1..(Len(t) + Len(got)) :
           (t \o got)[i] = IF i <= Len(t) THEN t[i] ELSE got[i - Len(t)]
  BY <1>3, <1>5, ConcatProperties
<1>8. Len(t) + Len(got) <= len /\ Len(t) + Len(got) <= End(p + 1, c)
  BY <1>1, <1>3, <1>5, <1>6
<1>9. ASSUME exact
      PROVE  /\ Len(t \o got) = len \/ Len(t \o got) = End(p + 1, c)
             /\ \A i \in 1..Len(t \o got) : (t \o got)[i] = stored[i]
  <2>1. row.lobs[c].len = len /\ stored = Text(row, c)
    BY <1>9
  <2>2. Len(t) = End(p, c)
    BY <1>1, <1>5, <1>6, <1>9
  <2>3. Len(got) = spec.len \/ Len(got) = len - End(p, c)
    BY <1>1, <1>3, <2>1
  <2>4. Len(t) + Len(got) = len \/ Len(t) + Len(got) = End(p + 1, c)
    <3>1. Len(got) <= len - End(p, c)
      BY <1>1, <1>3
    <3>2. Len(got) = len - End(p, c) => Len(t) + Len(got) = len
      BY <1>1, <1>6, <2>2
    <3>3. CASE Len(got) = spec.len /\ spec.len = Limit(c)
      BY <1>1, <1>6, <2>2, <3>3
    <3>4. CASE Len(got) = spec.len /\ len < spec.start + spec.len
      <4>1. Len(got) = len - End(p, c)
        BY <1>1, <1>6, <3>1, <3>4
      <4> QED
        BY <3>2, <4>1
    <3> QED
      BY <1>1, <2>3, <3>2, <3>3, <3>4
  <2>5. stored = [i \in 1..len |-> <<row.id, c, row.lobs[c].version, i>>]
    BY <1>4, <2>1 DEF Text
  <2>6. ASSUME NEW i \in 1..(Len(t) + Len(got)), ~(i <= Len(t))
        PROVE  got[i - Len(t)] = stored[i]
    <3>1. i - Len(t) \in 1..Len(got) /\ i \in 1..len /\ spec.start + (i - Len(t)) - 1 = i
      BY <1>1, <1>4, <1>6, <1>8, <2>2, <2>6
    <3>2. got[i - Len(t)] = <<row.id, c, row.lobs[c].version, spec.start + (i - Len(t)) - 1>>
      BY <1>3, <2>1, <3>1
    <3> QED
      BY <2>5, <3>1, <3>2
  <2>7. ASSUME NEW i \in 1..(Len(t) + Len(got))
        PROVE  (t \o got)[i] = stored[i]
    <3>1. CASE i <= Len(t)
      <4>1. i \in 1..Len(t)
        BY <1>6, <3>1
      <4> QED
        BY <1>5, <1>7, <1>9, <3>1, <4>1
    <3>2. CASE ~(i <= Len(t))
      BY <1>7, <2>6, <3>2
    <3> QED
      BY <3>1, <3>2
  <2> QED
    BY <1>7, <2>4, <2>7
<1>10. Len(t \o got) <= len /\ Len(t \o got) <= End(p + 1, c)
  BY <1>7, <1>8
<1>11. Upto(t \o got, len, c, p + 1, exact, stored)
  BY <1>4, <1>7, <1>9, <1>10 DEF Upto
<1> QED
  BY <1>11 DEF got

LEMMA TextKept ==
    ASSUME NEW c \in ColIds, NEW len \in Lens, NEW text \in TextOf(len), NEW spec \in ChunkSpec,
           NEW row \in RowType
    PROVE  After(text, c, len, spec, row) \in TextOf(len)
<1>1. CASE spec.col # c \/ spec.start > len
  BY <1>1 DEF After
<1>2. CASE ~(spec.col # c \/ spec.start > len)
  <2>1. spec.start <= len /\ len # Missing
    BY <1>2, LobBounds DEF ChunkSpec
  <2>2. Trim(Substr(row, spec), spec, len) \in Seq(Char) /\ text \in Seq(Char)
    BY <2>1, TrimRead DEF TextOf
  <2>3. text \o Trim(Substr(row, spec), spec, len) \in Seq(Char)
    BY <2>2, ConcatProperties
  <2> QED
    BY <1>2, <2>1, <2>3 DEF After, TextOf
<1> QED
  BY <1>1, <1>2

LEMMA ReadsAll ==
    ASSUME NEW c \in ColIds, NEW len \in Lens, NEW text \in TextOf(len),
           NEW list \in Seq(ChunkSpec), NEW row \in RowType
    PROVE  LET read == Reads(text, c, len, list, row)
           IN  /\ read[0] = text
               /\ \A k \in 1..Len(list) : read[k] = After(read[k - 1], c, len, list[k], row)
               /\ \A k \in 0..Len(list) : read[k] \in TextOf(len)
<1> DEFINE n == Len(list)
           next == [x \in TextOf(len) \X (1..n) |-> After(x[1], c, len, list[x[2]], row)]
           Next(read) == [k \in 0..n |->
             IF k = 0 THEN text
             ELSE IF list[k].col # c \/ list[k].start > len THEN read[k - 1]
             ELSE read[k - 1] \o Trim(Substr(row, list[k]), list[k], len)]
           read == Reads(text, c, len, list, row)
<1>1. n \in Nat /\ \A k \in 1..n : list[k] \in ChunkSpec
  BY LenProperties
<1>2. next \in [TextOf(len) \X (1..n) -> TextOf(len)]
  <2>1. ASSUME NEW x \in TextOf(len) \X (1..n)
        PROVE  After(x[1], c, len, list[x[2]], row) \in TextOf(len)
    BY <1>1, TextKept
  <2> QED
    BY <2>1
<1>3. PICK g : Stepwise(g, TextOf(len), text, n, next)
  <2> HIDE DEF next, n, Next, read
  <2> QED
    BY <1>1, <1>2, Recursion
<1>4. g \in [0..n -> TextOf(len)] /\ g[0] = text
  BY <1>3 DEF Stepwise
<1>5. ASSUME NEW i \in 1..n
      PROVE  g[i] = After(g[i - 1], c, len, list[i], row)
  <2>1. i - 1 \in 0..n /\ g[i - 1] \in TextOf(len)
    BY <1>1, <1>4
  <2>2. <<g[i - 1], i>> \in TextOf(len) \X (1..n)
    BY <2>1
  <2> QED
    BY <1>3, <2>2 DEF Stepwise
<1>6. g = Next(g)
  <2>1. ASSUME NEW k \in 0..n
        PROVE  g[k] = Next(g)[k]
    <3>1. CASE k = 0
      BY <1>4, <3>1
    <3>2. CASE k # 0
      <4>1. k \in 1..n
        BY <1>1, <3>2
      <4> QED
        BY <1>5, <3>2, <4>1 DEF After
    <3> QED
      BY <3>1, <3>2
  <2> QED
    BY <1>4, <2>1
<1>7. read = Next(read)
  BY <1>6 DEF Reads
<1>8. read[0] = text
  BY <1>1, <1>7
<1>9. ASSUME NEW k \in 1..n
      PROVE  read[k] = After(read[k - 1], c, len, list[k], row)
  <2>1. k \in 0..n /\ k # 0
    BY <1>1
  <2>2. read[k] = Next(read)[k]
    BY <1>7
  <2> HIDE DEF read
  <2> QED
    BY <2>1, <2>2 DEF After
<1>10. \A k \in 0..n : read[k] \in TextOf(len)
  <2> DEFINE G == {k \in 0..n : read[k] \in TextOf(len)}
  <2>1. 0 \in G
    BY <1>1, <1>8
  <2>2. ASSUME NEW i \in 1..n, i - 1 \in G
        PROVE  i \in G
    BY <1>1, <1>9, <2>2, TextKept
  <2> HIDE DEF G
  <2>3. 0..n \subseteq G
    BY <1>1, <2>1, <2>2, KeptAlong
  <2> QED
    BY <2>3 DEF G
<1> QED
  BY <1>8, <1>9, <1>10
-----------------------------------------------------------------------------
(* Chunks in order *)

LEMMA FollowStep ==
    ASSUME NEW list \in Seq(ChunkSpec), NEW k \in Nat, k < Len(list), NEW c \in ColIds,
           NEW p \in Nat, NEW q \in Nat, FollowFrom(list, k, c, p, q)
    PROVE  /\ list[k + 1].col # c => FollowFrom(list, k + 1, c, p, q)
           /\ list[k + 1].col = c => list[k + 1].n = p + 1 /\ FollowFrom(list, k + 1, c, p + 1, q)
<1>1. Len(list) \in Nat /\ \A i \in 1..Len(list) : list[i].n \in Nat /\ list[i] \in ChunkSpec
  BY LenProperties, SpecFields
<1>2. /\ p <= q
      /\ \A i \in (k + 1)..Len(list) : list[i].col = c => list[i].n \in (p + 1)..q
      /\ \A i, j \in (k + 1)..Len(list) :
            i < j /\ list[i].col = c /\ list[j].col = c => list[i].n < list[j].n
      /\ \A n \in (p + 1)..q : \E i \in (k + 1)..Len(list) : list[i].col = c /\ list[i].n = n
  BY DEF FollowFrom
<1>3. k + 1 \in (k + 1)..Len(list) /\ k + 1 \in 1..Len(list)
  BY <1>1
<1>4. \A i \in (k + 1 + 1)..Len(list) :
        i \in (k + 1)..Len(list) /\ k + 1 < i /\ i \in 1..Len(list)
  BY <1>1
<1>5. \A i \in (k + 1)..Len(list) : i = k + 1 \/ i \in (k + 1 + 1)..Len(list)
  BY <1>1
<1>6. ASSUME list[k + 1].col # c
      PROVE  FollowFrom(list, k + 1, c, p, q)
  <2>1. \A n \in (p + 1)..q : \E i \in (k + 1 + 1)..Len(list) : list[i].col = c /\ list[i].n = n
    BY <1>2, <1>5, <1>6
  <2> QED
    BY <1>2, <1>4, <2>1 DEF FollowFrom
<1>7. ASSUME list[k + 1].col = c
      PROVE  list[k + 1].n = p + 1 /\ FollowFrom(list, k + 1, c, p + 1, q)
  <2>1. list[k + 1].n \in (p + 1)..q
    BY <1>2, <1>3, <1>7
  <2>2. p + 1 \in (p + 1)..q
    BY <2>1
  <2>3. PICK i \in (k + 1)..Len(list) : list[i].col = c /\ list[i].n = p + 1
    BY <1>2, <2>2
  <2>4. i = k + 1
    <3>1. CASE i \in (k + 1 + 1)..Len(list)
      <4>1. list[k + 1].n < p + 1
        BY <1>2, <1>3, <1>4, <1>7, <2>3, <3>1
      <4> QED
        BY <2>1, <4>1
    <3> QED
      BY <1>5, <3>1
  <2>5. list[k + 1].n = p + 1
    BY <2>3, <2>4
  <2>6. p + 1 <= q
    BY <2>1
  <2>7. ASSUME NEW j \in (k + 1 + 1)..Len(list), list[j].col = c
        PROVE  list[j].n \in (p + 1 + 1)..q
    <3>1. p + 1 < list[j].n /\ list[j].n \in (p + 1)..q
      BY <1>2, <1>3, <1>4, <1>7, <2>5, <2>7
    <3> QED
      BY <3>1
  <2>8. ASSUME NEW n \in (p + 1 + 1)..q
        PROVE  \E j \in (k + 1 + 1)..Len(list) : list[j].col = c /\ list[j].n = n
    <3>1. n \in (p + 1)..q /\ n # p + 1
      OBVIOUS
    <3>2. PICK j \in (k + 1)..Len(list) : list[j].col = c /\ list[j].n = n
      BY <1>2, <3>1
    <3>3. j # k + 1
      BY <2>5, <3>1, <3>2
    <3> QED
      BY <1>5, <3>2, <3>3
  <2>9. \A m, j \in (k + 1 + 1)..Len(list) :
          m < j /\ list[m].col = c /\ list[j].col = c => list[m].n < list[j].n
    BY <1>2, <1>4
  <2> QED
    BY <2>5, <2>6, <2>7, <2>8, <2>9 DEF FollowFrom
<1> QED
  BY <1>6, <1>7

LEMMA FollowEnd ==
    ASSUME NEW list \in Seq(ChunkSpec), NEW k \in Nat, k >= Len(list), NEW c,
           NEW p \in Nat, NEW q \in Nat, FollowFrom(list, k, c, p, q)
    PROVE  p = q
<1>1. Len(list) \in Nat
  BY LenProperties
<1>2. ~\E i \in (k + 1)..Len(list) : TRUE
  BY <1>1
<1>3. p <= q /\ \A n \in (p + 1)..q : FALSE
  BY <1>2 DEF FollowFrom
<1>4. ~(p < q)
  <2>1. p < q => p + 1 \in (p + 1)..q
    OBVIOUS
  <2> QED
    BY <1>3, <2>1
<1> QED
  BY <1>3, <1>4

LEMMA FollowRest ==
    ASSUME NEW list \in Seq(ChunkSpec), NEW k \in 0..Len(list), NEW c,
           NEW p \in Nat, NEW q \in Nat, FollowFrom(list, k, c, p, q)
    PROVE  FollowFrom(SubSeq(list, k + 1, Len(list)), 0, c, p, q)
<1> DEFINE rest == SubSeq(list, k + 1, Len(list))
<1>1. Len(list) \in Nat
  BY LenProperties
<1>2. Len(rest) = Len(list) - k /\ \A i \in 1..Len(rest) : rest[i] = list[k + i]
  BY <1>1, SubSeqProperties
<1> HIDE DEF rest
<1>3. \A i \in (0 + 1)..Len(rest) : k + i \in (k + 1)..Len(list) /\ rest[i] = list[k + i]
  BY <1>1, <1>2
<1>4. \A i \in (k + 1)..Len(list) : i - k \in (0 + 1)..Len(rest) /\ rest[i - k] = list[i]
  BY <1>1, <1>2
<1>5. p <= q /\ \A i \in (0 + 1)..Len(rest) : rest[i].col = c => rest[i].n \in (p + 1)..q
  BY <1>3 DEF FollowFrom
<1>6. ASSUME NEW i \in (0 + 1)..Len(rest), NEW j \in (0 + 1)..Len(rest),
             i < j, rest[i].col = c, rest[j].col = c
      PROVE  rest[i].n < rest[j].n
  <2>1. k + i < k + j
    BY <1>1, <1>6
  <2>2. /\ k + i \in (k + 1)..Len(list) /\ rest[i] = list[k + i]
        /\ k + j \in (k + 1)..Len(list) /\ rest[j] = list[k + j]
    BY <1>3, <1>6
  <2>3. \A a, b \in (k + 1)..Len(list) :
          a < b /\ list[a].col = c /\ list[b].col = c => list[a].n < list[b].n
    BY DEF FollowFrom
  <2> QED
    BY <1>6, <2>1, <2>2, <2>3
<1>7. ASSUME NEW n \in (p + 1)..q
      PROVE  \E i \in (0 + 1)..Len(rest) : rest[i].col = c /\ rest[i].n = n
  <2>1. PICK i \in (k + 1)..Len(list) : list[i].col = c /\ list[i].n = n
    BY DEF FollowFrom
  <2> QED
    BY <1>4, <2>1
<1>8. FollowFrom(rest, 0, c, p, q)
  BY <1>5, <1>6, <1>7 DEF FollowFrom
<1> QED
  BY <1>8 DEF rest

\* The first w chunks, as Good and Covers say them.
Proper(list, w, c, len) ==
    \A i \in 1..w :
      Good(list[i]) /\ (list[i].len = Limit(list[i].col)
                        \/ (list[i].col = c => len < list[i].start + list[i].len))

\* Texts before and after each of them: it is read, or passed over.
Texts(texts, list, w, c, len, exact, stored) ==
    \A i \in 1..w :
      \/ texts[i] = texts[i - 1] /\ (exact /\ list[i].col = c => list[i].start > len)
      \/ \E row \in RowType :
            /\ exact => row.lobs[c].len = len /\ stored = Text(row, c)
            /\ texts[i] = After(texts[i - 1], c, len, list[i], row)

\* A window of chunks, read or passed over.
LEMMA WindowRead ==
    ASSUME NEW list \in Seq(ChunkSpec), NEW w \in 0..Len(list), NEW c \in ColIds, NEW len \in Lens,
           NEW p \in Nat, NEW q \in Nat, FollowFrom(list, 0, c, p, q),
           Proper(list, w, c, len),
           NEW exact \in BOOLEAN, NEW stored, NEW texts,
           Upto(texts[0], len, c, p, exact, stored),
           Texts(texts, list, w, c, len, exact, stored)
    PROVE  \E m \in Nat : FollowFrom(list, w, c, m, q)
                          /\ Upto(texts[w], len, c, m, exact, stored)
<1> DEFINE G == {k \in 0..w : \E m \in Nat : FollowFrom(list, k, c, m, q)
                                /\ Upto(texts[k], len, c, m, exact, stored)}
<1>1. Len(list) \in Nat /\ w \in Nat /\ \A i \in 1..Len(list) : list[i] \in ChunkSpec
  BY LenProperties
<1>2. 0 \in G
  BY <1>1
<1>3. ASSUME NEW i \in 1..w, i - 1 \in G
      PROVE  i \in G
  <2>1. PICK m \in Nat : FollowFrom(list, i - 1, c, m, q)
                         /\ Upto(texts[i - 1], len, c, m, exact, stored)
    BY <1>3
  <2>2. /\ i - 1 \in Nat /\ i - 1 < Len(list) /\ i \in 0..w /\ i \in 1..Len(list)
        /\ i - 1 + 1 = i
    BY <1>1
  <2>3. /\ list[i].col # c => FollowFrom(list, i, c, m, q)
        /\ list[i].col = c => list[i].n = m + 1 /\ FollowFrom(list, i, c, m + 1, q)
    BY <2>1, <2>2, FollowStep
  <2>4. CASE list[i].col # c
    <3>1. texts[i] = texts[i - 1]
      BY <2>4 DEF After, Texts
    <3> QED
      BY <2>1, <2>2, <2>3, <2>4, <3>1
  <2>5. CASE list[i].col = c
    <3>1. list[i] \in ChunkSpec /\ Follows(list[i], c, len, m)
      BY <1>1, <2>2, <2>3, <2>5 DEF Follows, Proper
    <3>2. Upto(texts[i], len, c, m + 1, exact, stored)
      <4>1. CASE texts[i] = texts[i - 1] /\ (exact => list[i].start > len)
        BY <2>1, <3>1, <4>1, ChunkBehind
      <4>2. ASSUME NEW row \in RowType, exact => row.lobs[c].len = len /\ stored = Text(row, c),
                   texts[i] = After(texts[i - 1], c, len, list[i], row)
            PROVE  Upto(texts[i], len, c, m + 1, exact, stored)
        <5>1. list[i].start \in Int /\ len \in Int
          BY <3>1, LobBounds, SpecFields
        <5>2. CASE list[i].start > len
          <6>1. texts[i] = texts[i - 1]
            BY <4>2, <5>2 DEF After
          <6> QED
            BY <2>1, <3>1, <5>2, <6>1, ChunkBehind
        <5>3. CASE list[i].start <= len
          <6>1. texts[i] = texts[i - 1] \o Trim(Substr(row, list[i]), list[i], len)
            <7>1. ~(list[i].col # c \/ list[i].start > len)
              BY <2>5, <5>1, <5>3
            <7> QED
              BY <4>2, <7>1 DEF After
          <6> QED
            BY <2>1, <3>1, <4>2, <5>3, <6>1, ChunkRead
        <5> QED
          BY <5>1, <5>2, <5>3
      <4> QED
        BY <2>5, <4>1, <4>2 DEF Texts
    <3> QED
      BY <2>2, <2>3, <2>5, <3>2
  <2> QED
    BY <2>4, <2>5
<1> HIDE DEF G
<1>4. 0..w \subseteq G
  BY <1>1, <1>2, <1>3, KeptAlong
<1>5. w \in 0..w
  BY <1>1
<1> QED
  BY <1>4, <1>5 DEF G

-----------------------------------------------------------------------------
(* Windows and batches *)

LEMMA TotalNatural ==
    ASSUME NEW list \in Seq(ChunkSpec)
    PROVE  Total(list) \in Nat
<1> DEFINE n == Len(list)
           next == [x \in Nat \X (1..n) |-> x[1] + Bytes(list[x[2]])]
           Next(sum) == [k \in 0..n |-> IF k = 0 THEN 0 ELSE sum[k - 1] + Bytes(list[k])]
           sum == CHOOSE sum : sum = Next(sum)
<1>1. n \in Nat /\ \A k \in 1..n : Bytes(list[k]) \in Nat
  <2>1. n \in Nat /\ \A k \in 1..n : list[k] \in ChunkSpec
    BY LenProperties
  <2>2. ASSUME NEW spec \in ChunkSpec
        PROVE  Bytes(spec) \in Nat
    BY SpecFields DEF Bytes
  <2> QED
    BY <2>1, <2>2
<1>2. next \in [Nat \X (1..n) -> Nat]
  BY <1>1
<1>3. PICK g : Stepwise(g, Nat, 0, n, next)
  <2> HIDE DEF next, n
  <2> QED
    BY <1>1, <1>2, Recursion
<1>4. g \in [0..n -> Nat] /\ g[0] = 0
  BY <1>3 DEF Stepwise
<1>5. ASSUME NEW i \in 1..n
      PROVE  g[i] = g[i - 1] + Bytes(list[i])
  <2>1. i - 1 \in 0..n /\ g[i - 1] \in Nat
    BY <1>1, <1>4
  <2>2. <<g[i - 1], i>> \in Nat \X (1..n)
    BY <2>1
  <2> QED
    BY <1>3, <2>2 DEF Stepwise
<1>6. g = Next(g)
  <2>1. ASSUME NEW k \in 0..n
        PROVE  g[k] = Next(g)[k]
    <3>1. CASE k = 0
      BY <1>4, <3>1
    <3>2. CASE k # 0
      BY <1>1, <1>5, <3>2
    <3> QED
      BY <3>1, <3>2
  <2> QED
    BY <1>4, <2>1
<1>7. sum = Next(sum)
  BY <1>6
<1>8. Total(list) = sum[n]
  BY DEF Total
<1> HIDE DEF sum
<1>9. \A k \in 0..n : sum[k] \in Nat
  <2> DEFINE G == {k \in 0..n : sum[k] \in Nat}
  <2>1. 0 \in G
    BY <1>1, <1>7
  <2>2. ASSUME NEW i \in 1..n, i - 1 \in G
        PROVE  i \in G
    <3>1. i \in 0..n /\ i # 0
      BY <1>1
    <3>2. sum[i] = sum[i - 1] + Bytes(list[i])
      BY <1>7, <3>1
    <3> QED
      BY <1>1, <2>2, <3>1, <3>2
  <2> HIDE DEF G
  <2>3. 0..n \subseteq G
    BY <1>1, <2>1, <2>2, KeptAlong
  <2> QED
    BY <2>3 DEF G
<1> QED
  BY <1>1, <1>8, <1>9

LEMMA WindowLengthOf ==
    ASSUME NEW list \in Seq(ChunkSpec), list # <<>>
    PROVE  WindowLength(list) \in 1..Len(list)
<1> DEFINE T == {1} \cup {n \in DOMAIN list : Total(SubSeq(list, 1, n)) <= WindowTarget}
<1>1. Len(list) \in Nat \ {0} /\ DOMAIN list = 1..Len(list)
  BY EmptySeq, LenProperties
<1>2. T \subseteq Nat /\ 1 \in T /\ \A n \in T : n <= Len(list) /\ n \in 1..Len(list)
  BY <1>1
<1> HIDE DEF T
<1>3. Max(T) \in T
  BY <1>1, <1>2, MaxOf
<1> QED
  BY <1>2, <1>3 DEF T, WindowLength

LEMMA WindowOf ==
    ASSUME NEW list \in Seq(ChunkSpec), list # <<>>
    PROVE  /\ Window(list) \in Seq(ChunkSpec) /\ Len(Window(list)) = WindowLength(list)
           /\ WindowLength(list) \in 1..Len(list)
           /\ \A i \in 1..WindowLength(list) : Window(list)[i] = list[i]
<1>1. WindowLength(list) \in 1..Len(list) /\ Len(list) \in Nat
  BY WindowLengthOf, LenProperties
<1> QED
  BY <1>1, SubSeqProperties DEF Window

LEMMA RowsInBatch ==
    ASSUME NEW list \in Seq(ChunkSpec)
    PROVE  RowsPerBatch(list) \in Nat \ {0}
<1>1. Total(list) \in Nat /\ ReplyTarget \in Nat \ {0} /\ BatchLimit \in Nat \ {0}
  BY TotalNatural, LobChunksAssumption
<1> DEFINE total == Max({1, Total(list)})
           rows == ReplyTarget \div total
           least == Max({1, rows})
<1>2. total \in Nat \ {0}
  BY <1>1, MaxOfTwo
<1>3. rows \in Nat
  <2> HIDE DEF total
  <2> QED
    BY <1>1, <1>2
<1>4. least \in Nat \ {0}
  <2> HIDE DEF rows
  <2> QED
    BY <1>3, MaxOfTwo
<1>5. RowsPerBatch(list) = Min({BatchLimit, least})
  BY DEF RowsPerBatch
<1> HIDE DEF least
<1> QED
  BY <1>1, <1>4, <1>5, MinOfTwo
-----------------------------------------------------------------------------
(* What the server answers *)

AnswerRow == [rn : Nat, row : RowType]

LEMMA NumberedRows ==
    ASSUME table \in Seq(RowType), chosen \in [ordered : BOOLEAN, limit : Nat]
    PROVE  /\ Numbered \in Seq(AnswerRow)
           /\ ~chosen.ordered => \A i \in 1..Len(Numbered) : Numbered[i].rn = i
<1> DEFINE all == [i \in DOMAIN table |-> [rn |-> i, row |-> table[i]]]
           sorted == IF chosen.ordered THEN Reverse(all) ELSE all
<1>1. Len(table) \in Nat /\ DOMAIN table = 1..Len(table)
      /\ \A i \in 1..Len(table) : table[i] \in RowType
  BY LenProperties
<1>2. all \in Seq(AnswerRow) /\ Len(all) = Len(table)
  <2>1. all \in [1..Len(table) -> AnswerRow]
    BY <1>1 DEF AnswerRow
  <2> HIDE DEF all
  <2> QED
    BY <1>1, <2>1, ListedSequence
<1>3. \A i \in 1..Len(all) : all[i].rn = i
  BY <1>1, <1>2
<1> HIDE DEF all
<1>4. Reverse(all) \in Seq(AnswerRow)
  <2>1. Len(all) \in Nat /\ \A i \in 1..Len(all) : all[i] \in AnswerRow
    BY <1>2, LenProperties
  <2>2. \A i \in 1..Len(all) : (Len(all) - i) + 1 \in 1..Len(all)
    BY <2>1
  <2>3. Reverse(all) \in [1..Len(all) -> AnswerRow]
    BY <2>1, <2>2 DEF Reverse
  <2> QED
    BY <2>1, <2>3, ListedSequence
<1>5. sorted \in Seq(AnswerRow) /\ (~chosen.ordered => \A i \in 1..Len(sorted) : sorted[i].rn = i)
  BY <1>2, <1>3, <1>4
<1>6. Numbered = IF chosen.limit > 0 /\ chosen.limit < Len(sorted)
                 THEN SubSeq(sorted, 1, chosen.limit) ELSE sorted
  BY DEF Numbered, all
<1> HIDE DEF sorted
<1>7. CASE chosen.limit > 0 /\ chosen.limit < Len(sorted)
  <2>1. chosen.limit \in Nat /\ Len(sorted) \in Nat
    BY <1>5, LenProperties
  <2>2. /\ SubSeq(sorted, 1, chosen.limit) \in Seq(AnswerRow)
        /\ Len(SubSeq(sorted, 1, chosen.limit)) = chosen.limit
        /\ \A i \in 1..chosen.limit : SubSeq(sorted, 1, chosen.limit)[i] = sorted[i]
    BY <1>5, <1>7, <2>1, SubSeqProperties
  <2>3. \A i \in 1..chosen.limit : i \in 1..Len(sorted)
    BY <1>7, <2>1
  <2> QED
    BY <1>5, <1>6, <1>7, <2>2, <2>3
<1>8. CASE ~(chosen.limit > 0 /\ chosen.limit < Len(sorted))
  BY <1>5, <1>6, <1>8
<1> QED
  BY <1>7, <1>8

-----------------------------------------------------------------------------
(* Batches of rows *)

LEMMA TextReplaced ==
    ASSUME NEW row \in OutRow, NEW text
    PROVE  /\ [row EXCEPT !.text = text].id = row.id
           /\ [row EXCEPT !.text = text].text = text
           /\ text \in [ColIds -> TextType] => [row EXCEPT !.text = text] \in OutRow
BY DEF OutRow

\* The rows after the answer to a query: those it has no row for are as before.
Grown(new, rows, lens, list, answer) ==
    /\ new \in Seq(OutRow) /\ Len(new) = Len(rows)
    /\ \A r \in 1..Len(rows) : new[r].id = rows[r].id
    /\ \A r \in 1..Len(rows), c \in ColIds : new[r].text[c] \in TextOf(lens[r][c])
    /\ \A r \in 1..Len(rows) :
         IF RowOf(answer, r) = {} THEN new[r] = rows[r]
         ELSE \E a \in RowOf(answer, r) : \A c \in ColIds :
                new[r].text[c] = Reads(rows[r].text[c], c, lens[r][c], list, a.row)[Len(list)]

LEMMA AppendedRows ==
    ASSUME NEW rows \in Seq(OutRow), NEW lens \in Seq([ColIds -> Lens]),
           Len(rows) = Len(lens), NEW list \in Seq(ChunkSpec), NEW answer \in SUBSET AnswerRow,
           \A r \in 1..Len(rows), c \in ColIds : rows[r].text[c] \in TextOf(lens[r][c])
    PROVE  Grown(Appended(rows, lens, list, answer), rows, lens, list, answer)
<1> DEFINE n == Len(rows)
           new == Appended(rows, lens, list, answer)
           Read(r, a, c) == Reads(rows[r].text[c], c, lens[r][c], list, a.row)[Len(list)]
           first(r) == CHOOSE a \in RowOf(answer, r) : TRUE
<1>1. /\ n \in Nat /\ DOMAIN rows = 1..n /\ Len(list) \in Nat
      /\ \A r \in 1..n : rows[r] \in OutRow /\ lens[r] \in [ColIds -> Lens]
  BY LenProperties
<1>2. ASSUME NEW r \in 1..n
      PROVE  /\ rows[r].id \in Nat
             /\ rows[r] = [id |-> rows[r].id, text |-> rows[r].text]
             /\ \A c \in ColIds : lens[r][c] \in Lens /\ TextOf(lens[r][c]) \subseteq TextType
  BY <1>1 DEF OutRow, TextOf, TextType
<1>3. ASSUME NEW r \in 1..n, RowOf(answer, r) # {}
      PROVE  first(r) \in RowOf(answer, r) /\ first(r).row \in RowType
  <2>1. first(r) \in RowOf(answer, r)
    BY <1>3
  <2>2. first(r) \in AnswerRow
    BY <2>1 DEF RowOf
  <2> QED
    BY <2>1, <2>2 DEF AnswerRow
<1> HIDE DEF first
<1>4. ASSUME NEW r \in 1..n, RowOf(answer, r) # {}, NEW c \in ColIds
      PROVE  Read(r, first(r), c) \in TextOf(lens[r][c])
  <2>1. lens[r][c] \in Lens /\ rows[r].text[c] \in TextOf(lens[r][c])
        /\ first(r).row \in RowType /\ Len(list) \in 0..Len(list)
    BY <1>1, <1>2, <1>3, <1>4
  <2> QED
    BY <2>1, ReadsAll
<1>5. ASSUME NEW r \in 1..n
      PROVE  new[r] = IF RowOf(answer, r) = {} THEN rows[r]
                      ELSE [rows[r] EXCEPT !.text = [c \in ColIds |-> Read(r, first(r), c)]]
  BY <1>1 DEF Appended, first
<1>6. DOMAIN new = 1..n
  BY <1>1 DEF Appended
<1>7. new = [r \in 1..n |-> new[r]]
  BY <1>1 DEF Appended
<1> HIDE DEF new, Read
<1>8. ASSUME NEW r \in 1..n
      PROVE  /\ new[r].id = rows[r].id
             /\ \A c \in ColIds : new[r].text[c] \in TextOf(lens[r][c])
             /\ new[r] \in OutRow
             /\ RowOf(answer, r) # {} =>
                  \A c \in ColIds : new[r].text[c] = Read(r, first(r), c)
  <2>1. CASE RowOf(answer, r) = {}
    BY <1>1, <1>5, <2>1
  <2>2. CASE RowOf(answer, r) # {}
    <3> DEFINE text == [c \in ColIds |-> Read(r, first(r), c)]
    <3>1. new[r] = [rows[r] EXCEPT !.text = text] /\ rows[r] \in OutRow
      BY <1>1, <1>5, <2>2
    <3>2. \A c \in ColIds : text[c] = Read(r, first(r), c)
      OBVIOUS
    <3>3. \A c \in ColIds : text[c] \in TextOf(lens[r][c])
      BY <1>4, <2>2, <3>2
    <3>4. text \in [ColIds -> TextType]
      BY <1>2, <1>4, <2>2
    <3> HIDE DEF text
    <3>5. new[r] \in OutRow /\ new[r].id = rows[r].id /\ new[r].text = text
      BY <3>1, <3>4, TextReplaced
    <3> QED
      BY <3>2, <3>3, <3>5
  <2> QED
    BY <2>1, <2>2
<1>9. new \in Seq(OutRow) /\ Len(new) = n
  <2>1. new \in [1..n -> OutRow]
    BY <1>7, <1>8
  <2> QED
    BY <1>1, <2>1, ListedSequence
<1>10. ASSUME NEW r \in 1..n
       PROVE  IF RowOf(answer, r) = {} THEN new[r] = rows[r]
              ELSE \E a \in RowOf(answer, r) : \A c \in ColIds :
                     new[r].text[c] = Read(r, a, c)
  BY <1>3, <1>5, <1>8
<1> QED
  BY <1>8, <1>9, <1>10 DEF new, Read, Grown

\* The rows that the current window is read for, after this batch.
PassedNow(r) == IF r <= LastRow THEN WindowLength(specs) ELSE 0

LEMMA LastRowOf ==
    ASSUME LobTypeOK, specs # <<>>
    PROVE  /\ LastRow \in Nat /\ Len(out) \in Nat /\ LastRow <= Len(out)
           /\ LastRow < Len(out) => rowStart <= LastRow
           /\ Batch = Window(specs) /\ Batch \in Seq(ChunkSpec)
<1>1. Batch = Window(specs) /\ Batch \in Seq(ChunkSpec)
  BY WindowOf DEF Batch, LobTypeOK
<1>2. RowsPerBatch(Batch) \in Nat \ {0}
  BY <1>1, RowsInBatch
<1>3. Len(out) \in Nat /\ rowStart \in Nat \ {0}
  BY LenProperties DEF LobTypeOK
<1> DEFINE last == rowStart + RowsPerBatch(Batch) - 1
<1>4. last \in Nat /\ rowStart <= last
  BY <1>2, <1>3
<1>5. LastRow = Min({Len(out), last})
  BY DEF LastRow
<1> HIDE DEF last
<1>6. LastRow = IF Len(out) <= last THEN Len(out) ELSE last
  BY <1>3, <1>4, <1>5, MinOfTwo
<1> QED
  BY <1>1, <1>3, <1>4, <1>6

\* What is left for a row after a batch, as the next batch sees it.
LEMMA BatchPassed ==
    ASSUME LobTypeOK, specs # <<>>, NextBatch,
           NEW r \in 1..Len(out), NEW c \in ColIds, NEW p \in Nat, NEW q \in Nat,
           FollowFrom(specs, PassedNow(r), c, p, q)
    PROVE  FollowFrom(specs', Passed(r)', c, p, q)
<1>1. LastRow \in Nat /\ Len(out) \in Nat /\ LastRow <= Len(out) /\ Batch = Window(specs)
  BY LastRowOf
<1>2. specs \in Seq(ChunkSpec) /\ WindowLength(specs) \in 1..Len(specs)
      /\ Len(Batch) = WindowLength(specs) /\ Len(specs) \in Nat
  BY <1>1, WindowOf, LenProperties DEF LobTypeOK
<1>3. CASE LastRow < Len(out)
  <2>1. rowStart' = LastRow + 1 /\ specs' = specs
    BY <1>3 DEF NextBatch
  <2>2. Passed(r)' = PassedNow(r)
    <3>1. r < LastRow + 1 <=> r <= LastRow
      BY <1>1
    <3> QED
      BY <2>1, <3>1 DEF Passed, PassedNow
  <2> QED
    BY <2>1, <2>2
<1>4. CASE ~(LastRow < Len(out))
  <2>1. rowStart' = 1 /\ specs' = SubSeq(specs, WindowLength(specs) + 1, Len(specs))
    BY <1>2, <1>4 DEF NextBatch
  <2>2. PassedNow(r) = WindowLength(specs) /\ Passed(r)' = 0
    BY <1>1, <1>4, <2>1 DEF Passed, PassedNow
  <2>3. WindowLength(specs) \in 0..Len(specs)
    BY <1>2
  <2> QED
    BY <1>2, <2>1, <2>2, <2>3, FollowRest
<1> QED
  BY <1>3, <1>4

LEMMA BatchShape ==
    ASSUME LobTypeOK, Chunks, specs # <<>>, NextBatch
    PROVE  /\ specs' \in Seq(ChunkSpec) /\ rowStart' \in Nat \ {0}
           /\ \A i \in 1..Len(specs') : Good(specs'[i]) /\ Covers(specs'[i], lengths)
<1>1. LastRow \in Nat /\ Batch = Window(specs)
  BY LastRowOf
<1>2. specs \in Seq(ChunkSpec) /\ WindowLength(specs) \in 1..Len(specs)
      /\ Len(Batch) = WindowLength(specs) /\ Len(specs) \in Nat
  BY <1>1, WindowOf, LenProperties DEF LobTypeOK
<1>3. CASE LastRow < Len(out)
  BY <1>1, <1>2, <1>3 DEF NextBatch, Chunks
<1>4. CASE ~(LastRow < Len(out))
  <2> DEFINE w == WindowLength(specs)
             rest == SubSeq(specs, w + 1, Len(specs))
  <2>1. rowStart' = 1 /\ specs' = rest
    BY <1>2, <1>4 DEF NextBatch
  <2>2. /\ rest \in Seq(ChunkSpec) /\ Len(rest) = Len(specs) - w
        /\ \A i \in 1..(Len(specs) - w) : rest[i] = specs[w + i]
    <3> HIDE DEF w
    <3> QED
      BY <1>2, SubSeqProperties DEF w
  <2>3. \A i \in 1..(Len(specs) - w) : w + i \in 1..Len(specs)
    BY <1>2
  <2>4. ASSUME NEW i \in 1..(Len(specs) - w)
        PROVE  Good(rest[i]) /\ Covers(rest[i], lengths)
    BY <2>2, <2>3 DEF Chunks
  <2> HIDE DEF rest
  <2> QED
    BY <2>1, <2>2, <2>4
<1> QED
  BY <1>3, <1>4

-----------------------------------------------------------------------------
(* The steps *)

LEMMA ExactRow ==
    ASSUME LobTypeOK, AsRead, Rebuilding, Exact, NEW r \in 1..Len(lengths), NEW c \in ColIds
    PROVE  /\ r \in 1..Len(Numbered) /\ Numbered[r] \in AnswerRow /\ Numbered[r].rn = r
           /\ Numbered[r].row \in RowType
           /\ Numbered[r].row.lobs[c].len = lengths[r][c]
           /\ expected[r].text[c] = Text(Numbered[r].row, c)
<1>1. /\ Numbered \in Seq(AnswerRow) /\ \A i \in 1..Len(Numbered) : Numbered[i].rn = i
  BY NumberedRows DEF LobTypeOK, Exact
<1>2. lengths = Lengths(Numbered) /\ expected = Stored(Numbered)
  BY DEF AsRead, Exact
<1>3. DOMAIN Numbered = 1..Len(Numbered) /\ Len(Numbered) \in Nat
      /\ \A i \in 1..Len(Numbered) : Numbered[i] \in AnswerRow
  BY <1>1, LenProperties
<1>4. Len(lengths) = Len(Numbered)
  <2>1. DOMAIN lengths = 1..Len(Numbered)
    BY <1>2, <1>3 DEF Lengths
  <2>2. Len(lengths) \in Nat /\ DOMAIN lengths = 1..Len(lengths)
    BY LenProperties DEF LobTypeOK
  <2> QED
    BY <1>3, <2>1, <2>2
<1>5. Numbered[r].row \in RowType
  BY <1>3, <1>4 DEF AnswerRow
<1>6. lengths[r][c] = Numbered[r].row.lobs[c].len
  BY <1>2, <1>3, <1>4 DEF Lengths
<1>7. expected[r].text[c] = Text(Numbered[r].row, c)
  BY <1>2, <1>3, <1>4 DEF Stored
<1> QED
  BY <1>1, <1>3, <1>4, <1>5, <1>6, <1>7

LEMMA SameLengths ==
    ASSUME LobTypeOK, SameRows, NEW r \in 1..Len(out), NEW c \in ColIds
    PROVE  /\ r \in 1..Len(lengths) /\ r \in DOMAIN lengths /\ lengths[r][c] \in Lens
           /\ lengths[r][c] \in Int /\ out[r].text[c] \in TextOf(lengths[r][c])
<1>1. Len(lengths) = Len(out) /\ lengths \in Seq([ColIds -> Lens])
      /\ out[r].text[c] \in TextOf(lengths[r][c])
  BY DEF SameRows, LobTypeOK
<1>2. lengths[r] \in [ColIds -> Lens] /\ DOMAIN lengths = 1..Len(lengths)
  BY <1>1, LenProperties
<1> QED
  BY <1>1, <1>2, LobBounds

\* The batch of the window that is passed over.
LEMMA BatchSkipped ==
    ASSUME LobIInv, step = "chunks", specs # <<>>, ~ReadTwice,
           NEW r \in 1..Len(out), NEW c \in ColIds,
           r \in rowStart..LastRow /\ Exact =>
             \A i \in 1..Len(Batch) : Batch[i].col = c => Batch[i].start > lengths[r][c]
    PROVE  \E p, q \in Nat :
             /\ FollowFrom(specs, PassedNow(r), c, p, q)
             /\ lengths[r][c] <= End(q, c)
             /\ Upto(out[r].text[c], lengths[r][c], c, p, Exact, expected[r].text[c])
<1>1. PICK p \in Nat, q \in Nat :
        /\ FollowFrom(specs, Passed(r), c, p, q)
        /\ lengths[r][c] <= End(q, c)
        /\ Upto(out[r].text[c], lengths[r][c], c, p, Exact, expected[r].text[c])
  BY DEF LobIInv, Grid, Rebuilding, Rebuilt
<1>2. /\ LastRow \in Nat /\ Len(out) \in Nat /\ LastRow <= Len(out) /\ Batch = Window(specs)
      /\ LastRow < Len(out) => rowStart <= LastRow
      /\ rowStart \in Nat /\ specs \in Seq(ChunkSpec)
  BY LastRowOf DEF LobIInv, LobTypeOK
<1>3. CASE r < rowStart
  <2>1. Passed(r) = PassedNow(r)
    <3>1. r <= LastRow
      BY <1>2, <1>3
    <3> QED
      BY <1>3, <3>1 DEF Passed, PassedNow
  <2> QED
    BY <1>1, <2>1
<1>4. CASE ~(r < rowStart) /\ ~(r <= LastRow)
  <2>1. Passed(r) = PassedNow(r)
    BY <1>4 DEF Passed, PassedNow
  <2> QED
    BY <1>1, <2>1
<1>5. CASE ~(r < rowStart) /\ r <= LastRow
  <2> DEFINE w == WindowLength(specs)
             len == lengths[r][c]
             text == out[r].text[c]
             texts == [i \in 0..w |-> text]
  <2>1. Passed(r) = 0 /\ PassedNow(r) = w /\ r \in rowStart..LastRow
    BY <1>2, <1>5 DEF Passed, PassedNow
  <2>2. w \in 0..Len(specs) /\ w \in Nat /\ Len(Batch) = w
        /\ \A i \in 1..w : Batch[i] = specs[i] /\ i \in 1..Len(specs)
    BY <1>2, WindowOf, LenProperties
  <2>3. r \in DOMAIN lengths /\ len \in Lens
    BY SameLengths DEF LobIInv
  <2>4. ASSUME NEW i \in 1..w
        PROVE  /\ Good(specs[i])
               /\ specs[i].len = Limit(specs[i].col)
                  \/ (specs[i].col = c => len < specs[i].start + specs[i].len)
    BY <2>2, <2>3 DEF LobIInv, Chunks, Covers
  <2>5. ASSUME NEW i \in 1..w
        PROVE  texts[i] = texts[i - 1]
               /\ (Exact /\ specs[i].col = c => specs[i].start > len)
    <3>1. i \in 0..w /\ i - 1 \in 0..w
      BY <2>2
    <3>2. Exact /\ specs[i].col = c => specs[i].start > len
      BY <2>1, <2>2
    <3> QED
      BY <3>1, <3>2
  <2>6. texts[0] = text /\ texts[w] = text
    BY <2>2
  <2>7. Upto(texts[0], len, c, p, Exact, expected[r].text[c])
        /\ FollowFrom(specs, 0, c, p, q)
    BY <1>1, <2>1, <2>6
  <2>8. Exact \in BOOLEAN
    BY DEF Exact
  <2>9. Proper(specs, w, c, len)
    BY <2>4 DEF Proper
  <2>10. Texts(texts, specs, w, c, len, Exact, expected[r].text[c])
    BY <2>5 DEF Texts
  <2> HIDE DEF w, len, text, texts
  <2>11. \E m \in Nat : FollowFrom(specs, w, c, m, q)
                       /\ Upto(texts[w], len, c, m, Exact, expected[r].text[c])
    BY <1>2, <2>2, <2>3, <2>7, <2>8, <2>9, <2>10, WindowRead
  <2> QED
    BY <1>1, <2>1, <2>6, <2>11 DEF len, text
<1> QED
  BY <1>3, <1>4, <1>5

\* The batch that is read: the rows of the answer that it is for.
Read == {a \in ToSet(Numbered) : a.rn \in rowStart..LastRow}

LEMMA BatchRead ==
    ASSUME LobIInv, step = "chunks", specs # <<>>, ~ReadTwice,
           NEW r \in 1..Len(out), NEW c \in ColIds, NEW a \in RowOf(Read, r), NEW text,
           text = Reads(out[r].text[c], c, lengths[r][c], Batch, a.row)[Len(Batch)]
    PROVE  \E p, q \in Nat :
             /\ FollowFrom(specs, PassedNow(r), c, p, q)
             /\ lengths[r][c] <= End(q, c)
             /\ Upto(text, lengths[r][c], c, p, Exact, expected[r].text[c])
<1> DEFINE w == WindowLength(specs)
           len == lengths[r][c]
           texts == Reads(out[r].text[c], c, len, Batch, a.row)
<1>1. PICK p \in Nat, q \in Nat :
        /\ FollowFrom(specs, Passed(r), c, p, q)
        /\ lengths[r][c] <= End(q, c)
        /\ Upto(out[r].text[c], lengths[r][c], c, p, Exact, expected[r].text[c])
  BY DEF LobIInv, Grid, Rebuilding, Rebuilt
<1>2. /\ LastRow \in Nat /\ Batch = Window(specs) /\ rowStart \in Nat /\ specs \in Seq(ChunkSpec)
      /\ Batch \in Seq(ChunkSpec)
  BY LastRowOf DEF LobIInv, LobTypeOK
<1>3. w \in 0..Len(specs) /\ w \in Nat /\ Len(Batch) = w
      /\ \A i \in 1..w : Batch[i] = specs[i] /\ i \in 1..Len(specs)
  BY <1>2, WindowOf, LenProperties
<1>4. a \in ToSet(Numbered) /\ a.rn = r /\ r \in rowStart..LastRow
  BY DEF RowOf, Read
<1>5. Passed(r) = 0 /\ PassedNow(r) = w
  <2>1. ~(r < rowStart) /\ r <= LastRow
    BY <1>2, <1>4
  <2> QED
    BY <2>1 DEF Passed, PassedNow
<1>6. r \in 1..Len(lengths) /\ r \in DOMAIN lengths /\ len \in Lens
      /\ out[r].text[c] \in TextOf(len)
  BY SameLengths DEF LobIInv
<1>7. PICK i \in 1..Len(Numbered) : Numbered[i] = a /\ a \in AnswerRow
  <2>1. Numbered \in Seq(AnswerRow)
    BY NumberedRows DEF LobIInv, LobTypeOK
  <2> QED
    BY <1>4, <2>1, LenProperties DEF ToSet
<1>8. a.row \in RowType
  BY <1>7 DEF AnswerRow
<1>9. Exact => a.row.lobs[c].len = len /\ expected[r].text[c] = Text(a.row, c)
  <2>1. ASSUME Exact
        PROVE  a = Numbered[r]
    <3>1. \A j \in 1..Len(Numbered) : Numbered[j].rn = j
      BY <2>1, NumberedRows DEF LobIInv, LobTypeOK, Exact
    <3> QED
      BY <1>4, <1>7, <3>1
  <2>2. Rebuilding
    BY DEF Rebuilding
  <2> QED
    BY <1>6, <2>1, <2>2, ExactRow DEF LobIInv
<1>10. /\ texts[0] = out[r].text[c]
       /\ \A k \in 1..w : texts[k] = After(texts[k - 1], c, len, specs[k], a.row)
  <2>1. /\ texts[0] = out[r].text[c]
        /\ \A k \in 1..Len(Batch) : texts[k] = After(texts[k - 1], c, len, Batch[k], a.row)
    <3> HIDE DEF len
    <3> QED
      BY <1>2, <1>6, <1>8, ReadsAll
  <2> HIDE DEF texts, len, w
  <2> QED
    BY <1>3, <2>1
<1>11. Proper(specs, w, c, len)
  BY <1>3, <1>6 DEF LobIInv, Chunks, Covers, Proper
<1>12. Upto(texts[0], len, c, p, Exact, expected[r].text[c]) /\ FollowFrom(specs, 0, c, p, q)
  BY <1>1, <1>5, <1>10
<1>13. Exact \in BOOLEAN /\ text = texts[w]
  BY <1>3 DEF Exact
<1>14. Texts(texts, specs, w, c, len, Exact, expected[r].text[c])
  <2> HIDE DEF texts, len, w
  <2> QED
    BY <1>8, <1>9, <1>10 DEF Texts
<1> HIDE DEF w, len, texts
<1>15. \E m \in Nat : FollowFrom(specs, w, c, m, q)
                      /\ Upto(texts[w], len, c, m, Exact, expected[r].text[c])
  BY <1>2, <1>3, <1>6, <1>11, <1>12, <1>13, <1>14, WindowRead
<1> QED
  BY <1>1, <1>5, <1>13, <1>15 DEF len

\* What AsRead and ReadTwice say stays so while these do.
LEMMA AsBefore ==
    ASSUME UNCHANGED <<table, chosen>>
    PROVE  Numbered' = Numbered
BY DEF Numbered

LEMMA TwiceAsBefore ==
    ASSUME UNCHANGED <<single, lengths>>
    PROVE  ReadTwice' = ReadTwice
BY DEF ReadTwice

\* A batch, for which the rows' texts are what has been read, or as they were.
LEMMA BatchDone ==
    ASSUME LobIInv, step = "chunks", specs # <<>>, NextBatch,
           UNCHANGED <<table, changes, stale, chosen, step, single, lengths, expected>>,
           out' \in Seq(OutRow), Len(out') = Len(out),
           \A r \in 1..Len(out) : out'[r].id = out[r].id,
           \A r \in 1..Len(out), c \in ColIds : out'[r].text[c] \in TextOf(lengths[r][c]),
           ~ReadTwice => \A r \in 1..Len(out), c \in ColIds : \E p, q \in Nat :
             /\ FollowFrom(specs, PassedNow(r), c, p, q)
             /\ lengths[r][c] <= End(q, c)
             /\ Upto(out'[r].text[c], lengths[r][c], c, p, Exact, expected[r].text[c])
    PROVE  LobIInv'
<1>1. LobTypeOK /\ SameRows /\ AsRead /\ Chunks
  BY DEF LobIInv
<1>2. /\ specs' \in Seq(ChunkSpec) /\ rowStart' \in Nat \ {0}
      /\ \A i \in 1..Len(specs') : Good(specs'[i]) /\ Covers(specs'[i], lengths)
  BY <1>1, BatchShape
<1>3. LobTypeOK'
  BY <1>1, <1>2 DEF LobTypeOK
<1>4. SameRows'
  BY <1>1 DEF SameRows
<1>5. AsRead'
  BY <1>1, AsBefore DEF AsRead, Rebuilding
<1>6. Chunks'
  <2>1. step' # "done" /\ lengths' = lengths
    OBVIOUS
  <2>2. \A i \in 1..Len(specs') : Good(specs'[i]) /\ Covers(specs'[i], lengths')
    BY <1>2, <2>1
  <2>3. \A i \in 1..Len(specs') : (Good(specs[i]))' /\ (Covers(specs[i], lengths))'
    BY <2>2 DEF Good, Covers, End, Limit
  <2> QED
    BY <2>1, <2>3 DEF Chunks
<1>7. ASSUME ~ReadTwice, NEW r \in 1..Len(out), NEW c \in ColIds
      PROVE  Rebuilt(r, c)'
  <2>1. PICK p \in Nat, q \in Nat :
          /\ FollowFrom(specs, PassedNow(r), c, p, q)
          /\ lengths[r][c] <= End(q, c)
          /\ Upto(out'[r].text[c], lengths[r][c], c, p, Exact, expected[r].text[c])
    BY <1>7
  <2>2. FollowFrom(specs', Passed(r)', c, p, q)
    BY <1>1, <2>1, BatchPassed
  <2>3. Exact' = Exact /\ lengths' = lengths /\ expected' = expected
    BY DEF Exact
  <2>4. Upto(out'[r].text[c], lengths'[r][c], c, p, Exact', expected'[r].text[c])
        /\ lengths'[r][c] <= End(q, c)
    BY <2>1, <2>3
  <2> QED
    BY <2>2, <2>4 DEF Rebuilt
<1>8. Grid'
  <2>1. ReadTwice' = ReadTwice /\ Len(out') = Len(out)
    BY TwiceAsBefore
  <2> QED
    BY <1>7, <2>1 DEF Grid
<1> QED
  BY <1>3, <1>4, <1>5, <1>6, <1>8 DEF LobIInv

LEMMA SkipStep ==
    ASSUME LobIInv, SkipBatch
    PROVE  LobIInv'
<1>1. /\ step = "chunks" /\ specs # <<>> /\ NextBatch /\ ~Applies(Batch, rowStart, LastRow)
      /\ UNCHANGED <<table, changes, stale, chosen, step, single, out, lengths, expected>>
  BY DEF SkipBatch, Server
<1>2. LobTypeOK /\ SameRows
  BY DEF LobIInv
<1>3. ASSUME ~ReadTwice, NEW r \in 1..Len(out), NEW c \in ColIds
      PROVE  \E p, q \in Nat :
               /\ FollowFrom(specs, PassedNow(r), c, p, q)
               /\ lengths[r][c] <= End(q, c)
               /\ Upto(out'[r].text[c], lengths[r][c], c, p, Exact, expected[r].text[c])
  <2>1. Batch \in Seq(ChunkSpec) /\ DOMAIN Batch = 1..Len(Batch)
    BY <1>1, <1>2, LastRowOf, LenProperties
  <2>2. ASSUME r \in rowStart..LastRow, NEW i \in 1..Len(Batch), Batch[i].col = c
        PROVE  Batch[i].start > lengths[r][c]
    <3>1. Batch[i] \in ToSet(Batch) /\ Batch[i] \in ChunkSpec
      BY <2>1, <2>2, LenProperties DEF ToSet
    <3>2. ~(lengths[r][Batch[i].col] >= Batch[i].start)
      BY <1>1, <2>2, <3>1 DEF Applies
    <3>3. lengths[r][c] \in Int /\ Batch[i].start \in Int
      BY <1>2, <3>1, SameLengths, SpecFields
    <3> QED
      BY <2>2, <3>2, <3>3
  <2>3. out'[r] = out[r]
    BY <1>1
  <2> QED
    BY <1>1, <1>3, <2>2, <2>3, BatchSkipped
<1>4. /\ out' \in Seq(OutRow) /\ Len(out') = Len(out)
      /\ \A r \in 1..Len(out) : out'[r].id = out[r].id
      /\ \A r \in 1..Len(out), c \in ColIds : out'[r].text[c] \in TextOf(lengths[r][c])
  BY <1>1, <1>2 DEF LobTypeOK, SameRows
<1> QED
  BY <1>1, <1>3, <1>4, BatchDone

LEMMA ReadStep ==
    ASSUME LobIInv, ReadChunks
    PROVE  LobIInv'
<1>1. /\ step = "chunks" /\ specs # <<>> /\ NextBatch
      /\ out' = Appended(out, lengths, Batch, Read)
      /\ UNCHANGED <<table, changes, stale, chosen, step, single, lengths, expected>>
  BY DEF ReadChunks, Server, Read
<1>2. LobTypeOK /\ SameRows /\ AsRead
  BY DEF LobIInv
<1>3. Batch \in Seq(ChunkSpec)
  BY <1>1, <1>2, LastRowOf
<1>4. Numbered \in Seq(AnswerRow) /\ Read \in SUBSET AnswerRow
  <2>1. Numbered \in Seq(AnswerRow)
    BY <1>2, NumberedRows DEF LobTypeOK
  <2> QED
    BY <2>1, LenProperties DEF Read, ToSet
<1>5. /\ out' \in Seq(OutRow) /\ Len(out') = Len(out)
      /\ \A r \in 1..Len(out) : out'[r].id = out[r].id
      /\ \A r \in 1..Len(out), c \in ColIds : out'[r].text[c] \in TextOf(lengths[r][c])
      /\ \A r \in 1..Len(out) :
           IF RowOf(Read, r) = {} THEN out'[r] = out[r]
           ELSE \E a \in RowOf(Read, r) : \A c \in ColIds :
                  out'[r].text[c] = Reads(out[r].text[c], c, lengths[r][c], Batch, a.row)
                                      [Len(Batch)]
  <2>1. /\ out \in Seq(OutRow) /\ lengths \in Seq([ColIds -> Lens]) /\ Len(out) = Len(lengths)
        /\ \A r \in 1..Len(out), c \in ColIds : out[r].text[c] \in TextOf(lengths[r][c])
    BY <1>2 DEF LobTypeOK, SameRows
  <2>2. Grown(out', out, lengths, Batch, Read)
    BY <1>1, <1>3, <1>4, <2>1, AppendedRows
  <2> QED
    BY <2>2 DEF Grown
<1>6. ASSUME ~ReadTwice, NEW r \in 1..Len(out), NEW c \in ColIds
      PROVE  \E p, q \in Nat :
               /\ FollowFrom(specs, PassedNow(r), c, p, q)
               /\ lengths[r][c] <= End(q, c)
               /\ Upto(out'[r].text[c], lengths[r][c], c, p, Exact, expected[r].text[c])
  <2>1. CASE RowOf(Read, r) # {}
    <3>1. PICK a \in RowOf(Read, r) :
            out'[r].text[c] = Reads(out[r].text[c], c, lengths[r][c], Batch, a.row)[Len(Batch)]
      BY <1>5, <2>1
    <3> QED
      BY <1>1, <1>6, <3>1, BatchRead
  <2>2. CASE RowOf(Read, r) = {}
    <3>1. out'[r] = out[r]
      BY <1>5, <2>2
    <3>2. ~(r \in rowStart..LastRow /\ Exact)
      <4>1. ASSUME r \in rowStart..LastRow, Exact
            PROVE  FALSE
        <5>1. r \in 1..Len(lengths) /\ Rebuilding
          BY <1>1, <1>2, SameLengths DEF Rebuilding
        <5>2. r \in 1..Len(Numbered) /\ Numbered[r].rn = r
          BY <1>2, <1>6, <4>1, <5>1, ExactRow
        <5>3. Numbered[r] \in ToSet(Numbered)
          BY <1>4, <5>2, LenProperties DEF ToSet
        <5>4. Numbered[r] \in RowOf(Read, r)
          BY <4>1, <5>2, <5>3 DEF RowOf, Read
        <5> QED
          BY <2>2, <5>4
      <4> QED
        BY <4>1
    <3> QED
      BY <1>1, <1>6, <3>1, <3>2, BatchSkipped
  <2> QED
    BY <2>1, <2>2
<1> QED
  BY <1>1, <1>5, <1>6, BatchDone

-----------------------------------------------------------------------------
(* The chunks of a select *)

LEMMA Quotient ==
    ASSUME NEW a \in Nat, NEW l \in Nat \ {0}
    PROVE  /\ a \div l \in Nat /\ a % l \in 0..(l - 1)
           /\ a = (a \div l) * l + (a % l)
<1>1. a \div l \in Int /\ a % l \in Int
  OBVIOUS
<1>2. a = l * (a \div l) + (a % l) /\ 0 <= a % l /\ a % l < l
  BY SMTT(30)
<1>3. a \div l \in Nat
  BY <1>1, <1>2, SMTT(30)
<1> QED
  BY <1>1, <1>2, <1>3

LEMMA QuotientOf ==
    ASSUME NEW a \in Nat, NEW l \in Nat \ {0}, NEW m \in Nat, NEW b \in 0..(l - 1),
           a = m * l + b
    PROVE  a \div l = m /\ a % l = b
BY SMTT(60)

\* The longest LOB of a column, as its chunks are counted.
Longest(lens, c) == Max({0} \cup {lens[r][c] : r \in DOMAIN lens})

LEMMA LongestOf ==
    ASSUME NEW lens \in Seq([ColIds -> Lens]), NEW c \in ColIds
    PROVE  Longest(lens, c) \in Nat /\ \A r \in DOMAIN lens : lens[r][c] <= Longest(lens, c)
<1> DEFINE T == {0} \cup {lens[r][c] : r \in DOMAIN lens}
           N == {x \in T : x \in Nat}
<1>1. MaxLob \in Nat /\ \A r \in DOMAIN lens : lens[r][c] \in (-1)..MaxLob
  <2>1. \A r \in DOMAIN lens : lens[r] \in [ColIds -> Lens]
    BY LenProperties
  <2> QED
    BY <2>1, LobBounds
<1>2. N \subseteq Nat /\ 0 \in N /\ \A y \in N : y <= MaxLob
  BY <1>1
<1>3. \A y \in T : y \in Int /\ (y \in N \/ y < 0)
  BY <1>1
<1> HIDE DEF N, T
<1>4. PICK m \in N : \A y \in N : y <= m
  BY <1>1, <1>2, LargestNatural
<1>5. m \in T /\ m \in Nat
  BY <1>2, <1>4 DEF N
<1>6. \A y \in T : m >= y
  BY <1>3, <1>4, <1>5
<1>7. Max(T) \in T /\ \A y \in T : Max(T) >= y
  BY <1>5, <1>6 DEF Max
<1>8. Max(T) \in Nat
  <2>1. Max(T) >= 0 /\ Max(T) \in Int
    BY <1>2, <1>3, <1>7 DEF N
  <2> QED
    BY <2>1
<1>9. Longest(lens, c) = Max(T) /\ \A r \in DOMAIN lens : lens[r][c] \in T
  BY DEF Longest, T
<1> QED
  BY <1>3, <1>7, <1>8, <1>9

\* How many chunks of a column there are, if its longest LOB is this long.
ChunkCount(c, max) == (max + Limit(c) - 1) \div Limit(c)

LEMMA ChunkCountOf ==
    ASSUME NEW c \in ColIds, NEW max \in Nat
    PROVE  /\ ChunkCount(c, max) \in Nat /\ max <= End(ChunkCount(c, max), c)
           /\ \A k \in 1..ChunkCount(c, max) : End(k - 1, c) < max
<1> DEFINE l == Limit(c)
           a == max + l - 1
           n == ChunkCount(c, max)
<1>1. l \in Nat \ {0}
  BY LimitPositive
<1>2. a \in Nat
  BY <1>1
<1>3. n \in Nat /\ a % l \in 0..(l - 1) /\ a = n * l + (a % l)
  <2> HIDE DEF a, l
  <2>1. a \div l \in Nat /\ a % l \in 0..(l - 1) /\ a = (a \div l) * l + (a % l)
    BY <1>1, <1>2, Quotient
  <2> QED
    BY <2>1 DEF ChunkCount, a, l
<1> DEFINE end == n * l
<1>4. End(n, c) = end /\ end \in Nat
  BY <1>3, Ends DEF End
<1>5. a = end + (a % l)
  BY <1>3
<1> HIDE DEF n, end
<1>6. max <= end /\ end <= max + l - 1
  <2> HIDE DEF l
  <2> DEFINE rest == a % l
  <2>1. rest \in 0..(l - 1) /\ max + l - 1 = end + rest
    BY <1>3, <1>5
  <2> HIDE DEF rest
  <2> QED
    BY <1>1, <1>4, <2>1
<1>7. ASSUME NEW k \in 1..n
      PROVE  End(k - 1, c) < max
  <2>1. k \in Nat /\ k - 1 \in Nat /\ k # 0 /\ k <= n
    BY <1>3
  <2>2. End(k, c) = End(k - 1, c) + l /\ End(k - 1, c) \in Nat /\ End(k, c) <= End(n, c)
    BY <1>3, <2>1, Ends, EndsGrow
  <2> HIDE DEF l
  <2> QED
    BY <1>1, <1>4, <1>6, <2>2
<1> QED
  BY <1>3, <1>4, <1>6, <1>7 DEF n

\* A chunk as it can be: proper, and of its column.
Fit(spec, lens) == spec \in ChunkSpec /\ Good(spec) /\ Covers(spec, lens)

LEMMA ColumnChunks ==
    ASSUME NEW lens \in Seq([ColIds -> Lens]), NEW c \in ColIds
    PROVE  LET list == ChunksOf(c, Longest(lens, c))
               n == ChunkCount(c, Longest(lens, c))
           IN  /\ list \in Seq(ChunkSpec) /\ n \in Nat
               /\ \A i \in 1..Len(list) : list[i].col = c /\ Fit(list[i], lens)
               /\ FollowFrom(list, 0, c, 0, n)
               /\ \A r \in DOMAIN lens : lens[r][c] <= End(n, c)
<1> DEFINE max == Longest(lens, c)
           n == ChunkCount(c, max)
           list == ChunksOf(c, max)
           start(k) == (k - 1) * Limit(c) + 1
           left(k) == max - start(k) + 1
           size(k) == IF left(k) < Limit(c) THEN left(k) ELSE Limit(c)
           chunk(k) == [col |-> c, n |-> k, start |-> start(k), len |-> size(k)]
<1>1. max \in Nat /\ \A r \in DOMAIN lens : lens[r][c] <= max /\ lens[r][c] \in Int
  <2>1. \A r \in DOMAIN lens : lens[r] \in [ColIds -> Lens]
    BY LenProperties
  <2> QED
    BY <2>1, LongestOf, LobBounds
<1>2. list = [k \in 1..n |-> chunk(k)]
  BY DEF ChunksOf, ChunkCount
<1> HIDE DEF max
<1>3. n \in Nat /\ max <= End(n, c) /\ End(n, c) \in Nat /\ \A k \in 1..n : End(k - 1, c) < max
  BY <1>1, ChunkCountOf, Ends
<1>4. Limit(c) \in Nat \ {0}
  BY LimitPositive
<1>5. ASSUME NEW k \in 1..n
      PROVE  /\ start(k) = End(k - 1, c) + 1 /\ start(k) \in Nat \ {0}
             /\ size(k) \in Nat \ {0} /\ size(k) <= Limit(c)
             /\ size(k) = Limit(c) \/ start(k) + size(k) = max + 1
  <2>1. start(k) = End(k - 1, c) + 1
    BY DEF End
  <2>2. k - 1 \in Nat
    BY <1>3
  <2>3. End(k - 1, c) \in Nat /\ End(k - 1, c) < max
    BY <1>3, <2>2, Ends
  <2> HIDE DEF start
  <2> QED
    BY <1>1, <1>4, <2>1, <2>3
<1> HIDE DEF start, size
<1>6. ASSUME NEW k \in 1..n
      PROVE  chunk(k) \in ChunkSpec /\ chunk(k).col = c /\ chunk(k).n = k
             /\ chunk(k).start = start(k) /\ chunk(k).len = size(k)
  <2>1. k \in Nat \ {0}
    BY <1>3
  <2> QED
    BY <1>5, <2>1 DEF ChunkSpec
<1> HIDE DEF chunk
<1>7. list \in Seq(ChunkSpec) /\ Len(list) = n /\ \A k \in 1..n : list[k] = chunk(k)
  <2>1. list \in [1..n -> ChunkSpec]
    BY <1>2, <1>6
  <2> QED
    BY <1>2, <1>3, <2>1, ListedSequence
<1> HIDE DEF list
<1>8. ASSUME NEW k \in 1..n
      PROVE  list[k].col = c /\ list[k].n = k /\ Fit(list[k], lens)
  <2>1. /\ chunk(k) \in ChunkSpec /\ chunk(k).col = c /\ chunk(k).n = k
        /\ chunk(k).start = start(k) /\ chunk(k).len = size(k)
    BY <1>6
  <2>2. Good(chunk(k))
    BY <1>5, <2>1 DEF Good
  <2>3. Covers(chunk(k), lens)
    BY <1>1, <1>5, <2>1 DEF Covers
  <2> QED
    BY <1>7, <2>1, <2>2, <2>3 DEF Fit
<1>9. FollowFrom(list, 0, c, 0, n)
  BY <1>3, <1>7, <1>8 DEF FollowFrom
<1>10. \A r \in DOMAIN lens : lens[r][c] <= End(n, c)
  BY <1>1, <1>3
<1> QED
  BY <1>3, <1>7, <1>8, <1>9, <1>10 DEF max, list

\* The same of the whole list.
Follow(list, c, p, q) ==
    /\ p <= q
    /\ \A i \in 1..Len(list) : list[i].col = c => list[i].n \in (p + 1)..q
    /\ \A i, j \in 1..Len(list) :
          i < j /\ list[i].col = c /\ list[j].col = c => list[i].n < list[j].n
    /\ \A n \in (p + 1)..q : \E i \in 1..Len(list) : list[i].col = c /\ list[i].n = n

LEMMA FollowAll ==
    ASSUME NEW list, NEW c, NEW p \in Nat, NEW q \in Nat
    PROVE  FollowFrom(list, 0, c, p, q) <=> Follow(list, c, p, q)
<1>1. 0 + 1 = 1
  OBVIOUS
<1> QED
  BY <1>1, Zenon DEF FollowFrom, Follow

LEMMA FollowBefore ==
    ASSUME NEW s \in Seq(ChunkSpec), NEW t \in Seq(ChunkSpec), NEW c, NEW p \in Nat, NEW q \in Nat,
           FollowFrom(s, 0, c, p, q), \A i \in 1..Len(t) : t[i].col # c
    PROVE  FollowFrom(s \o t, 0, c, p, q)
<1> DEFINE u == s \o t
<1>1. /\ Len(s) \in Nat /\ Len(t) \in Nat /\ Len(u) = Len(s) + Len(t)
      /\ \A i \in 1..Len(u) : u[i] = IF i <= Len(s) THEN s[i] ELSE t[i - Len(s)]
  BY ConcatProperties, LenProperties
<1> HIDE DEF u
<1>2. ASSUME NEW i \in 1..Len(u), u[i].col = c
      PROVE  i \in 1..Len(s) /\ u[i] = s[i]
  <2>1. CASE i <= Len(s)
    BY <1>1, <2>1
  <2>2. CASE ~(i <= Len(s))
    <3>1. i - Len(s) \in 1..Len(t)
      BY <1>1, <2>2
    <3> QED
      BY <1>1, <1>2, <2>2, <3>1
  <2> QED
    BY <2>1, <2>2
<1>3. \A i \in 1..Len(s) : i \in 1..Len(u) /\ u[i] = s[i]
  BY <1>1
<1>4. /\ p <= q
      /\ \A i \in 1..Len(s) : s[i].col = c => s[i].n \in (p + 1)..q
      /\ \A i, j \in 1..Len(s) : i < j /\ s[i].col = c /\ s[j].col = c => s[i].n < s[j].n
      /\ \A n \in (p + 1)..q : \E i \in 1..Len(s) : s[i].col = c /\ s[i].n = n
  <2>1. Follow(s, c, p, q)
    BY FollowAll
  <2> QED
    BY <2>1 DEF Follow
<1>5. \A i \in 1..Len(u) : u[i].col = c => u[i].n \in (p + 1)..q
  BY <1>2, <1>4
<1>6. \A i, j \in 1..Len(u) : i < j /\ u[i].col = c /\ u[j].col = c => u[i].n < u[j].n
  BY <1>2, <1>4
<1>7. \A n \in (p + 1)..q : \E i \in 1..Len(u) : u[i].col = c /\ u[i].n = n
  BY <1>3, <1>4
<1>8. Follow(u, c, p, q)
  BY <1>4, <1>5, <1>6, <1>7 DEF Follow
<1> QED
  BY <1>8, FollowAll DEF u

LEMMA FollowBehind ==
    ASSUME NEW s \in Seq(ChunkSpec), NEW t \in Seq(ChunkSpec), NEW c, NEW p \in Nat, NEW q \in Nat,
           FollowFrom(t, 0, c, p, q), \A i \in 1..Len(s) : s[i].col # c
    PROVE  FollowFrom(s \o t, 0, c, p, q)
<1> DEFINE u == s \o t
           m == Len(s)
<1>1. /\ m \in Nat /\ Len(t) \in Nat /\ Len(u) = m + Len(t)
      /\ \A i \in 1..Len(u) : u[i] = IF i <= m THEN s[i] ELSE t[i - m]
  BY ConcatProperties, LenProperties
<1> HIDE DEF u
<1>2. ASSUME NEW i \in 1..Len(u), u[i].col = c
      PROVE  i - m \in 1..Len(t) /\ u[i] = t[i - m]
  <2>1. CASE i <= m
    <3>1. i \in 1..m
      BY <1>1, <2>1
    <3> QED
      BY <1>1, <1>2, <2>1, <3>1
  <2>2. CASE ~(i <= m)
    BY <1>1, <2>2
  <2> QED
    BY <2>1, <2>2
<1>3. ASSUME NEW i \in 1..Len(t)
      PROVE  i + m \in 1..Len(u) /\ u[i + m] = t[i]
  <2>1. i + m \in 1..Len(u) /\ ~(i + m <= m) /\ i + m - m = i
    BY <1>1
  <2> QED
    BY <1>1, <2>1
<1>4. /\ p <= q
      /\ \A i \in 1..Len(t) : t[i].col = c => t[i].n \in (p + 1)..q
      /\ \A i, j \in 1..Len(t) : i < j /\ t[i].col = c /\ t[j].col = c => t[i].n < t[j].n
      /\ \A n \in (p + 1)..q : \E i \in 1..Len(t) : t[i].col = c /\ t[i].n = n
  <2>1. Follow(t, c, p, q)
    BY FollowAll
  <2> QED
    BY <2>1 DEF Follow
<1>5. ASSUME NEW i \in 1..Len(u), u[i].col = c
      PROVE  u[i].n \in (p + 1)..q
  <2>1. i - m \in 1..Len(t) /\ u[i] = t[i - m] /\ t[i - m].col = c
    BY <1>2, <1>5
  <2> QED
    BY <1>4, <2>1
<1>6. ASSUME NEW i \in 1..Len(u), NEW j \in 1..Len(u), i < j, u[i].col = c, u[j].col = c
      PROVE  u[i].n < u[j].n
  <2>1. i - m < j - m
    BY <1>1, <1>6
  <2>2. i - m \in 1..Len(t) /\ u[i] = t[i - m] /\ j - m \in 1..Len(t) /\ u[j] = t[j - m]
    BY <1>2, <1>6
  <2> QED
    <3>1. \A a, b \in 1..Len(t) : a < b /\ t[a].col = c /\ t[b].col = c => t[a].n < t[b].n
      BY <1>4
    <3>2. t[i - m].col = c /\ t[j - m].col = c
      BY <1>6, <2>2
    <3> HIDE DEF m
    <3> QED
      BY <2>1, <2>2, <3>1, <3>2
<1>7. ASSUME NEW n \in (p + 1)..q
      PROVE  \E i \in 1..Len(u) : u[i].col = c /\ u[i].n = n
  <2>1. PICK i \in 1..Len(t) : t[i].col = c /\ t[i].n = n
    BY <1>4
  <2> QED
    BY <1>3, <2>1
<1>8. Follow(u, c, p, q)
  BY <1>4, <1>5, <1>6, <1>7 DEF Follow
<1> QED
  BY <1>8, FollowAll DEF u

\* The chunks of the first columns, column by column.
Columns(list, i, lens) ==
    /\ list \in Seq(ChunkSpec)
    /\ \A j \in 1..Len(list) : list[j].col <= i /\ Fit(list[j], lens)
    /\ \A c \in 1..i : FollowFrom(list, 0, c, 0, ChunkCount(c, Longest(lens, c)))

LEMMA ColumnAdded ==
    ASSUME NEW lens \in Seq([ColIds -> Lens]), NEW i \in Nat, i + 1 \in ColIds, NEW list,
           Columns(list, i, lens)
    PROVE  Columns(list \o ChunksOf(i + 1, Longest(lens, i + 1)), i + 1, lens)
<1> DEFINE more == ChunksOf(i + 1, Longest(lens, i + 1))
           K(c) == ChunkCount(c, Longest(lens, c))
           all == list \o more
<1>1. /\ more \in Seq(ChunkSpec)
      /\ \A j \in 1..Len(more) : more[j].col = i + 1 /\ Fit(more[j], lens)
      /\ FollowFrom(more, 0, i + 1, 0, K(i + 1)) /\ K(i + 1) \in Nat
  BY ColumnChunks
<1> HIDE DEF more
<1>2. /\ list \in Seq(ChunkSpec)
      /\ \A j \in 1..Len(list) : list[j].col <= i /\ Fit(list[j], lens)
      /\ \A c \in 1..i : FollowFrom(list, 0, c, 0, K(c))
  BY DEF Columns
<1>3. /\ Len(list) \in Nat /\ Len(more) \in Nat /\ all \in Seq(ChunkSpec)
      /\ Len(all) = Len(list) + Len(more)
      /\ \A j \in 1..Len(all) : all[j] = IF j <= Len(list) THEN list[j] ELSE more[j - Len(list)]
  BY <1>1, <1>2, ConcatProperties, LenProperties
<1>4. \A j \in 1..Len(list) : list[j].col \in Nat
  <2>1. \A j \in 1..Len(list) : list[j].col \in ColIds
    BY <1>2, LenProperties, SpecFields
  <2> QED
    BY <2>1, ColumnCount
<1>5. ASSUME NEW j \in 1..Len(all)
      PROVE  all[j].col <= i + 1 /\ Fit(all[j], lens)
  <2> HIDE DEF all
  <2>1. CASE j <= Len(list)
    <3>1. j \in 1..Len(list) /\ all[j] = list[j]
      BY <1>3, <2>1
    <3> QED
      BY <1>2, <1>4, <3>1
  <2>2. CASE ~(j <= Len(list))
    <3>1. j - Len(list) \in 1..Len(more) /\ all[j] = more[j - Len(list)]
      BY <1>3, <2>2
    <3> QED
      BY <1>1, <3>1
  <2> QED
    BY <2>1, <2>2
<1>6. ASSUME NEW c \in 1..(i + 1)
      PROVE  FollowFrom(all, 0, c, 0, K(c))
  <2>1. CASE c = i + 1
    <3>1. \A j \in 1..Len(list) : list[j].col # c
      BY <1>2, <1>4, <2>1
    <3>2. K(c) \in Nat /\ FollowFrom(more, 0, c, 0, K(c))
      BY <1>1, <2>1
    <3> HIDE DEF K
    <3> QED
      BY <1>1, <1>2, <3>1, <3>2, FollowBehind
  <2>2. CASE c # i + 1
    <3>1. c \in 1..i /\ c \in ColIds
      BY <2>2, ColumnCount
    <3>2. \A j \in 1..Len(more) : more[j].col # c
      BY <1>1, <2>2
    <3>3. K(c) \in Nat /\ FollowFrom(list, 0, c, 0, K(c))
      BY <1>2, <3>1, ColumnChunks
    <3> HIDE DEF K
    <3> QED
      BY <1>1, <1>2, <3>2, <3>3, FollowBefore
  <2> QED
    BY <2>1, <2>2
<1>7. Columns(all, i + 1, lens)
  <2> HIDE DEF all
  <2> QED
    BY <1>3, <1>5, <1>6 DEF Columns
<1> QED
  BY <1>7 DEF more

LEMMA AllChunks ==
    ASSUME NEW lens \in Seq([ColIds -> Lens])
    PROVE  Columns(CombinedSpecs(lens), Len(LobCols), lens)
<1> DEFINE n == Len(LobCols)
           seqs == [c \in ColIds |-> ChunksOf(c, Longest(lens, c))]
           next == [x \in Seq(ChunkSpec) \X (1..n) |-> x[1] \o seqs[x[2]]]
           Next(flatten) == [i \in 1..Len(seqs) |->
                               IF i = 1 THEN seqs[i] ELSE flatten[i - 1] \o seqs[i]]
           flatten == CHOOSE flatten : flatten = Next(flatten)
<1>1. n \in Nat \ {0} /\ ColIds = 1..n
  BY ColumnCount
<1>2. \A c \in 1..n : seqs[c] \in Seq(ChunkSpec) /\ seqs[c] = ChunksOf(c, Longest(lens, c))
  BY <1>1, ColumnChunks
<1>3. seqs \in [1..n -> Seq(ChunkSpec)] /\ Len(seqs) = n
  <2>1. seqs \in [1..n -> Seq(ChunkSpec)]
    BY <1>1, <1>2
  <2> HIDE DEF seqs
  <2> QED
    BY <1>1, <2>1, ListedSequence
<1>4. CombinedSpecs(lens) = FlattenSeq(seqs)
  BY DEF CombinedSpecs, Longest
<1> HIDE DEF seqs
<1>5. CombinedSpecs(lens) = flatten[n]
  BY <1>1, <1>3, <1>4 DEF FlattenSeq
<1>6. next \in [Seq(ChunkSpec) \X (1..n) -> Seq(ChunkSpec)]
  <2>1. ASSUME NEW x \in Seq(ChunkSpec) \X (1..n)
        PROVE  x[1] \o seqs[x[2]] \in Seq(ChunkSpec)
    <3>1. x[1] \in Seq(ChunkSpec) /\ seqs[x[2]] \in Seq(ChunkSpec)
      BY <1>2
    <3> QED
      BY <3>1, ConcatProperties
  <2> QED
    BY <2>1
<1>7. PICK g : Stepwise(g, Seq(ChunkSpec), <<>>, n, next)
  <2> HIDE DEF next, n
  <2>1. <<>> \in Seq(ChunkSpec)
    OBVIOUS
  <2> QED
    BY <1>1, <1>6, <2>1, Recursion
<1>8. g \in [0..n -> Seq(ChunkSpec)] /\ g[0] = <<>>
  BY <1>7 DEF Stepwise
<1>9. ASSUME NEW i \in 1..n
      PROVE  g[i] = g[i - 1] \o seqs[i]
  <2>1. i - 1 \in 0..n /\ g[i - 1] \in Seq(ChunkSpec)
    BY <1>1, <1>8
  <2>2. <<g[i - 1], i>> \in Seq(ChunkSpec) \X (1..n)
    BY <2>1
  <2> QED
    BY <1>7, <2>2 DEF Stepwise
<1> DEFINE h == [i \in 1..n |-> g[i]]
<1>10. h = Next(h)
  <2>1. ASSUME NEW i \in 1..n
        PROVE  h[i] = IF i = 1 THEN seqs[i] ELSE h[i - 1] \o seqs[i]
    <3>1. CASE i = 1
      <4>1. g[1] = <<>> \o seqs[1] /\ seqs[1] \in Seq(ChunkSpec)
        <5>1. 1 \in 1..n /\ 1 - 1 = 0
          BY <1>1
        <5>2. g[1] = g[1 - 1] \o seqs[1]
          BY <1>9, <5>1
        <5> QED
          BY <1>2, <1>8, <5>1, <5>2
      <4>2. g[1] = seqs[1]
        BY <4>1, ConcatEmptySeq
      <4> QED
        BY <3>1, <4>2
    <3>2. CASE i # 1
      <4>1. i - 1 \in 1..n
        BY <1>1, <3>2
      <4> QED
        BY <1>9, <3>2, <4>1
    <3> QED
      BY <3>1, <3>2
  <2> QED
    BY <1>3, <2>1
<1>11. flatten = Next(flatten)
  <2> HIDE DEF h
  <2> QED
    BY <1>10
<1> HIDE DEF flatten
<1>12. ASSUME NEW i \in 1..n
       PROVE  flatten[i] = IF i = 1 THEN seqs[i] ELSE flatten[i - 1] \o seqs[i]
  BY <1>3, <1>11
<1> DEFINE G == {i \in 0..n : i # 0 => Columns(flatten[i], i, lens)}
<1>13. 0 \in G
  BY <1>1
<1>14. ASSUME NEW i \in 1..n, i - 1 \in G
       PROVE  i \in G
  <2>1. CASE i = 1
    <3>1. Columns(<<>>, 0, lens)
      BY DEF Columns
    <3>2. Columns(<<>> \o ChunksOf(0 + 1, Longest(lens, 0 + 1)), 0 + 1, lens)
      <4>1. 0 + 1 \in ColIds /\ 0 \in Nat
        BY <1>1
      <4> QED
        BY <3>1, <4>1, ColumnAdded
    <3>3. 0 + 1 = 1 /\ <<>> \o seqs[1] = seqs[1] /\ seqs[1] = ChunksOf(1, Longest(lens, 1))
      BY <1>1, <1>2, ConcatEmptySeq
    <3>4. flatten[1] = seqs[1]
      BY <1>12, <2>1
    <3>5. Columns(flatten[1], 1, lens)
      BY <3>2, <3>3, <3>4
    <3> QED
      BY <2>1, <3>5
  <2>2. CASE i # 1
    <3>1. i - 1 \in Nat /\ i - 1 # 0 /\ i - 1 + 1 = i /\ i \in ColIds
      BY <1>1, <2>2
    <3>2. Columns(flatten[i - 1], i - 1, lens)
      BY <1>14, <3>1
    <3>3. Columns(flatten[i - 1] \o ChunksOf(i, Longest(lens, i)), i, lens)
      BY <3>1, <3>2, ColumnAdded
    <3>4. flatten[i] = flatten[i - 1] \o ChunksOf(i, Longest(lens, i))
      BY <1>2, <1>12, <2>2
    <3>5. Columns(flatten[i], i, lens) /\ i \in 0..n
      BY <1>1, <3>3, <3>4
    <3> QED
      BY <3>5
  <2> QED
    BY <2>1, <2>2
<1> HIDE DEF G
<1>15. 0..n \subseteq G
  BY <1>1, <1>13, <1>14, KeptAlong
<1>16. n \in 0..n /\ n # 0
  BY <1>1
<1>17. Columns(flatten[n], n, lens)
  BY <1>15, <1>16 DEF G
<1> QED
  BY <1>5, <1>17

\* What is left of the first k chunks, in their order.
Left(left, list, read, k) ==
    /\ left \in Seq(ChunkSpec)
    /\ \A i \in 1..Len(left) : \E j \in 1..k : left[i] = list[j] /\ list[j] \notin ToSet(read)
    /\ \A j \in 1..k : list[j] \notin ToSet(read) => \E i \in 1..Len(left) : left[i] = list[j]
    /\ \A i, l \in 1..Len(left) : i < l =>
         \E j, m \in 1..k : j < m /\ left[i] = list[j] /\ left[l] = list[m]

LEMMA KeptRead ==
    ASSUME NEW left, NEW list, NEW read, NEW k \in Nat \ {0}, Left(left, list, read, k - 1),
           list[k] \in ToSet(read)
    PROVE  Left(left, list, read, k)
<1>1. \A j \in 1..(k - 1) : j \in 1..k
  OBVIOUS
<1>2. \A j \in 1..k : j = k \/ j \in 1..(k - 1)
  OBVIOUS
<1>3. /\ left \in Seq(ChunkSpec)
      /\ \A i \in 1..Len(left) :
           \E j \in 1..(k - 1) : left[i] = list[j] /\ list[j] \notin ToSet(read)
      /\ \A j \in 1..(k - 1) :
           list[j] \notin ToSet(read) => \E i \in 1..Len(left) : left[i] = list[j]
      /\ \A i, l \in 1..Len(left) : i < l =>
           \E j, m \in 1..(k - 1) : j < m /\ left[i] = list[j] /\ left[l] = list[m]
  BY DEF Left
<1>4. \A i \in 1..Len(left) : \E j \in 1..k : left[i] = list[j] /\ list[j] \notin ToSet(read)
  BY <1>1, <1>3, Zenon
<1>5. \A j \in 1..k : list[j] \notin ToSet(read) => \E i \in 1..Len(left) : left[i] = list[j]
  BY <1>2, <1>3, Zenon
<1>6. ASSUME NEW i \in 1..Len(left), NEW l \in 1..Len(left), i < l
      PROVE  \E j, m \in 1..k : j < m /\ left[i] = list[j] /\ left[l] = list[m]
  <2>1. PICK j \in 1..(k - 1), m \in 1..(k - 1) :
          j < m /\ left[i] = list[j] /\ left[l] = list[m]
    BY <1>3, <1>6
  <2> QED
    BY <1>1, <2>1
<1> QED
  BY <1>3, <1>4, <1>5, <1>6 DEF Left

LEMMA KeptUnread ==
    ASSUME NEW left, NEW list \in Seq(ChunkSpec), NEW read, NEW k \in 1..Len(list),
           Left(left, list, read, k - 1), list[k] \notin ToSet(read)
    PROVE  Left(Append(left, list[k]), list, read, k)
<1> DEFINE new == Append(left, list[k])
<1>1. Len(list) \in Nat /\ k \in Nat /\ list[k] \in ChunkSpec /\ left \in Seq(ChunkSpec)
  BY LenProperties DEF Left
<1>2. /\ new \in Seq(ChunkSpec) /\ Len(new) = Len(left) + 1 /\ Len(left) \in Nat
      /\ \A i \in 1..Len(left) : new[i] = left[i]
      /\ new[Len(left) + 1] = list[k]
  BY <1>1, AppendProperties, LenProperties
<1> HIDE DEF new
<1>3. \A i \in 1..Len(new) : i = Len(left) + 1 \/ i \in 1..Len(left)
  BY <1>2
<1>4. \A j \in 1..(k - 1) : j \in 1..k /\ j < k
  BY <1>1
<1>5. /\ \A i \in 1..Len(left) :
           \E j \in 1..(k - 1) : left[i] = list[j] /\ list[j] \notin ToSet(read)
      /\ \A j \in 1..(k - 1) :
           list[j] \notin ToSet(read) => \E i \in 1..Len(left) : left[i] = list[j]
      /\ \A i, l \in 1..Len(left) : i < l =>
           \E j, m \in 1..(k - 1) : j < m /\ left[i] = list[j] /\ left[l] = list[m]
  BY DEF Left
<1>6. ASSUME NEW i \in 1..Len(new)
      PROVE  \E j \in 1..k : new[i] = list[j] /\ list[j] \notin ToSet(read)
  <2>1. CASE i = Len(left) + 1
    BY <1>2, <2>1
  <2>2. CASE i \in 1..Len(left)
    <3>1. PICK j \in 1..(k - 1) : left[i] = list[j] /\ list[j] \notin ToSet(read)
      BY <1>5, <2>2
    <3> QED
      BY <1>2, <1>4, <2>2, <3>1
  <2> QED
    BY <1>3, <2>1, <2>2
<1>7. ASSUME NEW j \in 1..k, list[j] \notin ToSet(read)
      PROVE  \E i \in 1..Len(new) : new[i] = list[j]
  <2>1. CASE j = k
    <3>1. Len(left) + 1 \in 1..Len(new)
      BY <1>2
    <3> QED
      BY <1>2, <2>1, <3>1
  <2>2. CASE j # k
    <3>1. j \in 1..(k - 1)
      BY <1>1, <2>2
    <3>2. PICK i \in 1..Len(left) : left[i] = list[j]
      BY <1>5, <1>7, <3>1
    <3>3. i \in 1..Len(new) /\ new[i] = list[j]
      BY <1>2, <3>2
    <3> QED
      BY <3>3
  <2> QED
    BY <2>1, <2>2
<1>8. ASSUME NEW i \in 1..Len(new), NEW l \in 1..Len(new), i < l
      PROVE  \E j, m \in 1..k : j < m /\ new[i] = list[j] /\ new[l] = list[m]
  <2>1. i \in 1..Len(left)
    BY <1>2, <1>8
  <2>2. CASE l = Len(left) + 1
    <3>1. PICK j \in 1..(k - 1) : left[i] = list[j]
      BY <1>5, <2>1
    <3> QED
      BY <1>2, <1>4, <2>1, <2>2, <3>1
  <2>3. CASE l \in 1..Len(left)
    <3>1. PICK j \in 1..(k - 1), m \in 1..(k - 1) :
            j < m /\ left[i] = list[j] /\ left[l] = list[m]
      BY <1>5, <1>8, <2>1, <2>3
    <3> QED
      BY <1>2, <1>4, <2>1, <2>3, <3>1
  <2> QED
    BY <1>3, <2>2, <2>3
<1>9. Left(new, list, read, k)
  BY <1>2, <1>6, <1>7, <1>8 DEF Left
<1> QED
  BY <1>9 DEF new

LEMMA UnreadKept ==
    ASSUME NEW list \in Seq(ChunkSpec), NEW read
    PROVE  Left(Unread(list, read), list, read, Len(list))
<1> DEFINE n == Len(list)
           next == [x \in Seq(ChunkSpec) \X (1..n) |->
                      IF list[x[2]] \in ToSet(read) THEN x[1] ELSE Append(x[1], list[x[2]])]
           Next(left) == [k \in 0..n |->
                            IF k = 0 THEN <<>>
                            ELSE IF list[k] \in ToSet(read) THEN left[k - 1]
                            ELSE Append(left[k - 1], list[k])]
           left == CHOOSE left : left = Next(left)
<1>1. n \in Nat /\ \A k \in 1..n : list[k] \in ChunkSpec
  BY LenProperties
<1>2. next \in [Seq(ChunkSpec) \X (1..n) -> Seq(ChunkSpec)]
  <2>1. ASSUME NEW x \in Seq(ChunkSpec) \X (1..n)
        PROVE  Append(x[1], list[x[2]]) \in Seq(ChunkSpec) /\ x[1] \in Seq(ChunkSpec)
    <3>1. x[1] \in Seq(ChunkSpec) /\ list[x[2]] \in ChunkSpec
      BY <1>1
    <3> QED
      BY <3>1, AppendProperties
  <2> QED
    BY <2>1
<1>3. PICK g : Stepwise(g, Seq(ChunkSpec), <<>>, n, next)
  <2> HIDE DEF next, n
  <2>1. <<>> \in Seq(ChunkSpec)
    OBVIOUS
  <2> QED
    BY <1>1, <1>2, <2>1, Recursion
<1>4. g \in [0..n -> Seq(ChunkSpec)] /\ g[0] = <<>>
  BY <1>3 DEF Stepwise
<1>5. ASSUME NEW i \in 1..n
      PROVE  g[i] = IF list[i] \in ToSet(read) THEN g[i - 1] ELSE Append(g[i - 1], list[i])
  <2>1. i - 1 \in 0..n /\ g[i - 1] \in Seq(ChunkSpec)
    BY <1>1, <1>4
  <2>2. <<g[i - 1], i>> \in Seq(ChunkSpec) \X (1..n)
    BY <2>1
  <2> QED
    BY <1>3, <2>2 DEF Stepwise
<1>6. g = Next(g)
  <2>1. ASSUME NEW k \in 0..n
        PROVE  g[k] = Next(g)[k]
    <3>1. CASE k = 0
      BY <1>4, <3>1
    <3>2. CASE k # 0
      BY <1>1, <1>5, <3>2
    <3> QED
      BY <3>1, <3>2
  <2> QED
    BY <1>4, <2>1
<1>7. left = Next(left)
  BY <1>6
<1>8. Unread(list, read) = left[n]
  BY DEF Unread
<1> HIDE DEF left
<1>9. left[0] = <<>>
  BY <1>1, <1>7
<1>10. ASSUME NEW k \in 1..n
       PROVE  left[k] = IF list[k] \in ToSet(read) THEN left[k - 1]
                        ELSE Append(left[k - 1], list[k])
  <2>1. k \in 0..n /\ k # 0
    BY <1>1
  <2> QED
    BY <1>7, <2>1
<1> DEFINE G == {k \in 0..n : Left(left[k], list, read, k)}
<1>11. 0 \in G
  <2>1. Left(<<>>, list, read, 0)
    BY DEF Left
  <2> QED
    BY <1>1, <1>9, <2>1
<1>12. ASSUME NEW k \in 1..n, k - 1 \in G
       PROVE  k \in G
  <2>1. k \in Nat \ {0} /\ k \in 0..n /\ Left(left[k - 1], list, read, k - 1)
    BY <1>1, <1>12
  <2>2. CASE list[k] \in ToSet(read)
    <3>1. left[k] = left[k - 1]
      BY <1>10, <2>2
    <3> QED
      BY <2>1, <2>2, <3>1, KeptRead
  <2>3. CASE list[k] \notin ToSet(read)
    <3>1. left[k] = Append(left[k - 1], list[k])
      BY <1>10, <2>3
    <3>2. Left(Append(left[k - 1], list[k]), list, read, k)
      BY <2>1, <2>3, KeptUnread
    <3> QED
      BY <2>1, <3>1, <3>2
  <2> QED
    BY <2>2, <2>3
<1> HIDE DEF G
<1>13. 0..n \subseteq G
  BY <1>1, <1>11, <1>12, KeptAlong
<1>14. n \in 0..n
  BY <1>1
<1> QED
  BY <1>8, <1>13, <1>14 DEF G

\* Of the chunks of a column those left follow the ones that have been read,
\* where no chunk left has the place of one of them.
LEMMA UnreadFollows ==
    ASSUME NEW list \in Seq(ChunkSpec), NEW read \in Seq(ChunkSpec), NEW c, NEW p \in Nat, NEW q \in Nat,
           FollowFrom(list, 0, c, 0, q), FollowFrom(read, 0, c, 0, p),
           \A spec \in ToSet(list) \ ToSet(read) : \A first \in ToSet(read) :
             <<first.col, first.n>> # <<spec.col, spec.n>>
    PROVE  FollowFrom(Unread(list, read), 0, c, p, IF p <= q THEN q ELSE p)
<1> DEFINE left == Unread(list, read)
           top == IF p <= q THEN q ELSE p
<1>1. Left(left, list, read, Len(list))
  BY UnreadKept
<1> HIDE DEF left
<1>2. Follow(list, c, 0, q) /\ Follow(read, c, 0, p)
  BY FollowAll
<1>3. /\ Len(list) \in Nat /\ DOMAIN list = 1..Len(list)
      /\ DOMAIN read = 1..Len(read)
      /\ \A j \in 1..Len(list) : list[j] \in ChunkSpec /\ list[j].n \in Nat
  BY LenProperties, SpecFields
<1>4. ASSUME NEW j \in 1..Len(list), list[j].col = c
      PROVE  /\ list[j].n \in 1..q
             /\ list[j] \in ToSet(read) <=> list[j].n <= p
  <2>1. list[j].n \in 1..q /\ list[j] \in ToSet(list)
    <3>1. list[j].n \in (0 + 1)..q
      BY <1>2, <1>4 DEF Follow
    <3>2. list[j] \in ToSet(list)
      BY <1>3 DEF ToSet
    <3> QED
      BY <3>1, <3>2
  <2>2. ASSUME list[j] \in ToSet(read)
        PROVE  list[j].n <= p
    <3>1. PICK i \in 1..Len(read) : read[i] = list[j]
      BY <1>3, <2>2 DEF ToSet
    <3>2. read[i].n \in (0 + 1)..p
      BY <1>2, <1>4, <3>1 DEF Follow
    <3> QED
      BY <3>1, <3>2
  <2>3. ASSUME list[j].n <= p, list[j] \notin ToSet(read)
        PROVE  FALSE
    <3>1. list[j].n \in (0 + 1)..p
      BY <2>1, <2>3
    <3>2. PICK i \in 1..Len(read) : read[i].col = c /\ read[i].n = list[j].n
      BY <1>2, <3>1 DEF Follow
    <3>3. read[i] \in ToSet(read)
      BY <1>3, <3>2 DEF ToSet
    <3> QED
      BY <1>4, <2>1, <2>3, <3>2, <3>3
  <2> QED
    BY <2>1, <2>2, <2>3
<1>5. /\ \A i \in 1..Len(left) :
           \E j \in 1..Len(list) : left[i] = list[j] /\ list[j] \notin ToSet(read)
      /\ \A j \in 1..Len(list) :
           list[j] \notin ToSet(read) => \E i \in 1..Len(left) : left[i] = list[j]
      /\ \A i, l \in 1..Len(left) : i < l =>
           \E j, m \in 1..Len(list) : j < m /\ left[i] = list[j] /\ left[l] = list[m]
  BY <1>1 DEF Left
<1>6. p <= top /\ top \in Nat
  OBVIOUS
<1>7. ASSUME NEW i \in 1..Len(left), left[i].col = c
      PROVE  left[i].n \in (p + 1)..top
  <2>1. PICK j \in 1..Len(list) : left[i] = list[j] /\ list[j] \notin ToSet(read)
    BY <1>5
  <2>2. list[j].n \in 1..q /\ ~(list[j].n <= p)
    BY <1>4, <1>7, <2>1
  <2> QED
    BY <2>1, <2>2
<1>8. ASSUME NEW i \in 1..Len(left), NEW l \in 1..Len(left), i < l,
             left[i].col = c, left[l].col = c
      PROVE  left[i].n < left[l].n
  <2>1. PICK j \in 1..Len(list), m \in 1..Len(list) :
          j < m /\ left[i] = list[j] /\ left[l] = list[m]
    BY <1>5, <1>8
  <2>2. list[j].n < list[m].n
    BY <1>2, <1>8, <2>1 DEF Follow
  <2> QED
    BY <2>1, <2>2
<1>9. ASSUME NEW n \in (p + 1)..top
      PROVE  \E i \in 1..Len(left) : left[i].col = c /\ left[i].n = n
  <2>1. n \in (0 + 1)..q /\ ~(n <= p)
    BY <1>9
  <2>2. PICK j \in 1..Len(list) : list[j].col = c /\ list[j].n = n
    BY <1>2, <2>1 DEF Follow
  <2>3. list[j] \notin ToSet(read)
    BY <1>4, <2>1, <2>2
  <2> QED
    BY <1>5, <2>2, <2>3
<1> HIDE DEF top
<1>10. Follow(left, c, p, top)
  BY <1>6, <1>7, <1>8, <1>9 DEF Follow
<1>11. FollowFrom(left, 0, c, p, top)
  BY <1>6, <1>10, FollowAll
<1> QED
  BY <1>11 DEF left, top

\* Where the n-th chunk of a column is, chunk by chunk and column by column.
Place(n, c) == (n - 1) * Len(LobCols) + c

ColumnAt(k) == ((k - 1) % Len(LobCols)) + 1
ChunkAt(k) == ((k - 1) \div Len(LobCols)) + 1

LEMMA PlaceOf ==
    ASSUME NEW k \in Nat \ {0}
    PROVE  ColumnAt(k) \in ColIds /\ ChunkAt(k) \in Nat \ {0} /\ k = Place(ChunkAt(k), ColumnAt(k))
<1> DEFINE l == Len(LobCols)
           a == k - 1
           d == a \div l
           m == a % l
<1>1. l \in Nat \ {0} /\ ColIds = 1..l
  BY ColumnCount
<1>2. a \in Nat
  OBVIOUS
<1>3. d \in Nat /\ m \in 0..(l - 1) /\ a = d * l + m
  <2> HIDE DEF a, l
  <2> QED
    BY <1>1, <1>2, Quotient
<1>4. ColumnAt(k) = m + 1 /\ ChunkAt(k) = d + 1
  BY DEF ColumnAt, ChunkAt
<1> DEFINE e == d * l
<1>5. e \in Nat /\ Place(ChunkAt(k), ColumnAt(k)) = e + (m + 1)
  <2>1. Place(ChunkAt(k), ColumnAt(k)) = (d + 1 - 1) * l + (m + 1) /\ d + 1 - 1 = d
    BY <1>3, <1>4 DEF Place
  <2> HIDE DEF d, m, l
  <2> QED
    BY <1>1, <1>3, <2>1, Products
<1>6. k = e + m + 1
  <2>1. a = e + m
    BY <1>3
  <2> HIDE DEF e, m
  <2> QED
    BY <1>3, <1>5, <2>1
<1> HIDE DEF d, m, l, e
<1>7. ColumnAt(k) \in ColIds /\ ChunkAt(k) \in Nat \ {0}
  BY <1>1, <1>3, <1>4
<1>8. e + m + 1 = e + (m + 1)
  BY <1>1, <1>3, <1>5
<1> QED
  BY <1>5, <1>6, <1>7, <1>8

LEMMA PlaceAt ==
    ASSUME NEW c \in ColIds, NEW n \in Nat \ {0}
    PROVE  /\ Place(n, c) \in Nat \ {0}
           /\ ColumnAt(Place(n, c)) = c /\ ChunkAt(Place(n, c)) = n
<1> DEFINE l == Len(LobCols)
           e == (n - 1) * l
<1>1. l \in Nat \ {0} /\ c \in 1..l /\ n - 1 \in Nat
  BY ColumnCount
<1>2. e \in Nat /\ Place(n, c) = e + c
  <2>1. Place(n, c) = e + c
    BY DEF Place
  <2> HIDE DEF l
  <2> QED
    BY <1>1, <2>1, Products
<1>3. Place(n, c) - 1 = e + (c - 1) /\ Place(n, c) - 1 \in Nat /\ c - 1 \in 0..(l - 1)
  <2> HIDE DEF e, l
  <2> QED
    BY <1>1, <1>2
<1> DEFINE a == Place(n, c) - 1
<1>4. a \div l = n - 1 /\ a % l = c - 1
  <2>1. a = (n - 1) * l + (c - 1)
    BY <1>3
  <2> HIDE DEF a, l, e
  <2>2. a \in Nat
    BY <1>3 DEF a
  <2> QED
    BY <1>1, <1>3, <2>1, <2>2, QuotientOf
<1>5. ColumnAt(Place(n, c)) = (a % l) + 1 /\ ChunkAt(Place(n, c)) = (a \div l) + 1
  BY DEF ColumnAt, ChunkAt
<1>6. c - 1 + 1 = c /\ n - 1 + 1 = n
  BY <1>1
<1>7. Place(n, c) \in Nat \ {0}
  <2> HIDE DEF e, l
  <2> QED
    BY <1>1, <1>2
<1> HIDE DEF a, l
<1> QED
  BY <1>4, <1>5, <1>6, <1>7

LEMMA PlaceNext ==
    ASSUME NEW c \in ColIds, NEW n \in Nat
    PROVE  Place(n + 1, c) = n * Len(LobCols) + c
<1> DEFINE k == n + 1
<1>1. k - 1 = n
  OBVIOUS
<1> HIDE DEF k
<1>2. Place(k, c) = n * Len(LobCols) + c
  BY <1>1 DEF Place
<1> QED
  BY <1>2 DEF k

LEMMA PlacesGrow ==
    ASSUME NEW c \in ColIds, NEW m \in Nat \ {0}, NEW n \in Nat \ {0}
    PROVE  m <= n <=> Place(m, c) <= Place(n, c)
<1> DEFINE l == Len(LobCols)
           d == (m - 1) * l
           e == (n - 1) * l
<1>1. l \in Nat \ {0} /\ c \in Nat /\ m - 1 \in Nat /\ n - 1 \in Nat
  BY ColumnCount
<1>2. d \in Nat /\ e \in Nat /\ d + l \in Nat
  <2> HIDE DEF l
  <2> QED
    BY <1>1, Products
<1>3. m <= n => d <= e
  <2>1. m <= n => m - 1 <= n - 1
    OBVIOUS
  <2> HIDE DEF l
  <2> QED
    BY <1>1, <2>1, ProductsGrow
<1>4. n < m => e + l <= d
  <2>1. n < m => n <= m - 1
    OBVIOUS
  <2>2. (n - 1 + 1) * l = e + l /\ n - 1 + 1 = n
    <3> HIDE DEF l
    <3> QED
      BY <1>1, Products
  <2> HIDE DEF l
  <2>3. n < m => n * l <= d
    BY <1>1, <2>1, ProductsGrow
  <2> QED
    BY <2>2, <2>3
<1>5. Place(m, c) = d + c /\ Place(n, c) = e + c
  BY DEF Place
<1> HIDE DEF d, e, l
<1> QED
  BY <1>1, <1>2, <1>3, <1>4, <1>5

LEMMA FirstChunks ==
    /\ InitialSpecs \in Seq(ChunkSpec)
    /\ \A i \in 1..Len(InitialSpecs) :
         Good(InitialSpecs[i]) /\ InitialSpecs[i].len = Limit(InitialSpecs[i].col)
    /\ \A c \in ColIds : \E p \in Nat : FollowFrom(InitialSpecs, 0, c, 0, p)
<1> DEFINE size == (WindowTarget + 1) * Len(LobCols)
           chunk(k) == [col |-> ColumnAt(k), n |-> ChunkAt(k),
                        start |-> (ChunkAt(k) - 1) * Limit(ColumnAt(k)) + 1,
                        len |-> Limit(ColumnAt(k))]
           grid == [k \in 1..size |-> chunk(k)]
           first == InitialSpecs
           w == WindowLength(grid)
<1>1. size \in Nat \ {0}
  <2>1. WindowTarget + 1 \in Nat \ {0} /\ Len(LobCols) \in Nat \ {0}
    BY ColumnCount, LobChunksAssumption
  <2>2. size \in Nat /\ size >= WindowTarget + 1
    BY <2>1, Products
  <2> HIDE DEF size
  <2> QED
    BY <2>1, <2>2
<1>2. first = Window(grid)
  BY DEF InitialSpecs, ColumnAt, ChunkAt
<1> HIDE DEF size
<1>3. ASSUME NEW k \in 1..size
      PROVE  /\ chunk(k) \in ChunkSpec /\ Good(chunk(k)) /\ chunk(k).len = Limit(chunk(k).col)
             /\ chunk(k).col = ColumnAt(k) /\ chunk(k).n = ChunkAt(k)
  <2> DEFINE c == ColumnAt(k)
             n == ChunkAt(k)
             end == End(n - 1, c)
  <2>1. c \in ColIds /\ n \in Nat \ {0} /\ n - 1 \in Nat
    <3>1. k \in Nat \ {0}
      BY <1>1
    <3>2. c \in ColIds /\ n \in Nat \ {0}
      BY <3>1, PlaceOf
    <3> HIDE DEF n
    <3> QED
      BY <3>2
  <2>2. Limit(c) \in Nat \ {0} /\ end \in Nat
    <3> HIDE DEF c, n
    <3> QED
      BY <2>1, LimitPositive, Ends
  <2>3. chunk(k) = [col |-> c, n |-> n, start |-> end + 1, len |-> Limit(c)]
    BY DEF End
  <2> HIDE DEF c, n, end, chunk
  <2>4. chunk(k) \in ChunkSpec
    BY <2>1, <2>2, <2>3 DEF ChunkSpec
  <2>5. chunk(k).col = c /\ chunk(k).n = n /\ chunk(k).start = end + 1 /\ chunk(k).len = Limit(c)
    BY <2>3
  <2> QED
    BY <2>2, <2>4, <2>5 DEF Good, c, n, end
<1> HIDE DEF chunk
<1>4. grid \in Seq(ChunkSpec) /\ Len(grid) = size /\ grid # <<>> /\ \A k \in 1..size : grid[k] = chunk(k)
  <2>1. grid \in [1..size -> ChunkSpec]
    BY <1>3
  <2>2. \A k \in 1..size : grid[k] = chunk(k)
    OBVIOUS
  <2> HIDE DEF grid
  <2>3. grid \in Seq(ChunkSpec) /\ Len(grid) = size
    BY <1>1, <2>1, ListedSequence
  <2>4. grid # <<>>
    BY <1>1, <2>3, EmptySeq
  <2> QED
    BY <2>2, <2>3, <2>4
<1> HIDE DEF grid
<1>5. /\ first \in Seq(ChunkSpec) /\ Len(first) = w /\ w \in 1..size
      /\ \A k \in 1..w : first[k] = chunk(k) /\ k \in 1..size
  <2>1. /\ Window(grid) \in Seq(ChunkSpec) /\ Len(Window(grid)) = w /\ w \in 1..Len(grid)
        /\ \A k \in 1..w : Window(grid)[k] = grid[k]
    BY <1>4, WindowOf
  <2> HIDE DEF w
  <2>2. w \in 1..size /\ \A k \in 1..w : k \in 1..size
    BY <1>1, <1>4, <2>1
  <2> QED
    BY <1>2, <1>4, <2>1, <2>2
<1> HIDE DEF w, first
<1>6. \A i \in 1..Len(first) : Good(first[i]) /\ first[i].len = Limit(first[i].col)
  BY <1>3, <1>5
<1>7. ASSUME NEW c \in ColIds
      PROVE  \E p \in Nat : FollowFrom(first, 0, c, 0, p)
  <2> DEFINE T == {m \in Nat : w < Place(m + 1, c)}
  <2>1. w \in Nat \ {0} /\ \A k \in 1..w : k \in Nat \ {0}
    BY <1>1, <1>5
  <2>2. w \in T
    <3> DEFINE l == Len(LobCols)
               e == w * l
    <3>1. l \in Nat \ {0} /\ c \in Nat \ {0} /\ w + 1 - 1 = w
      BY <2>1, ColumnCount
    <3>2. e \in Nat /\ e >= w
      <4> HIDE DEF l
      <4> QED
        BY <2>1, <3>1, Products
    <3>3. Place(w + 1, c) = e + c
      BY <2>1, PlaceNext
    <3> HIDE DEF e, l
    <3> QED
      BY <2>1, <3>1, <3>2, <3>3
  <2>3. PICK p \in T : \A m \in T : p <= m
    <3>1. T \subseteq Nat
      OBVIOUS
    <3> HIDE DEF T
    <3> QED
      BY <2>2, <3>1, LeastNatural
  <2>4. p \in Nat /\ w < Place(p + 1, c)
    BY <2>3
  <2>5. ASSUME NEW n \in Nat \ {0}
        PROVE  n <= p <=> Place(n, c) <= w
    <3>1. Place(n, c) \in Nat /\ Place(p + 1, c) \in Nat /\ p + 1 \in Nat \ {0}
      BY <2>4, PlaceAt
    <3>2. CASE n <= p
      <4>1. n - 1 \in Nat /\ ~(p <= n - 1) /\ n - 1 + 1 = n
        BY <2>4, <3>2
      <4>2. n - 1 \notin T
        BY <2>3, <4>1
      <4>3. ~(w < Place(n, c))
        BY <4>1, <4>2
      <4> QED
        BY <2>1, <3>1, <3>2, <4>3
    <3>3. CASE ~(n <= p)
      <4>1. p + 1 <= n
        BY <2>4, <3>3
      <4>2. Place(p + 1, c) <= Place(n, c)
        BY <3>1, <4>1, PlacesGrow
      <4> QED
        BY <2>1, <2>4, <3>1, <3>3, <4>2
    <3> QED
      BY <3>2, <3>3
  <2> HIDE DEF T
  <2>6. ASSUME NEW k \in 1..w
        PROVE  /\ first[k].col = ColumnAt(k) /\ first[k].n = ChunkAt(k)
               /\ ChunkAt(k) \in Nat \ {0} /\ k = Place(ChunkAt(k), ColumnAt(k))
    BY <1>3, <1>5, <2>1, PlaceOf
  <2>7. ASSUME NEW i \in 1..w, first[i].col = c
        PROVE  first[i].n \in (0 + 1)..p
    <3>1. first[i].n \in Nat \ {0} /\ i = Place(first[i].n, c) /\ i <= w
      BY <2>1, <2>6, <2>7
    <3>2. first[i].n <= p
      BY <2>5, <3>1
    <3> QED
      BY <2>4, <3>1, <3>2
  <2>8. ASSUME NEW i \in 1..w, NEW j \in 1..w, i < j, first[i].col = c, first[j].col = c
        PROVE  first[i].n < first[j].n
    <3>1. /\ first[i].n \in Nat \ {0} /\ i = Place(first[i].n, c)
          /\ first[j].n \in Nat \ {0} /\ j = Place(first[j].n, c)
      BY <2>6, <2>8
    <3>2. first[j].n <= first[i].n <=> j <= i
      BY <3>1, PlacesGrow
    <3> QED
      BY <2>1, <2>8, <3>1, <3>2
  <2>9. ASSUME NEW n \in (0 + 1)..p
        PROVE  \E i \in 1..w : first[i].col = c /\ first[i].n = n
    <3>1. n \in Nat \ {0} /\ n <= p
      BY <2>4
    <3>2. Place(n, c) \in 1..w
      BY <2>1, <2>5, <3>1, PlaceAt
    <3>3. ColumnAt(Place(n, c)) = c /\ ChunkAt(Place(n, c)) = n
      BY <3>1, PlaceAt
    <3> QED
      BY <2>6, <3>2, <3>3
  <2>10. Follow(first, c, 0, p)
    BY <1>5, <2>4, <2>7, <2>8, <2>9 DEF Follow
  <2> QED
    BY <2>4, <2>10, FollowAll
<1> QED
  BY <1>5, <1>6, <1>7 DEF first

LEMMA StartType ==
    ASSUME LobInit
    PROVE  LobIInv
<1>1. table \in Seq(RowType)
  <2>1. PICK n \in 0..MaxTableRows :
          table \in [1..n -> [id : 1..MaxTableRows, lobs : [ColIds -> Lob0]]]
    BY DEF LobInit
  <2>2. n \in Nat /\ MaxTableRows \in Nat
    BY LobChunksAssumption
  <2>3. Lob0 \subseteq LobType
    BY LobBounds DEF Lob0, LobType, Lens
  <2>4. [id : 1..MaxTableRows, lobs : [ColIds -> Lob0]] \subseteq RowType
    <3>1. [ColIds -> Lob0] \subseteq [ColIds -> LobType]
      BY <2>3
    <3>2. 1..MaxTableRows \subseteq Nat
      BY <2>2
    <3> QED
      BY <3>1, <3>2 DEF RowType
  <2>5. table \in [1..n -> RowType]
    BY <2>1, <2>4
  <2> QED
    BY <2>2, <2>5, ListedSequence
<1>2. chosen \in [ordered : BOOLEAN, limit : Nat]
  <2>1. Orders \subseteq BOOLEAN /\ RowLimits \subseteq Nat /\ chosen \in [ordered : Orders, limit : RowLimits]
    BY LobChunksAssumption DEF LobInit
  <2> QED
    BY <2>1
<1>3. LobTypeOK
  <2>1. /\ changes = 0 /\ stale = FALSE /\ rowStart = 1
        /\ out = <<>> /\ lengths = <<>> /\ specs = <<>> /\ expected = <<>>
    BY DEF LobInit
  <2>2. specs \in Seq(ChunkSpec)
    BY <2>1, EmptySeq
  <2>3. lengths \in Seq([ColIds -> Lens])
    BY <2>1, EmptySeq
  <2>4. out \in Seq(OutRow) /\ expected \in Seq(OutRow)
    BY <2>1, EmptySeq
  <2>5. changes \in Nat /\ rowStart \in Nat \ {0}
    <3>1. changes = 0 /\ rowStart = 1
      BY DEF LobInit
    <3> QED
      BY <3>1
  <2>6. stale \in BOOLEAN
    BY DEF LobInit
  <2> QED
    BY <1>1, <1>2, <2>2, <2>3, <2>4, <2>5, <2>6 DEF LobTypeOK
<1>4. Len(<<>>) = 0 /\ ~\E r \in 1..0 : TRUE
  OBVIOUS
<1>5. SameRows /\ Chunks
  BY <1>4 DEF LobInit, SameRows, Chunks
<1>6. AsRead /\ Grid
  BY DEF LobInit, AsRead, Grid, Rebuilding
<1> QED
  BY <1>3, <1>5, <1>6 DEF LobIInv

\* A step of the select that touches no row.
LEMMA SelectMoves ==
    ASSUME LobIInv, Rebuilding' => Rebuilding, step' = "done" => specs = <<>>,
           UNCHANGED <<table, changes, stale, chosen, single, out, lengths, specs, rowStart,
                       expected>>
    PROVE  LobIInv'
<1>1. LobTypeOK' /\ SameRows'
  BY DEF LobIInv, LobTypeOK, SameRows
<1>2. AsRead'
  BY AsBefore DEF LobIInv, AsRead
<1>3. Chunks'
  <2>1. specs' = specs /\ lengths' = lengths
    OBVIOUS
  <2> QED
    BY <2>1 DEF LobIInv, Chunks
<1>4. ReadTwice' = ReadTwice
  BY TwiceAsBefore
<1>5. ASSUME NEW r, NEW c, Rebuilt(r, c)
      PROVE  Rebuilt(r, c)'
  <2>1. Passed(r)' = Passed(r) /\ Exact' = Exact
    BY DEF Passed, Exact
  <2> QED
    BY <1>5, <2>1 DEF Rebuilt
<1>6. Grid'
  BY <1>4, <1>5 DEF LobIInv, Grid
<1> QED
  BY <1>1, <1>2, <1>3, <1>6 DEF LobIInv

LEMMA LobChanged ==
    ASSUME LobTypeOK, NEW i \in DOMAIN table, NEW c \in ColIds, NEW lob \in LobType
    PROVE  [table EXCEPT ![i].lobs[c] = lob] \in Seq(RowType)
<1>1. Len(table) \in Nat /\ DOMAIN table = 1..Len(table) /\ table \in [1..Len(table) -> RowType]
  BY LenProperties DEF LobTypeOK
<1>2. table[i] \in RowType
  BY <1>1
<1>3. [table[i] EXCEPT !.lobs[c] = lob] \in RowType
  BY <1>2 DEF RowType
<1>4. [table EXCEPT ![i].lobs[c] = lob] = [table EXCEPT ![i] = [table[i] EXCEPT !.lobs[c] = lob]]
  BY <1>1
<1>5. [table EXCEPT ![i].lobs[c] = lob] \in [1..Len(table) -> RowType]
  BY <1>1, <1>3, <1>4
<1> QED
  BY <1>1, <1>5, ListedSequence

LEMMA TableChanges ==
    ASSUME LobTypeOK, Change
    PROVE  table' \in Seq(RowType) /\ changes' \in Nat
<1>1. changes' = changes + 1 /\ changes' \in Nat /\ MaxLob \in Nat /\ MaxTableRows \in Nat
  <2>1. changes' = changes + 1
    BY DEF Change
  <2>2. changes \in Nat
    BY DEF LobTypeOK
  <2>3. MaxLob \in Nat /\ MaxTableRows \in Nat
    BY LobChunksAssumption
  <2> QED
    BY <2>1, <2>2, <2>3
<1>2. table \in Seq(RowType) /\ Len(table) \in Nat /\ DOMAIN table = 1..Len(table)
  BY LenProperties DEF LobTypeOK
<1>3. CASE \E i \in DOMAIN table, c \in ColIds, n \in {0, MaxLob} :
             table' = [table EXCEPT ![i].lobs[c] = [version |-> changes', len |-> n]]
  <2>1. PICK i \in DOMAIN table, c \in ColIds, n \in {0, MaxLob} :
               table' = [table EXCEPT ![i].lobs[c] = [version |-> changes', len |-> n]]
    BY <1>3
  <2>2. [version |-> changes', len |-> n] \in LobType
    <3>1. n \in Lens
      BY <1>1, LobBounds
    <3> QED
      BY <1>1, <3>1 DEF LobType
  <2> DEFINE lob == [version |-> changes', len |-> n]
  <2>3. table' = [table EXCEPT ![i].lobs[c] = lob] /\ lob \in LobType
    BY <2>1, <2>2
  <2> HIDE DEF lob
  <2> QED
    BY <1>1, <2>3, LobChanged
<1>4. CASE \E i \in DOMAIN table : table' = RemoveAt(table, i)
  <2>1. PICK i \in DOMAIN table : table' = RemoveAt(table, i)
    BY <1>4
  <2>2. i - 1 \in 0..Len(table) /\ i + 1 \in 1..(Len(table) + 1) /\ i \in 1..Len(table)
    BY <1>2
  <2>3. \A m \in 1..(Len(table) + 1), n \in 0..Len(table) : SubSeq(table, m, n) \in Seq(RowType)
    BY <1>2, SubSeqProperties
  <2>4. SubSeq(table, 1, i - 1) \in Seq(RowType) /\ SubSeq(table, i + 1, Len(table)) \in Seq(RowType)
    <3>1. 1 \in 1..(Len(table) + 1) /\ Len(table) \in 0..Len(table)
      BY <1>2
    <3> QED
      BY <2>2, <2>3, <3>1
  <2> QED
    BY <1>1, <2>1, <2>4, ConcatProperties DEF RemoveAt
<1>5. CASE table' = <<[id |-> MaxTableRows + changes',
                       lobs |-> [c \in ColIds |-> [version |-> 0, len |-> MaxLob]]]>> \o table
  <2> DEFINE row == [id |-> MaxTableRows + changes',
                     lobs |-> [c \in ColIds |-> [version |-> 0, len |-> MaxLob]]]
  <2>1. row \in RowType
    <3>1. MaxTableRows + changes' \in Nat /\ MaxLob \in Lens
      BY <1>1, LobBounds
    <3>2. [version |-> 0, len |-> MaxLob] \in LobType
      BY <3>1 DEF LobType
    <3>3. [c \in ColIds |-> [version |-> 0, len |-> MaxLob]] \in [ColIds -> LobType]
      BY <3>2
    <3> QED
      BY <3>1, <3>3 DEF RowType
  <2> HIDE DEF row
  <2>2. <<row>> \in Seq(RowType)
    BY <2>1
  <2>3. <<row>> \o table \in Seq(RowType)
    BY <1>2, <2>2, ConcatProperties
  <2> QED
    BY <1>1, <1>5, <2>3 DEF row
<1> QED
  BY <1>1, <1>3, <1>4, <1>5 DEF Change

LEMMA ChangeStep ==
    ASSUME LobIInv, Change
    PROVE  LobIInv'
<1>1. /\ step \in {"read", "chunks"} /\ stale' = (step = "chunks")
      /\ UNCHANGED <<chosen, step, single, out, lengths, specs, rowStart, expected>>
  BY DEF Change, Progress
<1>2. LobTypeOK'
  <2>1. table' \in Seq(RowType) /\ changes' \in Nat /\ LobTypeOK
    BY TableChanges DEF LobIInv
  <2>2. stale' \in BOOLEAN
    BY <1>1
  <2> QED
    BY <1>1, <2>1, <2>2 DEF LobTypeOK
<1>3. SameRows' /\ Chunks'
  <2>1. specs' = specs /\ lengths' = lengths /\ out' = out /\ expected' = expected /\ step' = step
    BY <1>1
  <2> QED
    BY <2>1 DEF LobIInv, SameRows, Chunks
<1>4. AsRead'
  BY <1>1 DEF AsRead, Rebuilding
<1>5. ReadTwice' = ReadTwice
  BY <1>1, TwiceAsBefore
<1>6. ASSUME NEW r, NEW c, Rebuilt(r, c), step = "chunks"
      PROVE  Rebuilt(r, c)'
  <2>1. Passed(r)' = Passed(r) /\ ~Exact'
    BY <1>1, <1>6 DEF Passed, Exact
  <2>2. PICK p \in Nat, q \in Nat :
          /\ FollowFrom(specs, Passed(r), c, p, q)
          /\ lengths[r][c] <= End(q, c)
          /\ Upto(out[r].text[c], lengths[r][c], c, p, Exact, expected[r].text[c])
    BY <1>6 DEF Rebuilt
  <2>3. Upto(out[r].text[c], lengths[r][c], c, p, Exact', expected[r].text[c])
    BY <2>1, <2>2 DEF Upto
  <2>4. out' = out /\ lengths' = lengths /\ specs' = specs /\ expected' = expected
    BY <1>1
  <2>5. FollowFrom(specs', Passed(r)', c, p, q) /\ lengths'[r][c] <= End(q, c)
        /\ Upto(out'[r].text[c], lengths'[r][c], c, p, Exact', expected'[r].text[c])
    BY <2>1, <2>2, <2>3, <2>4
  <2> QED
    BY <2>5 DEF Rebuilt
<1>7. Grid'
  <2>1. Rebuilding' => step = "chunks" /\ Rebuilding
    BY <1>1 DEF Rebuilding
  <2>2. out' = out
    BY <1>1
  <2> QED
    BY <1>5, <1>6, <2>1, <2>2 DEF LobIInv, Grid
<1> QED
  BY <1>2, <1>3, <1>4, <1>7 DEF LobIInv

-----------------------------------------------------------------------------
(* The first query *)

FirstLens == Lengths(Numbered)
FirstRows == [i \in DOMAIN Numbered |-> Empty(Numbered[i].row)]

LEMMA LobText ==
    ASSUME NEW row \in RowType, NEW c \in ColIds
    PROVE  /\ row.lobs[c].len \in Lens
           /\ Text(row, c) \in TextOf(row.lobs[c].len)
           /\ row.lobs[c].len # Missing => Len(Text(row, c)) = row.lobs[c].len
<1> DEFINE len == row.lobs[c].len
           version == row.lobs[c].version
<1>1. row.lobs[c] \in LobType /\ row.id \in Nat
  BY DEF RowType
<1>2. len \in Lens /\ version \in Nat
  BY <1>1 DEF LobType
<1>3. CASE len = Missing
  BY <1>2, <1>3 DEF Text, TextOf
<1>4. CASE len # Missing
  <2> DEFINE text == [i \in 1..len |-> <<row.id, c, version, i>>]
  <2>1. len \in Nat
    BY <1>2, <1>4, LobBounds
  <2>2. Text(row, c) = text
    BY <1>4 DEF Text
  <2>3. text \in [1..len -> Char]
    <3> HIDE DEF len, version
    <3>1. \A i \in 1..len : <<row.id, c, version, i>> \in Char
      BY <1>1, <1>2, <2>1 DEF Char
    <3> QED
      BY <3>1
  <2> HIDE DEF text, len
  <2>4. text \in Seq(Char) /\ Len(text) = len
    BY <2>1, <2>3, ListedSequence
  <2> QED
    BY <1>2, <1>4, <2>2, <2>4 DEF TextOf, len
<1> QED
  BY <1>3, <1>4

LEMMA TextsAreTexts ==
    ASSUME NEW len \in Lens
    PROVE  TextOf(len) \subseteq TextType
BY DEF TextOf, TextType

\* What the lengths, the rows without text, and the rows as stored are.
FirstShape(n) ==
    /\ FirstLens \in Seq([ColIds -> Lens]) /\ Len(FirstLens) = n
    /\ FirstRows \in Seq(OutRow) /\ Len(FirstRows) = n
    /\ Stored(Numbered) \in Seq(OutRow) /\ Len(Stored(Numbered)) = n

LEMMA FirstSequences ==
    ASSUME LobTypeOK
    PROVE  FirstShape(Len(Numbered))
<1> DEFINE n == Len(Numbered)
<1>1. Numbered \in Seq(AnswerRow)
  BY NumberedRows DEF LobTypeOK
<1>2. n \in Nat /\ DOMAIN Numbered = 1..n /\ \A i \in 1..n : Numbered[i].row \in RowType
  <2>1. n \in Nat /\ DOMAIN Numbered = 1..n /\ \A i \in 1..n : Numbered[i] \in AnswerRow
    BY <1>1, LenProperties
  <2> QED
    BY <2>1 DEF AnswerRow
<1> HIDE DEF n
<1>3. FirstLens \in [1..n -> [ColIds -> Lens]]
  <2>1. \A i \in 1..n, c \in ColIds : Numbered[i].row.lobs[c].len \in Lens
    BY <1>2, LobText
  <2>2. FirstLens = [i \in 1..n |-> [c \in ColIds |-> Numbered[i].row.lobs[c].len]]
    BY <1>2 DEF FirstLens, Lengths
  <2> QED
    BY <2>1, <2>2
<1>4. FirstRows \in [1..n -> OutRow]
  <2>1. ASSUME NEW row \in RowType
        PROVE  Empty(row) \in OutRow
    <3>1. \A c \in ColIds : (IF row.lobs[c].len = Missing THEN Missing ELSE <<>>) \in TextType
      <4>1. <<>> \in Seq(Char)
        BY EmptySeq
      <4> QED
        BY <4>1 DEF TextType
    <3>2. row.id \in Nat
      BY DEF RowType
    <3> QED
      BY <3>1, <3>2 DEF Empty, OutRow
  <2> QED
    BY <1>2, <2>1 DEF FirstRows
<1>5. Stored(Numbered) \in [1..n -> OutRow]
  <2>1. ASSUME NEW row \in RowType
        PROVE  [id |-> row.id, text |-> [c \in ColIds |-> Text(row, c)]] \in OutRow
    <3>1. \A c \in ColIds : Text(row, c) \in TextType
      BY LobText, TextsAreTexts
    <3>2. row.id \in Nat
      BY DEF RowType
    <3> QED
      BY <3>1, <3>2 DEF OutRow
  <2> QED
    BY <1>2, <2>1 DEF Stored
<1>6. FirstLens \in Seq([ColIds -> Lens]) /\ Len(FirstLens) = n
  BY <1>2, <1>3, ListedSequence
<1>7. FirstRows \in Seq(OutRow) /\ Len(FirstRows) = n
  BY <1>2, <1>4, ListedSequence
<1>8. Stored(Numbered) \in Seq(OutRow) /\ Len(Stored(Numbered)) = n
  BY <1>2, <1>5, ListedSequence
<1> QED
  BY <1>6, <1>7, <1>8 DEF FirstShape, n

LEMMA FirstRow ==
    ASSUME LobTypeOK, NEW r \in 1..Len(Numbered)
    PROVE  /\ Numbered[r] \in AnswerRow /\ Numbered[r].row \in RowType
           /\ FirstRows[r].id = Numbered[r].row.id
           /\ Stored(Numbered)[r].id = Numbered[r].row.id
<1>1. DOMAIN Numbered = 1..Len(Numbered) /\ Numbered[r] \in AnswerRow
  <2>1. Numbered \in Seq(AnswerRow)
    BY NumberedRows DEF LobTypeOK
  <2> QED
    BY <2>1, LenProperties
<1>2. Numbered[r].row \in RowType
  BY <1>1 DEF AnswerRow
<1>3. FirstRows[r] = Empty(Numbered[r].row)
  BY <1>1 DEF FirstRows
<1>4. Stored(Numbered)[r].id = Numbered[r].row.id
  BY <1>1 DEF Stored
<1> QED
  BY <1>1, <1>2, <1>3, <1>4 DEF Empty

LEMMA FirstText ==
    ASSUME LobTypeOK, NEW r \in 1..Len(Numbered), NEW c \in ColIds
    PROVE  /\ FirstLens[r][c] \in Lens /\ FirstLens[r][c] = Numbered[r].row.lobs[c].len
           /\ FirstRows[r].text[c] = IF FirstLens[r][c] = Missing THEN Missing ELSE <<>>
           /\ FirstRows[r].text[c] \in TextOf(FirstLens[r][c])
           /\ Stored(Numbered)[r].text[c] = Text(Numbered[r].row, c)
<1>1. DOMAIN Numbered = 1..Len(Numbered)
  <2>1. Numbered \in Seq(AnswerRow)
    BY NumberedRows DEF LobTypeOK
  <2> QED
    BY <2>1, LenProperties
<1>2. FirstLens[r][c] = Numbered[r].row.lobs[c].len
  BY <1>1 DEF FirstLens, Lengths
<1>3. FirstLens[r][c] \in Lens
  BY <1>2, FirstRow, LobText
<1>4. FirstRows[r].text[c] = IF FirstLens[r][c] = Missing THEN Missing ELSE <<>>
  <2>1. FirstRows[r] = Empty(Numbered[r].row)
    BY <1>1 DEF FirstRows
  <2> QED
    BY <1>2, <2>1 DEF Empty
<1>5. FirstRows[r].text[c] \in TextOf(FirstLens[r][c])
  <2>1. <<>> \in Seq(Char)
    BY EmptySeq
  <2> QED
    BY <1>4, <2>1 DEF TextOf
<1>6. Stored(Numbered)[r].text[c] = Text(Numbered[r].row, c)
  BY <1>1 DEF Stored
<1> QED
  BY <1>2, <1>3, <1>4, <1>5, <1>6

\* Before the first chunk there is no text.
LEMMA NoTextYet ==
    ASSUME LobTypeOK, NEW r \in 1..Len(Numbered), NEW c \in ColIds, NEW exact \in BOOLEAN,
           NEW stored
    PROVE  Upto(FirstRows[r].text[c], FirstLens[r][c], c, 0, exact, stored)
<1> DEFINE len == FirstLens[r][c]
           text == FirstRows[r].text[c]
<1>1. len \in Lens /\ text = IF len = Missing THEN Missing ELSE <<>>
  BY FirstText
<1> HIDE DEF len, text
<1>2. Len(<<>>) = 0 /\ <<>> \in Seq(Char)
  BY EmptySeq
<1>3. End(0, c) = 0
  BY Ends
<1>4. ASSUME len # Missing
      PROVE  Upto(text, len, c, 0, exact, stored)
  <2>1. text = <<>> /\ 0 <= len
    BY <1>1, <1>4, LobBounds
  <2>2. Len(text) = 0 /\ text \in Seq(Char)
    BY <1>2, <2>1
  <2>3. Len(text) <= len /\ Len(text) = End(0, c) /\ Len(text) <= End(0, c)
    BY <1>3, <2>1, <2>2
  <2>4. \A i \in 1..Len(text) : text[i] = stored[i]
    <3>1. \A i \in 1..0 : FALSE
      OBVIOUS
    <3> QED
      BY <2>2, <3>1
  <2> QED
    BY <1>4, <2>2, <2>3, <2>4 DEF Upto
<1>5. ASSUME len = Missing
      PROVE  Upto(text, len, c, 0, exact, stored)
  BY <1>1, <1>5 DEF Upto
<1>6. Upto(text, len, c, 0, exact, stored)
  BY <1>4, <1>5
<1> QED
  BY <1>6 DEF len, text

\* The chunks left by the first query, if it reads some.
LEMMA FirstRead ==
    ASSUME LobTypeOK, NEW r \in 1..Len(Numbered), NEW c \in ColIds, NEW p \in Nat,
           FollowFrom(InitialSpecs, 0, c, 0, p), NEW new,
           Grown(new, FirstRows, FirstLens, InitialSpecs, ToSet(Numbered))
    PROVE  Upto(new[r].text[c], FirstLens[r][c], c, p, Exact, Stored(Numbered)[r].text[c])
<1> DEFINE w == Len(InitialSpecs)
           len == FirstLens[r][c]
           text == FirstRows[r].text[c]
           stored == Stored(Numbered)[r].text[c]
           answer == ToSet(Numbered)
<1>1. /\ InitialSpecs \in Seq(ChunkSpec) /\ w \in Nat /\ w \in 0..Len(InitialSpecs)
      /\ \A i \in 1..w : Good(InitialSpecs[i])
                         /\ InitialSpecs[i].len = Limit(InitialSpecs[i].col)
  <2>1. InitialSpecs \in Seq(ChunkSpec)
    BY FirstChunks
  <2>2. w \in Nat
    BY <2>1, LenProperties
  <2> QED
    BY <2>1, <2>2, FirstChunks
<1>2. len \in Lens /\ text \in TextOf(len) /\ stored = Text(Numbered[r].row, c)
      /\ len = Numbered[r].row.lobs[c].len
  BY FirstText
<1>3. Exact \in BOOLEAN
  BY DEF Exact
<1>4. Upto(text, len, c, 0, Exact, stored)
  BY <1>3, NoTextYet
<1>5. Numbered[r] \in AnswerRow /\ Numbered[r].row \in RowType /\ Numbered \in Seq(AnswerRow)
  BY FirstRow, NumberedRows DEF LobTypeOK
<1>6. Numbered[r] \in answer
  BY <1>5, LenProperties DEF ToSet
<1>7. Exact => \A i \in 1..Len(Numbered) : Numbered[i].rn = i
  BY NumberedRows DEF LobTypeOK, Exact
<1>8. Proper(InitialSpecs, w, c, len)
  BY <1>1 DEF Proper
<1>9. Len(FirstRows) = Len(Numbered)
  BY FirstSequences DEF FirstShape
<1>10. \E texts : texts[0] = text /\ texts[w] = new[r].text[c]
                  /\ Texts(texts, InitialSpecs, w, c, len, Exact, stored)
  <2>1. CASE RowOf(answer, r) = {}
    <3> DEFINE texts == [i \in 0..w |-> text]
    <3>1. ~Exact
      BY <1>6, <1>7, <2>1 DEF RowOf
    <3>2. texts[0] = text /\ texts[w] = text /\ \A i \in 1..w : texts[i] = texts[i - 1]
      <4> HIDE DEF w, text
      <4>1. \A i \in 1..w : i \in 0..w /\ i - 1 \in 0..w
        BY <1>1
      <4> QED
        BY <1>1, <4>1
    <3>3. new[r].text[c] = text
      BY <1>9, <2>1 DEF Grown
    <3> HIDE DEF texts
    <3>4. Texts(texts, InitialSpecs, w, c, len, Exact, stored)
      BY <3>1, <3>2 DEF Texts
    <3> QED
      BY <3>2, <3>3, <3>4
  <2>2. CASE RowOf(answer, r) # {}
    <3>1. PICK a \in RowOf(answer, r) :
            new[r].text[c] = Reads(text, c, len, InitialSpecs, a.row)[w]
      BY <1>9, <2>2 DEF Grown
    <3> DEFINE texts == Reads(text, c, len, InitialSpecs, a.row)
    <3>2. PICK i \in 1..Len(Numbered) : Numbered[i] = a /\ a \in AnswerRow /\ a.rn = r
      BY <1>5, <3>1, LenProperties DEF RowOf, ToSet
    <3>3. a.row \in RowType
      BY <3>2 DEF AnswerRow
    <3>4. Exact => a.row.lobs[c].len = len /\ stored = Text(a.row, c)
      <4>1. Exact => i = r
        BY <1>7, <3>2
      <4> QED
        BY <1>2, <3>2, <4>1
    <3>5. /\ texts[0] = text
          /\ \A k \in 1..w : texts[k] = After(texts[k - 1], c, len, InitialSpecs[k], a.row)
      <4> HIDE DEF text, len
      <4> QED
        BY <1>1, <1>2, <3>3, ReadsAll
    <3> HIDE DEF texts, len, text, stored, w
    <3>6. Texts(texts, InitialSpecs, w, c, len, Exact, stored)
      BY <3>3, <3>4, <3>5 DEF Texts
    <3> QED
      BY <3>1, <3>5, <3>6 DEF texts
  <2> QED
    BY <2>1, <2>2
<1>11. PICK texts : texts[0] = text /\ texts[w] = new[r].text[c]
                    /\ Texts(texts, InitialSpecs, w, c, len, Exact, stored)
  BY <1>10
<1>12. Upto(texts[0], len, c, 0, Exact, stored)
  BY <1>4, <1>11
<1> HIDE DEF len, text, stored, w
<1>13. PICK m \in Nat : FollowFrom(InitialSpecs, w, c, m, p)
                        /\ Upto(texts[w], len, c, m, Exact, stored)
  BY <1>1, <1>2, <1>3, <1>8, <1>11, <1>12, WindowRead
<1>14. m = p
  <2>1. w >= Len(InitialSpecs) /\ w \in Nat
    BY <1>1 DEF w
  <2> QED
    BY <1>1, <1>13, <2>1, FollowEnd
<1> QED
  BY <1>11, <1>13, <1>14 DEF len, stored

LEMMA ColumnsLeft ==
    ASSUME NEW lens \in Seq([ColIds -> Lens])
    PROVE  /\ CombinedSpecs(lens) \in Seq(ChunkSpec)
           /\ \A i \in 1..Len(CombinedSpecs(lens)) :
                Good(CombinedSpecs(lens)[i]) /\ Covers(CombinedSpecs(lens)[i], lens)
           /\ Unread(CombinedSpecs(lens), InitialSpecs) \in Seq(ChunkSpec)
           /\ \A i \in 1..Len(Unread(CombinedSpecs(lens), InitialSpecs)) :
                Good(Unread(CombinedSpecs(lens), InitialSpecs)[i])
                /\ Covers(Unread(CombinedSpecs(lens), InitialSpecs)[i], lens)
<1> DEFINE all == CombinedSpecs(lens)
           left == Unread(all, InitialSpecs)
<1>1. all \in Seq(ChunkSpec) /\ \A i \in 1..Len(all) : Good(all[i]) /\ Covers(all[i], lens)
  BY AllChunks DEF Columns, Fit
<1>2. Left(left, all, InitialSpecs, Len(all))
  <2> HIDE DEF all
  <2> QED
    BY <1>1, UnreadKept
<1> HIDE DEF all, left
<1>3. left \in Seq(ChunkSpec) /\ \A i \in 1..Len(left) : Good(left[i]) /\ Covers(left[i], lens)
  BY <1>1, <1>2 DEF Left
<1> QED
  BY <1>1, <1>3 DEF all, left

\* What is left of a column, and up to where.
LEMMA FirstLeft ==
    ASSUME LobTypeOK, NEW c \in ColIds
    PROVE  \E q \in Nat : FollowFrom(CombinedSpecs(FirstLens), 0, c, 0, q)
                          /\ \A r \in 1..Len(Numbered) : FirstLens[r][c] <= End(q, c)
<1> DEFINE q == ChunkCount(c, Longest(FirstLens, c))
<1>1. FirstLens \in Seq([ColIds -> Lens]) /\ Len(FirstLens) = Len(Numbered)
  BY FirstSequences DEF FirstShape
<1>2. DOMAIN FirstLens = 1..Len(Numbered)
  BY <1>1, LenProperties
<1>3. q \in Nat /\ \A r \in DOMAIN FirstLens : FirstLens[r][c] <= End(q, c)
  BY <1>1, ColumnChunks
<1>4. FollowFrom(CombinedSpecs(FirstLens), 0, c, 0, q)
  <2>1. Columns(CombinedSpecs(FirstLens), Len(LobCols), FirstLens)
    BY <1>1, AllChunks
  <2>2. c \in 1..Len(LobCols)
    BY ColumnCount
  <2> QED
    BY <2>1, <2>2 DEF Columns
<1> HIDE DEF q
<1> QED
  BY <1>2, <1>3, <1>4

LEMMA FirstLeftRead ==
    ASSUME LobTypeOK, NEW r \in 1..Len(Numbered), NEW c \in ColIds, NEW new,
           Grown(new, FirstRows, FirstLens, InitialSpecs, ToSet(Numbered)),
           \A spec \in ToSet(CombinedSpecs(FirstLens)) \ ToSet(InitialSpecs) :
             \A first \in ToSet(InitialSpecs) : <<first.col, first.n>> # <<spec.col, spec.n>>
    PROVE  \E p, q \in Nat :
             /\ FollowFrom(Unread(CombinedSpecs(FirstLens), InitialSpecs), 0, c, p, q)
             /\ FirstLens[r][c] <= End(q, c)
             /\ Upto(new[r].text[c], FirstLens[r][c], c, p, Exact, Stored(Numbered)[r].text[c])
<1>1. PICK k \in Nat : FollowFrom(CombinedSpecs(FirstLens), 0, c, 0, k)
                       /\ FirstLens[r][c] <= End(k, c)
  BY FirstLeft
<1>2. PICK p \in Nat : FollowFrom(InitialSpecs, 0, c, 0, p)
  BY FirstChunks
<1> DEFINE q == IF p <= k THEN k ELSE p
<1>3. FirstLens \in Seq([ColIds -> Lens]) /\ FirstLens[r][c] \in Lens
  BY FirstSequences, FirstText DEF FirstShape
<1>4. CombinedSpecs(FirstLens) \in Seq(ChunkSpec) /\ InitialSpecs \in Seq(ChunkSpec)
  BY <1>3, ColumnsLeft, FirstChunks
<1>5. FollowFrom(Unread(CombinedSpecs(FirstLens), InitialSpecs), 0, c, p, q)
  BY <1>1, <1>2, <1>4, UnreadFollows
<1>6. q \in Nat /\ k <= q
  OBVIOUS
<1> HIDE DEF q
<1>7. FirstLens[r][c] <= End(q, c)
  <2>1. End(k, c) <= End(q, c) /\ End(k, c) \in Nat /\ End(q, c) \in Nat
    BY <1>6, EndsGrow, Ends
  <2>2. FirstLens[r][c] \in Int
    BY <1>3, LobBounds
  <2> QED
    BY <1>1, <2>1, <2>2
<1>8. Upto(new[r].text[c], FirstLens[r][c], c, p, Exact, Stored(Numbered)[r].text[c])
  BY <1>2, FirstRead
<1> QED
  BY <1>5, <1>6, <1>7, <1>8

\* What the first query leaves behind.
First(rows, left) ==
    /\ rows \in Seq(OutRow) /\ Len(rows) = Len(Numbered)
    /\ \A r \in 1..Len(Numbered) :
         /\ rows[r].id = Numbered[r].row.id
         /\ \A c \in ColIds : rows[r].text[c] \in TextOf(FirstLens[r][c])
    /\ left \in Seq(ChunkSpec)
    /\ \A i \in 1..Len(left) : Good(left[i]) /\ Covers(left[i], FirstLens)

FirstGrid(rows, left, r, c) ==
    \E p, q \in Nat :
      /\ FollowFrom(left, 0, c, p, q)
      /\ FirstLens[r][c] <= End(q, c)
      /\ Upto(rows[r].text[c], FirstLens[r][c], c, p, Exact, Stored(Numbered)[r].text[c])

\* ReadTwice, once the lengths are known.
FirstTwice ==
    /\ SinglePass
    /\ \E spec \in ToSet(CombinedSpecs(FirstLens)) \ ToSet(InitialSpecs) :
          \E first \in ToSet(InitialSpecs) : <<first.col, first.n>> = <<spec.col, spec.n>>

LEMMA FirstQuery ==
    ASSUME LobTypeOK
    PROVE  /\ First(FirstRows, CombinedSpecs(FirstLens))
           /\ \A r \in 1..Len(Numbered), c \in ColIds :
                FirstGrid(FirstRows, CombinedSpecs(FirstLens), r, c)
<1>1. FirstShape(Len(Numbered))
  BY FirstSequences
<1>2. First(FirstRows, CombinedSpecs(FirstLens))
  <2>1. /\ CombinedSpecs(FirstLens) \in Seq(ChunkSpec)
        /\ \A i \in 1..Len(CombinedSpecs(FirstLens)) :
             Good(CombinedSpecs(FirstLens)[i]) /\ Covers(CombinedSpecs(FirstLens)[i], FirstLens)
    BY <1>1, ColumnsLeft DEF FirstShape
  <2>2. \A r \in 1..Len(Numbered) : FirstRows[r].id = Numbered[r].row.id
    BY FirstRow
  <2>3. \A r \in 1..Len(Numbered), c \in ColIds :
          FirstRows[r].text[c] \in TextOf(FirstLens[r][c])
    BY FirstText
  <2> QED
    BY <1>1, <2>1, <2>2, <2>3 DEF First, FirstShape
<1>3. ASSUME NEW r \in 1..Len(Numbered), NEW c \in ColIds
      PROVE  FirstGrid(FirstRows, CombinedSpecs(FirstLens), r, c)
  <2>1. PICK q \in Nat : FollowFrom(CombinedSpecs(FirstLens), 0, c, 0, q)
                         /\ FirstLens[r][c] <= End(q, c)
    BY FirstLeft
  <2>2. Exact \in BOOLEAN
    BY DEF Exact
  <2>3. Upto(FirstRows[r].text[c], FirstLens[r][c], c, 0, Exact, Stored(Numbered)[r].text[c])
    BY <2>2, NoTextYet
  <2> QED
    BY <2>1, <2>3 DEF FirstGrid
<1> QED
  BY <1>2, <1>3

LEMMA FirstSinglePass ==
    ASSUME LobTypeOK, NEW new, new = Appended(FirstRows, FirstLens, InitialSpecs, ToSet(Numbered)),
           SinglePass
    PROVE  /\ First(new, Unread(CombinedSpecs(FirstLens), InitialSpecs))
           /\ ~FirstTwice => \A r \in 1..Len(Numbered), c \in ColIds :
                FirstGrid(new, Unread(CombinedSpecs(FirstLens), InitialSpecs), r, c)
<1>1. FirstShape(Len(Numbered))
  BY FirstSequences
<1>2. Grown(new, FirstRows, FirstLens, InitialSpecs, ToSet(Numbered))
  <2>1. ToSet(Numbered) \in SUBSET AnswerRow
    <3>1. Numbered \in Seq(AnswerRow)
      BY NumberedRows DEF LobTypeOK
    <3> QED
      BY <3>1, LenProperties DEF ToSet
  <2>2. \A r \in 1..Len(FirstRows), c \in ColIds :
          FirstRows[r].text[c] \in TextOf(FirstLens[r][c])
    BY <1>1, FirstText DEF FirstShape
  <2>3. InitialSpecs \in Seq(ChunkSpec)
    BY FirstChunks
  <2> QED
    BY <1>1, <2>1, <2>2, <2>3, AppendedRows DEF FirstShape
<1>3. First(new, Unread(CombinedSpecs(FirstLens), InitialSpecs))
  <2>1. /\ Unread(CombinedSpecs(FirstLens), InitialSpecs) \in Seq(ChunkSpec)
        /\ \A i \in 1..Len(Unread(CombinedSpecs(FirstLens), InitialSpecs)) :
             Good(Unread(CombinedSpecs(FirstLens), InitialSpecs)[i])
             /\ Covers(Unread(CombinedSpecs(FirstLens), InitialSpecs)[i], FirstLens)
    BY <1>1, ColumnsLeft DEF FirstShape
  <2>2. \A r \in 1..Len(Numbered) : FirstRows[r].id = Numbered[r].row.id
    BY FirstRow
  <2>3. /\ new \in Seq(OutRow) /\ Len(new) = Len(Numbered)
        /\ \A r \in 1..Len(Numbered) : new[r].id = FirstRows[r].id
        /\ \A r \in 1..Len(Numbered), c \in ColIds : new[r].text[c] \in TextOf(FirstLens[r][c])
    BY <1>1, <1>2 DEF Grown, FirstShape
  <2> QED
    BY <2>1, <2>2, <2>3 DEF First
<1>4. ASSUME ~FirstTwice, NEW r \in 1..Len(Numbered), NEW c \in ColIds
      PROVE  FirstGrid(new, Unread(CombinedSpecs(FirstLens), InitialSpecs), r, c)
  <2>1. \A spec \in ToSet(CombinedSpecs(FirstLens)) \ ToSet(InitialSpecs) :
          \A first \in ToSet(InitialSpecs) : <<first.col, first.n>> # <<spec.col, spec.n>>
    BY <1>4 DEF FirstTwice
  <2> QED
    BY <1>2, <2>1, FirstLeftRead DEF FirstGrid
<1> QED
  BY <1>3, <1>4

LEMMA FirstStep ==
    ASSUME LobIInv, ReadFirst
    PROVE  LobIInv'
<1> DEFINE left == IF SinglePass THEN Unread(CombinedSpecs(FirstLens), InitialSpecs)
                   ELSE CombinedSpecs(FirstLens)
           new == IF SinglePass
                  THEN Appended(FirstRows, FirstLens, InitialSpecs, ToSet(Numbered))
                  ELSE FirstRows
<1>1. /\ out' = new /\ specs' = left /\ lengths' = FirstLens /\ expected' = Stored(Numbered)
      /\ single' = SinglePass /\ step' = "chunks" /\ rowStart' = 1
      /\ UNCHANGED <<table, changes, stale, chosen>>
  BY DEF ReadFirst, Server, FirstLens, FirstRows, Stored
<1>2. LobTypeOK
  BY DEF LobIInv
<1>3. First(new, left)
      /\ (~FirstTwice => \A r \in 1..Len(Numbered), c \in ColIds : FirstGrid(new, left, r, c))
  <2>1. CASE SinglePass
    BY <1>2, <2>1, FirstSinglePass
  <2>2. CASE ~SinglePass
    BY <1>2, <2>2, FirstQuery
  <2> QED
    BY <2>1, <2>2
<1>4. FirstTwice <=> ReadTwice'
  <2>1. single' = SinglePass /\ lengths' = FirstLens
    BY <1>1
  <2> QED
    BY <2>1 DEF FirstTwice, ReadTwice
<1> HIDE DEF new, left
<1>5. FirstShape(Len(Numbered)) /\ Numbered' = Numbered
  <2>1. table' = table /\ chosen' = chosen
    BY <1>1
  <2> QED
    BY <1>2, <2>1, FirstSequences, AsBefore
<1>6. LobTypeOK'
  <2>1. /\ table' \in Seq(RowType) /\ changes' \in Nat
        /\ chosen' \in [ordered : BOOLEAN, limit : Nat]
    BY <1>1, <1>2 DEF LobTypeOK
  <2>2. stale' \in BOOLEAN
    BY <1>1, <1>2 DEF LobTypeOK
  <2>3. rowStart' \in Nat \ {0} /\ specs' \in Seq(ChunkSpec) /\ out' \in Seq(OutRow)
    BY <1>1, <1>3 DEF First
  <2>4. lengths' \in Seq([ColIds -> Lens]) /\ expected' \in Seq(OutRow)
    BY <1>1, <1>5 DEF FirstShape
  <2> QED
    BY <2>1, <2>2, <2>3, <2>4 DEF LobTypeOK
<1>7. SameRows'
  <2>1. Len(out') = Len(Numbered) /\ Len(lengths') = Len(Numbered)
        /\ Len(expected') = Len(Numbered)
    BY <1>1, <1>3, <1>5 DEF First, FirstShape
  <2>2. \A r \in 1..Len(Numbered) : out'[r].id = expected'[r].id
    BY <1>1, <1>2, <1>3, FirstRow DEF First
  <2>3. \A r \in 1..Len(Numbered), c \in ColIds : out'[r].text[c] \in TextOf(lengths'[r][c])
    BY <1>1, <1>3 DEF First
  <2> QED
    BY <2>1, <2>2, <2>3 DEF SameRows
<1>8. AsRead'
  BY <1>1, <1>5 DEF AsRead, FirstLens
<1>9. Chunks'
  <2>1. step' # "done" /\ specs' = left /\ lengths' = FirstLens
    BY <1>1
  <2>2. \A i \in 1..Len(left) : Good(left[i]) /\ Covers(left[i], FirstLens)
    BY <1>3 DEF First
  <2> QED
    BY <2>1, <2>2 DEF Chunks
<1>10. Grid'
  <2>1. ASSUME NEW r \in 1..Len(Numbered), NEW c \in ColIds, FirstGrid(new, left, r, c)
        PROVE  Rebuilt(r, c)'
    <3>1. Passed(r)' = 0
      <4>1. rowStart' = 1 /\ ~(r < 1)
        BY <1>1
      <4> QED
        BY <4>1 DEF Passed
    <3>2. Exact' = Exact
      BY <1>1 DEF Exact
    <3>3. out' = new /\ specs' = left /\ lengths' = FirstLens /\ expected' = Stored(Numbered)
      BY <1>1
    <3>4. PICK p \in Nat, q \in Nat :
            /\ FollowFrom(left, 0, c, p, q)
            /\ FirstLens[r][c] <= End(q, c)
            /\ Upto(new[r].text[c], FirstLens[r][c], c, p, Exact, Stored(Numbered)[r].text[c])
      BY <2>1 DEF FirstGrid
    <3>5. /\ FollowFrom(specs', Passed(r)', c, p, q)
          /\ lengths'[r][c] <= End(q, c)
          /\ Upto(out'[r].text[c], lengths'[r][c], c, p, Exact', expected'[r].text[c])
      BY <3>1, <3>2, <3>3, <3>4
    <3> QED
      BY <3>5 DEF Rebuilt
  <2>2. Len(out') = Len(Numbered)
    BY <1>1, <1>3 DEF First
  <2>3. ~ReadTwice' => \A r \in 1..Len(out'), c \in ColIds : Rebuilt(r, c)'
    BY <1>3, <1>4, <2>1, <2>2
  <2> QED
    BY <2>3 DEF Grid
<1> QED
  BY <1>6, <1>7, <1>8, <1>9, <1>10 DEF LobIInv

-----------------------------------------------------------------------------
(* Every step *)

LEMMA LobStep ==
    ASSUME LobIInv, [LobNext]_chunkVars
    PROVE  LobIInv'
<1>1. CASE UsePrepared
  <2>1. step' = "read"
        /\ UNCHANGED <<table, changes, stale, chosen, single, out, lengths, specs, rowStart,
                       expected>>
    BY <1>1 DEF UsePrepared, Server, Progress
  <2> QED
    BY <2>1, SelectMoves DEF Rebuilding
<1>2. CASE AskCatalog
  <2>1. step' \in {"last resort", "catalog"}
        /\ UNCHANGED <<table, changes, stale, chosen, single, out, lengths, specs, rowStart,
                       expected>>
    BY <1>2 DEF AskCatalog, Server, Progress
  <2> QED
    BY <2>1, SelectMoves DEF Rebuilding
<1>3. CASE CatalogAnswers
  <2>1. step' \in {"read", "native", "failed"}
        /\ UNCHANGED <<table, changes, stale, chosen, single, out, lengths, specs, rowStart,
                       expected>>
    BY <1>3 DEF CatalogAnswers, Server, Progress
  <2> QED
    BY <2>1, SelectMoves DEF Rebuilding
<1>4. CASE ReadFirst
  BY <1>4, FirstStep
<1>5. CASE SkipBatch
  BY <1>5, SkipStep
<1>6. CASE ReadChunks
  BY <1>6, ReadStep
<1>7. CASE Return
  <2>1. step = "chunks" /\ step' = "done" /\ specs = <<>>
        /\ UNCHANGED <<table, changes, stale, chosen, single, out, lengths, specs, rowStart,
                       expected>>
    BY <1>7 DEF Return, Server, Progress
  <2> QED
    BY <2>1, SelectMoves DEF Rebuilding
<1>8. CASE QueryFails
  <2>1. step # "done" /\ (step' = step \/ step' = "failed")
        /\ UNCHANGED <<table, changes, stale, chosen, single, out, lengths, specs, rowStart,
                       expected>>
    BY <1>8 DEF QueryFails, Server, Progress
  <2> QED
    BY <2>1, SelectMoves DEF Rebuilding
<1>9. CASE Change
  BY <1>9, ChangeStep
<1>10. CASE UNCHANGED chunkVars
  <2>1. step' = step
        /\ UNCHANGED <<table, changes, stale, chosen, single, out, lengths, specs, rowStart,
                       expected>>
    BY <1>10 DEF chunkVars
  <2>2. step = "done" => specs = <<>>
    BY DEF LobIInv, Chunks
  <2> QED
    BY <2>1, <2>2, SelectMoves DEF Rebuilding
<1> QED
  BY <1>1, <1>2, <1>3, <1>4, <1>5, <1>6, <1>7, <1>8, <1>9, <1>10 DEF LobNext

\* A LOB none of whose chunks is left is whole.
LEMMA TextWhole ==
    ASSUME LobIInv, step = "done", ~stale, ~chosen.ordered, ~ReadTwice,
           NEW r \in 1..Len(out), NEW c \in ColIds
    PROVE  out[r].text[c] = expected[r].text[c]
<1> DEFINE len == lengths[r][c]
           text == out[r].text[c]
           stored == expected[r].text[c]
<1>1. specs = <<>> /\ Rebuilding /\ Exact
  BY DEF LobIInv, Chunks, Rebuilding, Exact
<1>2. PICK p \in Nat, q \in Nat :
        /\ FollowFrom(specs, Passed(r), c, p, q)
        /\ len <= End(q, c)
        /\ Upto(text, len, c, p, Exact, stored)
  BY <1>1 DEF LobIInv, Grid, Rebuilt
<1>3. p = q
  <2>1. Passed(r) = 0
    BY <1>1 DEF Passed
  <2>2. specs \in Seq(ChunkSpec) /\ Len(specs) = 0
    BY <1>1, EmptySeq
  <2>3. FollowFrom(specs, 0, c, p, q)
    BY <1>2, <2>1
  <2>4. 0 \in Nat /\ 0 >= Len(specs)
    BY <2>2
  <2> HIDE DEF len, text, stored
  <2> QED
    BY <2>2, <2>3, <2>4, FollowEnd
<1>4. r \in 1..Len(lengths) /\ len \in Lens
  BY SameLengths DEF LobIInv
<1>5. Numbered[r].row \in RowType /\ Numbered[r].row.lobs[c].len = len
      /\ stored = Text(Numbered[r].row, c)
  BY <1>1, <1>4, ExactRow DEF LobIInv
<1>6. stored \in TextOf(len) /\ (len # Missing => Len(stored) = len)
  BY <1>5, LobText
<1> HIDE DEF len, text, stored
<1>7. ASSUME len = Missing
      PROVE  text = stored
  BY <1>2, <1>6, <1>7 DEF Upto, TextOf
<1>8. ASSUME len # Missing
      PROVE  text = stored
  <2>1. len \in Nat /\ End(p, c) \in Nat
    <3>1. len \in Nat
      BY <1>4, <1>8, LobBounds
    <3> QED
      BY <3>1, Ends
  <2>2. /\ text \in Seq(Char) /\ Len(text) <= len
        /\ Len(text) = len \/ Len(text) = End(p, c)
        /\ \A i \in 1..Len(text) : text[i] = stored[i]
    BY <1>1, <1>2, <1>8 DEF Upto
  <2>3. Len(text) = len
    <3>1. Len(text) \in Nat
      BY <2>2, LenProperties
    <3> QED
      BY <1>2, <1>3, <2>1, <2>2, <3>1
  <2>4. stored \in Seq(Char) /\ Len(stored) = len
    BY <1>6, <1>8 DEF TextOf
  <2> QED
    BY <2>2, <2>3, <2>4, SeqEqual
<1> QED
  BY <1>7, <1>8 DEF text, stored

LEMMA RowsRebuilt ==
    ASSUME LobIInv
    PROVE  LobsRebuilt
<1> SUFFICES ASSUME step = "done", ~stale, ~chosen.ordered, ~ReadTwice
             PROVE  out = expected
  BY DEF LobsRebuilt
<1>1. /\ out \in Seq(OutRow) /\ expected \in Seq(OutRow) /\ Len(out) = Len(expected)
      /\ \A r \in 1..Len(out) : out[r].id = expected[r].id
  BY DEF LobIInv, LobTypeOK, SameRows
<1>2. ASSUME NEW r \in 1..Len(out)
      PROVE  out[r] = expected[r]
  <2>1. out[r] \in OutRow /\ expected[r] \in OutRow /\ out[r].id = expected[r].id
    BY <1>1, LenProperties
  <2>2. \A c \in ColIds : out[r].text[c] = expected[r].text[c]
    BY TextWhole
  <2>3. out[r].text = expected[r].text
    <3>1. out[r].text \in [ColIds -> TextType] /\ expected[r].text \in [ColIds -> TextType]
      BY <2>1 DEF OutRow
    <3> QED
      BY <2>2, <3>1
  <2>4. out[r] = [id |-> out[r].id, text |-> out[r].text]
        /\ expected[r] = [id |-> expected[r].id, text |-> expected[r].text]
    BY <2>1 DEF OutRow
  <2> QED
    BY <2>1, <2>3, <2>4
<1> QED
  BY <1>1, <1>2, SeqEqual

LEMMA NoneAdded ==
    ASSUME LobIInv
    PROVE  NothingAdded
<1> SUFFICES ASSUME step = "done", ~ReadTwice
             PROVE  /\ [r \in DOMAIN out |-> out[r].id] = [r \in DOMAIN expected |-> expected[r].id]
                    /\ \A r \in DOMAIN out, c \in ColIds :
                         lengths[r][c] # Missing => Len(out[r].text[c]) <= lengths[r][c]
  BY DEF NothingAdded
<1>1. /\ DOMAIN out = 1..Len(out) /\ DOMAIN expected = 1..Len(out)
      /\ \A r \in 1..Len(out) : out[r].id = expected[r].id
  BY LenProperties DEF LobIInv, LobTypeOK, SameRows
<1>2. ASSUME NEW r \in 1..Len(out), NEW c \in ColIds, lengths[r][c] # Missing
      PROVE  Len(out[r].text[c]) <= lengths[r][c]
  <2>1. Rebuilt(r, c)
    BY DEF LobIInv, Grid, Rebuilding
  <2>2. PICK p \in Nat : Upto(out[r].text[c], lengths[r][c], c, p, Exact, expected[r].text[c])
    BY <2>1 DEF Rebuilt
  <2> QED
    BY <1>2, <2>2 DEF Upto
<1> QED
  BY <1>1, <1>2

\* The invariant of a select with LOBs, at every step of every interleaving of
\* its queries with the changes of others and with lost sessions.
THEOREM LobsInvariant == LobSpec => []LobIInv
<1>1. LobInit => LobIInv
  BY StartType
<1>2. LobIInv /\ [LobNext]_chunkVars => LobIInv'
  BY LobStep
<1> QED
  BY <1>1, <1>2, PTL DEF LobSpec

\* The LOBs are rebuilt as they were stored, for every chunk limit, window, batch
\* size and bound on the rows (fetch_zos_lob_combined_chunk_specs,
\* execute_zos_select_lobs_bounded_single_pass, append_zos_lob_chunk_to_value),
\* unless the select has an ORDER BY, the table changed, or a chunk is read twice.
THEOREM LobsAreRebuilt == LobSpec => []LobsRebuilt
<1>1. LobIInv => LobsRebuilt
  BY RowsRebuilt
<1> QED
  BY <1>1, LobsInvariant, PTL

\* Even when other transactions change the table between the queries, the rows
\* returned are those of the first query, and no LOB is longer than it was then
\* (trim_zos_lob_chunk_to_remaining).
THEOREM NothingIsAdded == LobSpec => []NothingAdded
<1>1. LobIInv => NothingAdded
  BY NoneAdded
<1> QED
  BY <1>1, LobsInvariant, PTL
=============================================================================
