------------------------------ MODULE ZosSelect ------------------------------
(***************************************************************************)
(* The cache of prepared selects that a client keeps on Db2 for z/OS       *)
(* (ClientInner::execute_query, connection.rs): a SELECT without           *)
(* parameters is prepared in a section of its own, and the next time it is *)
(* opened without a prepare.  The sections come from the pool that         *)
(* prepared statements use too; what a SELECT describes, and the SELECTs   *)
(* known to return LOBs, are shared by all clients of the process.         *)
(*                                                                         *)
(* A step is what runs between two awaits.  The environment switches that  *)
(* govern the cache have their defaults; the SELECTs that run inside the   *)
(* reading of LOBs (zos_lob_internal_depth > 0) bypass the cache.          *)
(***************************************************************************)
EXTENDS Integers, Sequences, FiniteSets, SequencesExt

CONSTANTS
    Selects,       \* the texts of the SELECTs the program runs
    Like,          \* those with a LIKE predicate, which need the large package
    LobColumns,    \* those described with a LOB column
    LobValues,     \* those that return LOB values which no column announced
    MaxSection,    \* PREPARED_STATEMENT_MAX_SECTION
    MaxEntries,    \* ZOS_SELECT_CACHE_MAX_ENTRIES
    MaxSelects     \* bound on the calls of execute_query

ASSUME ZosSelectAssumption ==
    /\ Like \cup LobColumns \cup LobValues \subseteq Selects
    /\ {"none", "statement"} \cap Selects = {}
    /\ {MaxSection, MaxEntries, MaxSelects} \subseteq Nat /\ MaxSection > 0

Direct == 1                        \* ZOS_DIRECT_QUERY_SECTION
Packages == {"direct", "prepared"} \* DIRECT_QUERY_PKGID, PREPARED_STATEMENT_PKGID
PackageOf(q, section) ==
    IF q \in Like /\ section # 0 THEN "prepared" ELSE "direct"

VARIABLES
    freeSections,  \* free_prepared_sections, a stack
    nextSection,   \* next_prepared_section
    cached,        \* zos_select_cache: the section of each SELECT, 0 for none
    described,     \* ZOS_SELECT_METADATA_CACHE
    denied,        \* ZOS_SELECT_LOB_CACHE_DENYLIST
    server,        \* the statement prepared in each section of each package
    held,          \* the sections of the program's prepared statements
    lost,          \* the sections of dropped calls, which nobody will release
    lobs,          \* the SELECTs that have returned LOBs to this client
    call,          \* execute_query
    selects        \* calls so far

zosVars == <<freeSections, nextSection, cached, described, denied, server, held,
             lost, lobs, call, selects>>
pool == <<freeSections, nextSection, lost>>
world == <<described, denied>>

Idle == [step |-> "idle", sql |-> "none", section |-> 0, keep |-> FALSE,
         listed |-> FALSE]
Unprepared == [p \in Packages |-> [s \in 1..MaxSection |-> "none"]]

ZosInit ==
    /\ freeSections = <<>> /\ nextSection = 1 /\ lost = {}
    /\ cached = [q \in Selects |-> 0]
    /\ described = {} /\ denied = {} /\ lobs = {}
    /\ server = Unprepared /\ held = {}
    /\ call = Idle /\ selects = 0
-----------------------------------------------------------------------------
(* Sections *)

\* allocate_prepared_section; 0 when the package has no section left.
Allocate(free, next) ==
    IF free # <<>> THEN [section |-> Last(free), free |-> Front(free), next |-> next]
    ELSE IF next <= MaxSection
         THEN [section |-> next, free |-> free, next |-> next + 1]
         ELSE [section |-> 0, free |-> free, next |-> next]

AllocateAny(free, next) == Allocate(free, next)   \* mutant: section 1 is as good

\* allocate_zos_cached_select_section: section 1 is where direct queries are
\* prepared; it is passed over and not put back.
AllocateCached(free, next) ==
    LET first == Allocate(free, next)
    IN  IF first.section = Direct THEN Allocate(first.free, first.next) ELSE first

ReleaseNothing(free, s) == free           \* mutant: the section is forgotten

\* release_prepared_section.
Release(free, s) ==
    IF s = 0 \/ s > MaxSection \/ s \in ToSet(free) THEN free ELSE Append(free, s)

Drop(cache, q) == [cache EXCEPT ![q] = 0]
-----------------------------------------------------------------------------
(* One call *)

\* The plan of a prepare: a section to keep while the cache has room, a section
\* for this call only where the direct package is too small, or section 1.
Plan(q, free, cache, listed) ==
    LET room == ~listed /\ Cardinality({s \in Selects : cache[s] # 0}) < MaxEntries
        took == IF room THEN AllocateCached(free, nextSection)
                ELSE [section |-> 0, free |-> free, next |-> nextSection]
        got  == IF took.section = 0 /\ q \in Like
                THEN AllocateCached(took.free, took.next) ELSE took
    IN  /\ call' = [step |-> "prepare", sql |-> q, section |-> got.section,
                    keep |-> took.section # 0, listed |-> listed]
        /\ freeSections' = got.free /\ nextSection' = got.next
        /\ cached' = cache
        /\ UNCHANGED lost

Start(q) ==
    /\ call.step = "idle" /\ selects < MaxSelects
    /\ selects' = selects + 1
    /\ IF q \notin denied /\ cached[q] # 0
       THEN /\ call' = [step |-> "reopen", sql |-> q, section |-> cached[q],
                        keep |-> TRUE, listed |-> FALSE]
            /\ UNCHANGED <<pool, cached>>
       ELSE Plan(q, Release(freeSections, cached[q]), Drop(cached, q), q \in denied)
    /\ UNCHANGED <<world, server, held, lobs>>

Returns(q, rows) ==
    q \in LobColumns \/ (rows /\ q \in LobValues)

\* A cached section is opened again.  An empty result is not believed; a result
\* with LOBs ends the caching of the SELECT.
Reopened(rows) ==
    LET q == call.sql
        lob == Returns(q, rows)
    IN  /\ call.step = "reopen"
        /\ server[PackageOf(q, call.section)][call.section] # "none"
        /\ lobs' = IF lob THEN lobs \cup {q} ELSE lobs
        /\ CASE ~rows ->
                  /\ Plan(q, Release(freeSections, call.section), Drop(cached, q), FALSE)
                  /\ described' = described \ {q}
                  /\ UNCHANGED denied
             [] rows /\ lob ->
                  /\ freeSections' = Release(freeSections, call.section)
                  /\ cached' = Drop(cached, q)
                  /\ denied' = denied \cup {q}
                  /\ described' = described \ {q}
                  /\ call' = Idle
                  /\ UNCHANGED <<nextSection, lost>>
             [] OTHER -> call' = Idle /\ UNCHANGED <<pool, cached, world>>
        /\ UNCHANGED <<server, held, selects>>

\* -514, -518 and -805 say that the section no longer holds the statement;
\* another error is returned and the entry stays.
ReopenRefused(unprepared) ==
    /\ call.step = "reopen"
    /\ IF unprepared
       THEN Plan(call.sql, Release(freeSections, call.section),
                 Drop(cached, call.sql), FALSE)
       ELSE call' = Idle /\ UNCHANGED <<pool, cached>>
    /\ UNCHANGED <<world, server, held, lobs, selects>>

Target == IF call.section = 0 THEN Direct ELSE call.section

\* The statement is prepared, and described unless it was already.
Prepared ==
    LET q == call.sql
    IN  /\ call.step = "prepare"
        /\ server' = [server EXCEPT ![PackageOf(q, call.section)][Target] = q]
        /\ described' = IF q \in LobColumns THEN described ELSE described \cup {q}
        /\ call' = [call EXCEPT !.step = "open"]
        /\ UNCHANGED <<pool, cached, denied, held, lobs, selects>>

GiveUp ==
    /\ call.step \in {"prepare", "open"}
    /\ freeSections' = Release(freeSections, call.section)
    /\ call' = Idle
    /\ UNCHANGED <<nextSection, lost, cached, world, server, held, lobs, selects>>

KeepsAny(q, lob) == call.keep /\ q \notin LobColumns   \* mutant: the rows are ignored

\* zos_select_section_cacheable, and no LOB came back.
Keeps(q, lob) == call.keep /\ q \notin LobColumns /\ ~lob

\* The freshly prepared section is opened; it is cached or released.
Opened(rows) ==
    LET q == call.sql
        lob == Returns(q, rows)
    IN  /\ call.step = "open"
        /\ lobs' = IF lob THEN lobs \cup {q} ELSE lobs
        /\ denied' = IF lob THEN denied \cup {q} ELSE denied
        /\ described' = IF lob THEN described \ {q} ELSE described
        /\ IF Keeps(q, lob)
           THEN cached' = [cached EXCEPT ![q] = call.section] /\ UNCHANGED freeSections
           ELSE /\ freeSections' = Release(freeSections, call.section)
                /\ UNCHANGED cached
        /\ call' = Idle
        /\ UNCHANGED <<nextSection, lost, server, held, selects>>
-----------------------------------------------------------------------------
(* The rest of the client, and the world *)

\* The caller drops the future: what the call had allocated is forgotten.
DropCall ==
    /\ call.step # "idle"
    /\ lost' = IF call.step = "reopen" \/ call.section = 0 THEN lost
               ELSE lost \cup {call.section}
    /\ call' = Idle
    /\ UNCHANGED <<freeSections, nextSection, cached, world, server, held, lobs,
                   selects>>

\* Client::prepare and PreparedStatement::close, from the same pool of sections.
PrepareStatement ==
    LET got == Allocate(freeSections, nextSection)
    IN  /\ call.step = "idle" /\ held = {} /\ got.section # 0
        /\ freeSections' = got.free /\ nextSection' = got.next
        /\ held' = {got.section}
        /\ server' = [server EXCEPT !["prepared"][got.section] = "statement"]
        /\ UNCHANGED <<lost, cached, world, lobs, call, selects>>

CloseStatement ==
    /\ call.step = "idle"
    /\ \E s \in held :
          freeSections' = Release(freeSections, s) /\ held' = held \ {s}
    /\ UNCHANGED <<nextSection, lost, cached, world, server, lobs, call, selects>>

\* reset_session_state: a fatal error, a timeout, or the program reconnects.
ResetZosSession ==
    /\ freeSections' = <<>> /\ nextSection' = 1 /\ lost' = {}
    /\ cached' = [q \in Selects |-> 0] /\ held' = {}
    /\ server' = Unprepared /\ call' = Idle
    /\ UNCHANGED <<world, lobs, selects>>

\* DDL and REBIND: the server forgets what it had prepared.
Invalidate(q) ==
    /\ server' = [p \in Packages |-> [s \in 1..MaxSection |->
                    IF server[p][s] = q THEN "none" ELSE server[p][s]]]
    /\ call.step = "idle"
    /\ UNCHANGED <<pool, cached, world, held, lobs, call, selects>>

\* Another client of the process met LOBs in the result of q.
OtherClient(q) ==
    /\ q \in LobColumns \cup LobValues
    /\ denied' = denied \cup {q} /\ described' = described \ {q}
    /\ UNCHANGED <<pool, cached, server, held, lobs, call, selects>>

ZosNext ==
    \/ \E q \in Selects : Start(q) \/ Invalidate(q) \/ OtherClient(q)
    \/ \E rows \in BOOLEAN : Reopened(rows) \/ Opened(rows)
    \/ \E unprepared \in BOOLEAN : ReopenRefused(unprepared)
    \/ Prepared \/ GiveUp \/ DropCall
    \/ PrepareStatement \/ CloseStatement \/ ResetZosSession

ZosSpec == ZosInit /\ [][ZosNext]_zosVars
-----------------------------------------------------------------------------
(* Properties *)

InCall == IF call.step \in {"prepare", "open"} /\ call.section # 0
          THEN {call.section} ELSE {}
InCache == {cached[q] : q \in Selects} \ {0}

\* Every section handed out so far is free, or belongs to one cached SELECT, to
\* the call under way or to a prepared statement, and to one of them only.  Two
\* exceptions: section 1, which the cache passes over without putting it back,
\* and what a dropped call held.
SectionsAccounted ==
    LET owned == ToSet(freeSections) \cup InCache \cup InCall \cup held \cup lost
    IN  /\ (1..(nextSection - 1)) \ {Direct} \subseteq owned
        /\ owned \subseteq 1..(nextSection - 1)
        /\ Cardinality(owned) =
              Len(freeSections) + Cardinality({q \in Selects : cached[q] # 0})
                + Cardinality(InCall) + Cardinality(held) + Cardinality(lost)
        /\ Cardinality(InCache) <= MaxEntries

\* A section that is opened holds the SELECT that was asked for, or nothing (and
\* the server says so), and a prepared statement's section holds that statement.
OpensItsOwnSelect ==
    /\ call.step \in {"reopen", "open"} =>
          server[PackageOf(call.sql, call.section)][Target] \in {call.sql, "none"}
    /\ \A s \in held : server["prepared"][s] = "statement"

\* A SELECT that has returned LOBs to this client is not cached: the LOBs of a
\* later result would be read by the path for rows without LOBs.
LobsAreNotCached ==
    \A q \in Selects : cached[q] # 0 => q \notin LobColumns \cup lobs
=============================================================================
