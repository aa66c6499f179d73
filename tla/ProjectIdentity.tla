-------------------------- MODULE ProjectIdentity ---------------------------
(***************************************************************************)
(* Which project a memory call works on.  Two resolvers answer that: the   *)
(* tools resolve every target they are given and want one answer, one     *)
(* await per target (tools/project-memory/runtime.ts); the maintenance     *)
(* scheduled by the lifecycle takes the first target that resolves         *)
(* (project-memory/identity.ts).  Both read a registry file other         *)
(* processes rewrite.  Names stand for their normal form: both sides of    *)
(* every comparison go through the same normalisation.                     *)
(***************************************************************************)
EXTENDS Naturals, FiniteSets

CONSTANTS
    Origins, NoOrigin,    \* git remotes
    Aliases,              \* other names of a project
    Worktrees,            \* directories
    Registrars,           \* upserts that may be under way at once
    IdentityCalls,        \* tool calls that may be under way at once
    NoName,               \* a target that is not given
    MaxRemoteChanges, MaxUpserts, MaxTargets, MaxIdentityCalls \* bounds

ASSUME IdentityAssumption ==
    /\ NoOrigin \notin Origins
    /\ NoName \notin Origins \union Aliases \union Worktrees

(* The id of a source is its hash, which tells any two sources apart. *)
ProjectIdFor(s) == [hashOf |-> s]
Unresolved == [status |-> "none"]
Resolved(id, kind) == [status |-> "resolved", id |-> id, kind |-> kind]
Refused(why) == [status |-> why]

IdentityForOrigin(o) == Resolved(ProjectIdFor(o), "origin")

Single(s) == \E x \in s : s = {x}
Several(s) == \E x, y \in s : x # y
Only(s) == CHOOSE x \in s : TRUE

VARIABLES
    remotes,      \* the origin git knows of each directory
    registry,     \* the records of the registry file
    upserting,    \* each upsert: the record, and the file it has read
    asked,        \* the tool calls under way
    worked,       \* the ids that calls and jobs worked on, and how
    jobs,         \* deferred maintenance
    remoteChanges, upserts, identityCalls

identityVars == <<remotes, registry, upserting, asked, worked, jobs,
                  remoteChanges, upserts, identityCalls>>

NotUpserting == [record |-> NoName, read |-> {}]
NotAsked == [mode |-> "none"]

IdentityInit ==
    /\ remotes \in [Worktrees -> Origins \union {NoOrigin}]
    /\ registry = {} /\ upserting = [r \in Registrars |-> NotUpserting]
    /\ asked = [c \in IdentityCalls |-> NotAsked]
    /\ worked = {} /\ jobs = {}
    /\ remoteChanges = 0 /\ upserts = 0 /\ identityCalls = 0

(***************************************************************************)
(* A directory's own identity: the hash of its origin, else of its path.   *)
(***************************************************************************)
OfDirectory(d) ==
    IF remotes[d] # NoOrigin THEN IdentityForOrigin(remotes[d])
    ELSE Resolved(ProjectIdFor(d), "path")

RemoteChanges(d) ==
    /\ remoteChanges < MaxRemoteChanges
    /\ remoteChanges' = remoteChanges + 1
    /\ \E o \in Origins \union {NoOrigin} : remotes' = [remotes EXCEPT ![d] = o]
    /\ UNCHANGED <<registry, upserting, asked, worked, jobs, upserts,
                   identityCalls>>

(***************************************************************************)
(* A record is what a directory resolves to, with its names.  An upsert    *)
(* reads the file, and writes all it read back with the record replaced.   *)
(***************************************************************************)
UpsertReads(r) ==
    /\ upserts < MaxUpserts /\ upserts' = upserts + 1
    /\ upserting[r] = NotUpserting
    /\ \E d \in Worktrees, as \in SUBSET Aliases :
         upserting' = [upserting EXCEPT ![r] =
            [record |-> [id |-> OfDirectory(d).id, origin |-> remotes[d],
                         aliases |-> as, worktrees |-> {d}],
             read |-> registry]]
    /\ UNCHANGED <<remotes, registry, asked, worked, jobs, remoteChanges,
                   identityCalls>>

Merged(records, new) == {old \in records : old.id # new.id} \union {new}

UpsertWrites(r) ==
    /\ upserting[r] # NotUpserting
    /\ registry' = Merged(upserting[r].read, upserting[r].record)
    /\ upserting' = [upserting EXCEPT ![r] = NotUpserting]
    /\ UNCHANGED <<remotes, asked, worked, jobs, remoteChanges, upserts,
                   identityCalls>>

ByAlias(n) == {r \in registry : n \in r.aliases}
ByOrigin(o) == {r \in registry : r.origin = o}
ByWorktree(d) == {r \in registry : d \in r.worktrees}

(***************************************************************************)
(* The tools.  A record without an origin counts as one with an origin.    *)
(***************************************************************************)
FieldPriority ==
    <<"origin", "target", "alias", "worktree", "session", "lifecycle">>
Fields == {FieldPriority[i] : i \in 1..6}
Given(args) == {f \in Fields : args[f] # NoName}
NoTargets == [f \in Fields |-> NoName]

TargetsOfAnySize ==
    [origin : Origins \union {NoName},
     target : Origins \union Aliases \union {NoName},
     alias : Aliases \union {NoName}, worktree : Worktrees \union {NoName},
     session : Origins \union {NoName}, lifecycle : Origins \union {NoName}]

Targets == {args \in TargetsOfAnySize : Cardinality(Given(args)) <= MaxTargets}

\* Mutant: a record stands for its directory, not for its origin.
ForToolsByPath(record) == Resolved(ProjectIdFor(Only(record.worktrees)),
                                   "origin")

ForTools(record) ==
    IF record.origin # NoOrigin THEN IdentityForOrigin(record.origin)
    ELSE Resolved(record.id, "origin")

OriginFields == {"origin", "session", "lifecycle"}

Candidate(f, v) ==
    LET matches == IF f = "worktree" THEN ByWorktree(v) ELSE ByAlias(v)
    IN  IF f \in OriginFields THEN IdentityForOrigin(v)
        ELSE IF Several(matches) THEN Refused("ambiguous")
        ELSE IF Single(matches) THEN ForTools(Only(matches))
        ELSE IF f = "target" THEN IdentityForOrigin(v)
        ELSE Refused("unknown")

AskingStarts(c) ==
    /\ identityCalls < MaxIdentityCalls /\ asked[c] = NotAsked
    /\ \E args \in Targets, d \in Worktrees, m \in {"read", "write"} :
         asked' = [asked EXCEPT ![c] = [mode |-> m, args |-> args,
                        directory |-> d, left |-> Given(args), found |-> {}]]
    /\ identityCalls' = identityCalls + 1
    /\ UNCHANGED <<remotes, registry, upserting, worked, jobs, remoteChanges,
                   upserts>>

(* The next target is looked up; one that is refused ends the call. *)
IsNextField(i, left) ==
    /\ FieldPriority[i] \in left
    /\ \A j \in 1..(i - 1) : FieldPriority[j] \notin left

FieldResolved(c) ==
    /\ asked[c] # NotAsked
    /\ \E i \in 1..6 :
         LET f == FieldPriority[i]
             it == Candidate(f, asked[c].args[f])
         IN  /\ IsNextField(i, asked[c].left)
             /\ asked' = [asked EXCEPT ![c] =
                   IF it.status # "resolved" THEN NotAsked
                   ELSE [asked[c] EXCEPT !.left = @ \ {f},
                                         !.found = @ \union {it}]]
    /\ UNCHANGED <<remotes, registry, upserting, worked, jobs, remoteChanges,
                   upserts, identityCalls>>

\* Mutant: targets that name two projects do not stop the call.
SettledOnAny(found, d) ==
    IF found = {} THEN OfDirectory(d) ELSE Only(found)

Settled(found, d) ==
    IF found = {} THEN OfDirectory(d)
    ELSE IF Several(found) THEN Refused("ambiguous")
    ELSE Only(found)

Permits(mode, it) == it.status = "resolved" /\ (mode = "read" \/
                                                it.kind = "origin")

(* The call does its work with what it found, or refuses. *)
AskingEnds(c) ==
    /\ asked[c] # NotAsked /\ asked[c].left = {}
    /\ LET it == Settled(asked[c].found, asked[c].directory)
       IN  worked' = worked \union
             (IF Permits(asked[c].mode, it)
              THEN {[by |-> asked[c].mode, id |-> it.id,
                     args |-> asked[c].args]}
              ELSE {})
    /\ asked' = [asked EXCEPT ![c] = NotAsked]
    /\ UNCHANGED <<remotes, registry, upserting, jobs, remoteChanges, upserts,
                   identityCalls>>

(***************************************************************************)
(* The scheduler's resolver.  The explicit target has four fields, a       *)
(* session's and a lifecycle's target are tried after it.                  *)
(***************************************************************************)
IdentityForRecord(record) ==
    Resolved(record.id, IF record.origin # NoOrigin THEN "origin" ELSE "path")

Matches(t) ==
    IF t.alias # NoName THEN ByAlias(t.alias)
    ELSE IF t.origin # NoName THEN ByOrigin(t.origin)
    ELSE IF t.worktree # NoName THEN ByWorktree(t.worktree)
    ELSE {}

ResolveTarget(t, explicit) ==
    LET bare == t.alias = NoName /\ t.worktree = NoName
        matches == Matches(t)
    IN  IF t.origin # NoName /\ bare THEN IdentityForOrigin(t.origin)
        ELSE IF Single(matches) THEN IdentityForRecord(Only(matches))
        ELSE IF Several(matches) THEN Refused("ambiguous")
        ELSE IF ~ bare /\ explicit THEN Refused("blocked")
        ELSE Unresolved

ResolveDirectory(d) ==
    LET matches == ByWorktree(d)
    IN  IF Single(matches) THEN IdentityForRecord(Only(matches))
        ELSE IF Several(matches) THEN Refused("ambiguous")
        ELSE OfDirectory(d)

ResolveIdentity(args, d) ==
    LET explicit == ResolveTarget(args, TRUE)
    IN  IF explicit # Unresolved THEN explicit
        ELSE IF args.session # NoName THEN IdentityForOrigin(args.session)
        ELSE IF args.lifecycle # NoName THEN IdentityForOrigin(args.lifecycle)
        ELSE ResolveDirectory(d)

AssertMaintenance(it) == Permits("maintenance", it)

(***************************************************************************)
(* A finished issue schedules maintenance of its directory; the deferred   *)
(* worker is given neither store nor identity, fails before it takes the   *)
(* lock, and the failure is all the journal gets.  One job at a time.      *)
(***************************************************************************)
MaintenanceScheduled(d) ==
    /\ jobs = {}
    /\ LET it == ResolveIdentity(NoTargets, d)
       IN  AssertMaintenance(it) /\ jobs' = {it.id}
    /\ UNCHANGED <<remotes, registry, upserting, asked, worked, remoteChanges,
                   upserts, identityCalls>>

JobFails ==
    /\ \E id \in jobs :
         jobs' = jobs \ {id}
    /\ UNCHANGED <<remotes, registry, upserting, asked, worked, remoteChanges,
                   upserts, identityCalls>>

IdentityNext ==
    \/ \E d \in Worktrees : RemoteChanges(d) \/ MaintenanceScheduled(d)
    \/ \E r \in Registrars : UpsertReads(r) \/ UpsertWrites(r)
    \/ \E c \in IdentityCalls :
         AskingStarts(c) \/ FieldResolved(c) \/ AskingEnds(c)
    \/ JobFails

IdentitySpec == IdentityInit /\ [][IdentityNext]_identityVars
-----------------------------------------------------------------------------
ProjectIds == {ProjectIdFor(s) : s \in Origins \union Aliases \union Worktrees}

\* A record with an origin has the id of that origin: it was resolved so.
RegistryRecords ==
    {r \in [id : ProjectIds, origin : Origins \union {NoOrigin},
            aliases : SUBSET Aliases, worktrees : SUBSET Worktrees] :
     r.origin # NoOrigin => r.id = ProjectIdFor(r.origin)}

Identities == [status : {"resolved"}, id : ProjectIds,
               kind : {"origin", "path"}]

\* A call has only targets left that it was given.
Askings ==
    {call \in [mode : {"read", "write"}, args : TargetsOfAnySize,
               directory : Worktrees, left : SUBSET Fields,
               found : SUBSET Identities] :
     call.left \subseteq Given(call.args)}

(* The types; the registry file holds whole records only (registry.ts).    *)
IdentityTypeOK ==
    /\ remotes \in [Worktrees -> Origins \union {NoOrigin}]
    /\ registry \subseteq RegistryRecords
    /\ upserting \in [Registrars ->
          {NotUpserting} \union
          [record : RegistryRecords, read : SUBSET RegistryRecords]]
    /\ asked \in [IdentityCalls -> {NotAsked} \union Askings]

UniqueIn(records) == \A r, s \in records : r.id = s.id => r = s

(* What an upsert read had one record per project when it was read, and it *)
(* stays so while the file changes under it (registry.ts:99-104).          *)
ReadsAreUnique == \A r \in Registrars : UniqueIn(upserting[r].read)

(* A call that is done with a field that names an origin has found that    *)
(* origin's project: nothing drops it (runtime.ts:103-125).                *)
FoundWhatIsNamed ==
    \A c \in IdentityCalls : asked[c] # NotAsked =>
        \A f \in (OriginFields \intersect Given(asked[c].args))
                    \ asked[c].left :
            IdentityForOrigin(asked[c].args[f]) \in asked[c].found

(* No two records of the registry have the same project, however upserts   *)
(* overtake each other (registry.ts:99-104).                               *)
RecordsAreUnique == UniqueIn(registry)

(* Whatever targets the tools accept, the maintenance of the same targets  *)
(* works on the same project or refuses: the two resolvers, which look at  *)
(* the targets in different orders and read different fields of a record,  *)
(* never take two projects for one another (runtime.ts:103-125 and         *)
(* identity.ts:103-128).                                                   *)
ResolversAgree ==
    \A c \in {b \in IdentityCalls : asked[b] # NotAsked} :
        LET args == asked[c].args
            found == {Candidate(f, args[f]) : f \in Given(args)}
            theirs == ResolveIdentity(args, asked[c].directory)
        IN  (/\ Given(args) # {} /\ args.target = NoName
             /\ \A it \in found : it.status = "resolved"
             /\ Single(found)
             /\ AssertMaintenance(theirs)) =>
               theirs.id = Only(found).id

(* What a call writes is stored under a project its own targets name: two  *)
(* targets that name two projects never pass (runtime.ts:118-122).         *)
WritesNameOneProject ==
    \A w \in worked : w.by = "write" =>
        \A f \in OriginFields :
            w.args[f] # NoName => w.id = ProjectIdFor(w.args[f])

IdentityInv ==
    /\ IdentityTypeOK /\ RecordsAreUnique /\ ReadsAreUnique
    /\ FoundWhatIsNamed /\ ResolversAgree /\ WritesNameOneProject
=============================================================================
