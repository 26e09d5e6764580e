---------------------------- MODULE RuleSetCache ----------------------------
(***************************************************************************)
(* The cache behind listRuleSets (rule-engine.service.ts): lists are kept  *)
(* for an hour under the key of a project, or the global key; a list that  *)
(* is forced deletes the global key and its own one, and is stored again.  *)
(* Every get, set and delete of the cache manager is awaited, so that a    *)
(* list may be read before a deletion and stored after it.  The rule sets  *)
(* are changed beside the service, by the seed scripts.                    *)
(***************************************************************************)
EXTENDS Clock

CONSTANTS
    Projects,       \* the keys of projects
    Global,         \* the key of a list without a project
    Lists,          \* the calls of listRuleSets
    Hour,           \* how long a list is kept
    MaxListing,     \* how long a call takes, at most
    MaxVersion,     \* how often the rule sets change, at most
    ListFaults      \* a subset of {"cache", "database"}

ASSUME RuleSetCacheAssumption ==
    /\ Global \notin Projects
    /\ Hour \in Nat /\ MaxListing \in Nat /\ MaxVersion \in Nat
    /\ ListFaults \subseteq {"cache", "database"}

VARIABLES
    version,    \* how often the rule sets have changed
    since,      \* history: when each version became the current one
    cached,     \* the cache: per key, the version of a list and when it expires
    list        \* the calls of listRuleSets

svars == <<version, since, cached, list>>

CacheKeys == Projects \cup {Global}
NoList    == [there |-> FALSE, version |-> 0, expires |-> 0]
ListOpen  == {"get", "global", "own", "find", "set"}
\* at is when the answer was given, floor the version there was when the call began.
NewList   == [pc |-> "unused", key |-> Global, forced |-> FALSE, read |-> 0, born |-> 0,
              at |-> 0, floor |-> 0]

SInit ==
    /\ version = 0
    /\ since = [v \in 0..MaxVersion |-> 0]
    /\ cached = [k \in CacheKeys |-> NoList]
    /\ list = [c \in Lists |-> NewList]

Answer(c, v) == list' = [list EXCEPT ![c].pc = "ended", ![c].read = v, ![c].at = now, ![c].born = 0]

----------------------------------------------------------------------------
(* A broken variant of Begin below; it is no part of the specification *)

\* The cache is asked although the list is forced.
BeginUnforced(c, k, forced) ==
    /\ list[c].pc = "unused"
    /\ list' = [list EXCEPT ![c] = [NewList EXCEPT !.pc = "get", !.key = k, !.forced = forced,
                                      !.born = now, !.floor = version]]
    /\ UNCHANGED <<now, version, since, cached>>

----------------------------------------------------------------------------

\* A seed script, or whoever else writes rule sets, does not tell the cache.
ChangeRuleSets ==
    /\ version < MaxVersion
    /\ version' = version + 1
    /\ since' = [since EXCEPT ![version + 1] = now]
    /\ UNCHANGED <<now, cached, list>>

Begin(c, k, forced) ==
    /\ list[c].pc = "unused"
    /\ list' = [list EXCEPT ![c] = [NewList EXCEPT !.pc = IF forced THEN "global" ELSE "get",
                                      !.key = k, !.forced = forced, !.born = now, !.floor = version]]
    /\ UNCHANGED <<now, version, since, cached>>

Get(c) ==
    /\ list[c].pc = "get"
    /\ LET hit == cached[list[c].key]
       IN  IF hit.there /\ hit.expires >= now THEN Answer(c, hit.version)
                                              ELSE list' = [list EXCEPT ![c].pc = "find"]
    /\ UNCHANGED <<now, version, since, cached>>

\* invalidateRuleSetCache
DeleteGlobal(c) ==
    /\ list[c].pc = "global"
    /\ cached' = [cached EXCEPT ![Global] = NoList]
    /\ list' = [list EXCEPT ![c].pc = IF list[c].key = Global THEN "find" ELSE "own"]
    /\ UNCHANGED <<now, version, since>>

DeleteOwn(c) ==
    /\ list[c].pc = "own"
    /\ cached' = [cached EXCEPT ![list[c].key] = NoList]
    /\ list' = [list EXCEPT ![c].pc = "find"]
    /\ UNCHANGED <<now, version, since>>

\* project.findUnique and ruleSet.findMany: the first changes nothing.
Find(c) ==
    /\ list[c].pc = "find"
    /\ list' = [list EXCEPT ![c].pc = "set", ![c].read = version]
    /\ UNCHANGED <<now, version, since, cached>>

Set(c) ==
    /\ list[c].pc = "set"
    /\ cached' = [cached EXCEPT ![list[c].key] =
                    [there |-> TRUE, version |-> list[c].read, expires |-> now + Hour]]
    /\ Answer(c, list[c].read)
    /\ UNCHANGED <<now, version, since>>

ListFails(c) ==
    /\ \/ "cache" \in ListFaults /\ list[c].pc \in {"get", "global", "own", "set"}
       \/ "database" \in ListFaults /\ list[c].pc = "find"
    /\ list' = [list EXCEPT ![c] = [NewList EXCEPT !.pc = "failed"]]
    /\ UNCHANGED <<now, version, since, cached>>

ListStep(c) ==
    \/ \E k \in CacheKeys, forced \in BOOLEAN : Begin(c, k, forced)
    \/ Get(c) \/ DeleteGlobal(c) \/ DeleteOwn(c) \/ Find(c) \/ Set(c) \/ ListFails(c)

\* Time passes.  Of lists answered in the past and entries that have expired the model keeps
\* no more than that.
SPass ==
    /\ list' = [c \in Lists |-> IF list[c].pc = "ended" THEN [NewList EXCEPT !.pc = "ended"] ELSE list[c]]
    /\ cached' = [k \in CacheKeys |-> IF cached[k].expires < now + 1 THEN NoList ELSE cached[k]]
    /\ since' = [v \in 0..MaxVersion |-> IF v > 0 /\ v <= version /\ since[v] + Hour + MaxListing < now + 1
                                           THEN 0 ELSE since[v]]
    /\ UNCHANGED version

SInTime == \A c \in Lists : list[c].pc \in ListOpen => now < list[c].born + MaxListing

----------------------------------------------------------------------------
(* What the code keeps *)

STypeOK ==
    /\ version \in 0..MaxVersion
    /\ since \in [0..MaxVersion -> Time]
    /\ \A k \in CacheKeys : cached[k].version <= version /\ cached[k].expires <= MaxNow + Hour
    /\ \A c \in Lists : list[c].read <= version

\* A forced list is as new as its call, whatever lists of other calls are stored meanwhile;
\* any other is no older than an hour and the time a call takes, however deletions and
\* lists read before them interleave.
ListsRecent ==
    \A c \in Lists : list[c].pc = "ended" /\ list[c].at = now =>
        /\ list[c].forced => list[c].read >= list[c].floor
        /\ list[c].read < version => since[list[c].read + 1] + Hour + MaxListing >= now
=============================================================================
