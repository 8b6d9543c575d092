------------------------- MODULE GitRegistryProofs -------------------------
(***************************************************************************)
(* What the git registry keeps, for every remote, history, set of names    *)
(* and configurations, and for any number of processes, pulls, pushes,     *)
(* kills and failures.  The cache directory is not locked: a pull is       *)
(* promised nothing once another process has written to it (crossed).      *)
(***************************************************************************)
EXTENDS GitRegistry, FiniteSetTheorems, TLAPS

\* A clone of a Branch that is a tag fetches that tag by force.
NoBranchIsTag == \A c \in Configs, t \in Tags : t[1] # c.branch

Refs == [AllNames -> Target]

CacheType ==
    [exists : BOOLEAN,
     refspec : {"none", "all", "branch", "tag"} \X (AllNames \cup {NoName}),
     heads : Refs, tags : Refs, localBranch : Target, shallow : Target,
     objects : SUBSET Commits, head : Target \cup {Torn}]

ConfigType ==
    [branch : AllNames \cup {NoName}, ref : AllNames \cup {NoName}, force : BOOLEAN]

Working == {"remove", "sync", "tag", "resolve", "checkout", "load"}

Results ==
    {"none", "ok", "invalid", "ambiguous", "git failed", "probe failed", "load failed",
     "unknown", "stale cache", "absent", "shallow commit", "no directory", "remove failed"}

JobType ==
    [pc : {"idle", "done"} \cup Working, cfg : ConfigType, sha : Target, tip : Target,
     res : Results]

RemoteOK == remote \in [heads : Refs, tags : Refs]

\* A cache names what it has, and without a .git it has nothing.
CacheOK(c) ==
    /\ c \in CacheType
    /\ \A n \in AllNames : c.heads[n] \in c.objects \cup {None} /\ c.tags[n] \in c.objects \cup {None}
    /\ c.refspec[1] \in {"branch", "tag"} => c.refspec[2] \in AllNames
    /\ ~c.exists => c.refspec[1] = "none" /\ c.objects = {}

\* A pull has a configuration, and a result when it is done.
JobOK(j) ==
    /\ j \in JobType
    /\ j.pc # "idle" => j.cfg \in Configs
    /\ j.pc # "done" => j.res = "none"

JobsOK == job \in [Procs -> JobType] /\ \A p \in Procs : JobOK(job[p])

TypeInv ==
    /\ RemoteOK
    /\ CacheOK(cache)
    /\ JobsOK
    /\ index \in [Procs -> Target \cup {Torn}]
    /\ pinned \in Refs /\ steady \in BOOLEAN /\ crossed \in SUBSET Procs
    /\ moves \in 0..MaxMoves /\ pulls \in 0..MaxPulls /\ kills \in 0..MaxKills

\* Pulls that have a commit, and what the cache says of the name it was found by.
HasCommit(j) == j.pc \in {"checkout", "load"} \/ (j.pc = "done" /\ j.res = "ok")

Came(p) == job[p].pc = "done" /\ job[p].res = "ok"

\* What is checked out is the commit; a mixture only where Force did not make room for it.
Whole(p, h) == h = job[p].sha \/ (h = Torn /\ ~job[p].cfg.force)

\* A pull with Force works in what it cloned.
Fresh(p) ==
    job[p].cfg.force =>
        /\ job[p].pc = "sync" => ~cache.exists
        /\ job[p].pc \in {"tag", "resolve", "checkout", "load"} => cache.head # Torn

Judged(p) ==
    /\ HasCommit(job[p]) =>
         /\ job[p].sha # None
         /\ job[p].cfg.ref = NoName => job[p].sha = cache.heads[job[p].cfg.branch]
         /\ job[p].cfg.ref # NoName => Agreed(job[p].cfg.ref) = {job[p].sha}
    /\ job[p].pc = "load" => Whole(p, cache.head)
    /\ Came(p) => Whole(p, index[p])
    /\ Fresh(p)

JudgeOK(p) == p \notin crossed => Judged(p)

JudgeInv == TypeInv /\ \A p \in Procs : JudgeOK(p)

\* What was pulled by name is where the cache has it; no refspec forces a tag.
PinInv ==
    /\ \A n \in AllNames : pinned[n] # None => cache.tags[n] = pinned[n]
    /\ \A n \in AllNames : remote.tags[n] # None => \E t \in Tags : t[1] = n
    /\ cache.refspec[1] # "tag"

\* Branches of a cache with a narrow refspec; the wanted one is where the remote had it.
HeadsOK(c) ==
    /\ c.refspec[1] \in {"none", "tag"} => \A n \in AllNames : c.heads[n] = None
    /\ c.refspec[1] = "branch" => \A n \in AllNames : n # c.refspec[2] => c.heads[n] = None

TipOK(p) ==
    (job[p].pc \in Working \ {"remove", "sync"} \/ Came(p)) /\ p \notin crossed =>
        (job[p].tip # None => cache.heads[Wanted(p)] \in {job[p].tip, None})

TipInv == HeadsOK(cache) /\ \A p \in Procs : TipOK(p)

\* A forced pull of a Ref clones all, and resolves in what it cloned.
ForceOK(p) ==
    job[p].cfg.ref # NoName /\ job[p].cfg.force /\ p \notin crossed =>
        /\ job[p].pc = "sync" => ~cache.exists
        /\ job[p].pc # "tag"
        /\ job[p].pc = "resolve" /\ steady =>
             cache.heads = remote.heads /\ cache.tags = remote.tags
        /\ steady => job[p].res # "stale cache"

ForceInv == \A p \in Procs : ForceOK(p)

-----------------------------------------------------------------------------
(* What git makes of a cache. *)

LEMMA NoCacheOK == CacheOK(NoCache) /\ HeadsOK(NoCache) /\ NoCache.refspec[1] # "tag"
BY GitAssumption DEF NoCache, CacheOK, CacheType, Refs, Target, HeadsOK

LEMMA ReachableType ==
    ASSUME NEW cs
    PROVE  Reachable(cs) \subseteq Commits /\ cs \cap Commits \subseteq Reachable(cs)
BY GitAssumption DEF Reachable

LEMMA AboveType ==
    ASSUME NEW c \in Commits, NEW floor \in Target
    PROVE  Above(c, floor) \subseteq Commits /\ c \in Above(c, floor)
<1>1. Reachable({c}) = Ancestors[c]
  BY GitAssumption DEF Reachable
<1>2. Ancestors[c] \subseteq Commits /\ c \in Ancestors[c]
  BY GitAssumption
<1>3. CASE floor = None \/ floor \notin Reachable({c})
  BY <1>1, <1>2, <1>3 DEF Above
<1>4. CASE floor # None /\ floor \in Reachable({c})
  <2>1. floor \in Commits /\ floor \in Ancestors[c]
    BY <1>1, <1>4 DEF Target
  <2>2. c \in Ancestors[floor] => c = floor
    BY <2>1, GitAssumption
  <2>3. Above(c, floor) = Ancestors[c] \ (Ancestors[floor] \ {floor})
    BY <1>1, <1>4 DEF Above
  <2> QED
    BY <1>2, <2>2, <2>3
<1> QED
  BY <1>3, <1>4

\* A full clone has every branch and tag.
LEMMA FullCloneOK ==
    ASSUME RemoteOK, NEW b \in AllNames
    PROVE  /\ CacheOK(FullClone(b)) /\ FullClone(b).exists
           /\ FullClone(b).refspec[1] = "all"
           /\ FullClone(b).heads = remote.heads /\ FullClone(b).tags = remote.tags
           /\ FullClone(b).head \in Target
<1> DEFINE objs == Reachable(Range2(remote.heads) \cup Range2(remote.tags))
<1> DEFINE at == IF remote.heads[b] # None THEN remote.heads[b] ELSE remote.tags[b]
<1>1. objs \subseteq Commits
  BY ReachableType
<1>2. \A n \in AllNames :
        remote.heads[n] \in objs \cup {None} /\ remote.tags[n] \in objs \cup {None}
  <2>1. (Range2(remote.heads) \cup Range2(remote.tags)) \cap Commits \subseteq objs
    BY ReachableType
  <2>2. \A n \in AllNames : remote.heads[n] \in Target /\ remote.tags[n] \in Target
    BY DEF RemoteOK, Refs
  <2> QED
    BY <2>1, <2>2 DEF Range2, Target
<1>3. remote.heads \in Refs /\ remote.tags \in Refs
  BY DEF RemoteOK
<1>4. remote.heads[b] \in Target /\ at \in Target
  BY <1>3 DEF Refs
<1> HIDE DEF objs, at
<1>5. /\ FullClone(b).exists /\ FullClone(b).refspec = <<"all", NoName>>
      /\ FullClone(b).heads = remote.heads /\ FullClone(b).tags = remote.tags
      /\ FullClone(b).objects = objs /\ FullClone(b).head = at
  BY DEF FullClone, NoCache, objs, at
<1>6. FullClone(b) \in CacheType
  BY <1>1, <1>3, <1>4 DEF FullClone, NoCache, objs, at, CacheType, Target
<1> QED
  BY <1>2, <1>4, <1>5, <1>6 DEF CacheOK

\* A shallow clone has the tip of a branch or, where there is none, of a tag.
LEMMA ShallowCloneOK ==
    ASSUME RemoteOK, NEW b \in AllNames, RemoteHas(b)
    PROVE  /\ CacheOK(ShallowClone(b)) /\ HeadsOK(ShallowClone(b)) /\ ShallowClone(b).exists
           /\ ShallowClone(b).refspec[1] = "tag" => remote.tags[b] # None
           /\ ShallowClone(b).heads[b] = remote.heads[b] /\ ShallowClone(b).head \in Target
<1> DEFINE tip == IF remote.heads[b] # None THEN remote.heads[b] ELSE remote.tags[b]
<1> DEFINE kind == IF remote.heads[b] # None THEN "branch" ELSE "tag"
<1> DEFINE hs == [n \in AllNames |-> IF n = b THEN remote.heads[b] ELSE None]
<1> DEFINE ts == [n \in AllNames |-> IF remote.tags[n] = tip THEN tip ELSE None]
<1>1. remote.heads[b] \in Target /\ remote.tags[b] \in Target
  BY DEF RemoteOK, Refs
<1>2. tip \in Commits
  BY <1>1 DEF RemoteHas, Target
<1>3. hs \in Refs /\ ts \in Refs
  BY <1>1, <1>2 DEF Refs, Target
<1>4. \A n \in AllNames : hs[n] \in {tip, None} /\ ts[n] \in {tip, None}
  OBVIOUS
<1>5. kind \in {"branch", "tag"} /\ (kind = "tag" <=> remote.heads[b] = None)
  OBVIOUS
<1>6. (kind = "tag" => \A n \in AllNames : hs[n] = None)
      /\ hs[b] = remote.heads[b] /\ \A n \in AllNames : n # b => hs[n] = None
  BY <1>5
<1>7. kind = "tag" => remote.tags[b] # None
  BY <1>5 DEF RemoteHas
<1>8. [NoCache.heads EXCEPT ![b] = remote.heads[b]] = hs
  BY DEF NoCache
<1> HIDE DEF tip, kind, hs, ts
<1>9. /\ ShallowClone(b).exists /\ ShallowClone(b).refspec = <<kind, b>>
      /\ ShallowClone(b).heads = hs /\ ShallowClone(b).tags = ts
      /\ ShallowClone(b).objects = {tip} /\ ShallowClone(b).head = tip
  BY <1>8 DEF ShallowClone, NoCache, tip, kind, ts
<1>10. ShallowClone(b) \in CacheType
  BY <1>1, <1>2, <1>3, <1>5, <1>8 DEF ShallowClone, NoCache, tip, kind, ts, CacheType, Target
<1>11. CacheOK(ShallowClone(b))
  BY <1>4, <1>9, <1>10 DEF CacheOK
<1>12. HeadsOK(ShallowClone(b))
  BY <1>5, <1>6, <1>9 DEF HeadsOK
<1>13. ShallowClone(b).head \in Target
  BY <1>2, <1>9 DEF Target
<1> QED
  BY <1>6, <1>7, <1>9, <1>11, <1>12, <1>13

\* What the two kinds of clone have in common.
LEMMA CloneArgsOK ==
    ASSUME RemoteOK, NEW c \in Configs, RemoteHas(c.branch)
    PROVE  /\ CacheOK(CloneArgs(c)) /\ HeadsOK(CloneArgs(c)) /\ CloneArgs(c).exists
           /\ CloneArgs(c).head \in Target
           /\ CloneArgs(c).refspec[1] = "tag" => remote.tags[c.branch] # None
           /\ c.ref = NoName => CloneArgs(c).heads[c.branch] = remote.heads[c.branch]
           /\ c.ref # NoName =>
                CloneArgs(c).heads = remote.heads /\ CloneArgs(c).tags = remote.tags
<1>1. PICK b \in AllNames : b = c.branch
  BY GitAssumption
<1>2. CASE c.ref = NoName
  <2>1. CloneArgs(c) = ShallowClone(b)
    BY <1>1, <1>2 DEF CloneArgs
  <2> QED
    BY <1>1, <1>2, <2>1, ShallowCloneOK
<1>3. CASE c.ref # NoName
  <2>1. CloneArgs(c) = FullClone(b)
    BY <1>1, <1>3 DEF CloneArgs
  <2>2. HeadsOK(FullClone(b))
    BY FullCloneOK DEF HeadsOK
  <2> QED
    BY <1>1, <1>3, <2>1, <2>2, FullCloneOK
<1> QED
  BY <1>2, <1>3

\* A .git without refs.
Bare(x) ==
    /\ x \in CacheType /\ x.exists
    /\ x.refspec[1] \in {"branch", "tag"} => x.refspec[2] \in AllNames
    /\ \A n \in AllNames : x.heads[n] = None /\ x.tags[n] = None

LEMMA BareOK ==
    ASSUME NEW x, Bare(x)
    PROVE  CacheOK(x) /\ HeadsOK(x)
BY DEF Bare, CacheOK, HeadsOK

LEMMA BrokenClonesOK ==
    ASSUME RemoteOK, NEW c \in Configs, NEW x \in BrokenClones(c)
    PROVE  /\ CacheOK(x) /\ HeadsOK(x)
           /\ x.refspec[1] = "tag" => remote.tags[c.branch] # None
<1> DEFINE empty == [NoCache EXCEPT !.exists = TRUE]
<1>1. Bare(empty) /\ empty.refspec[1] = "none"
  BY DEF NoCache, Bare, CacheType, Refs, Target
<1>2. CASE x = empty
  BY <1>1, <1>2, BareOK
<1>3. CASE RemoteHas(c.branch) /\ x # empty
  <2>1. PICK whole : whole = CloneArgs(c)
    OBVIOUS
  <2>2. /\ CacheOK(whole) /\ HeadsOK(whole) /\ whole.exists
        /\ whole.refspec[1] = "tag" => remote.tags[c.branch] # None
    BY <1>3, <2>1, CloneArgsOK
  <2>3. whole \in CacheType /\ (whole.refspec[1] \in {"branch", "tag"} => whole.refspec[2] \in AllNames)
    BY <2>2 DEF CacheOK
  <2>4. /\ whole.objects \in SUBSET Commits /\ whole.shallow \in Target
        /\ whole.refspec \in {"none", "all", "branch", "tag"} \X (AllNames \cup {NoName})
    BY <2>3 DEF CacheType
  <2> DEFINE fetched == [empty EXCEPT !.objects = whole.objects, !.shallow = whole.shallow]
             named == [fetched EXCEPT !.refspec = whole.refspec]
             torn == [whole EXCEPT !.head = Torn]
  <2>5. x \in {fetched, named, torn}
    BY <1>3, <2>1 DEF BrokenClones
  <2>6. Bare(fetched) /\ fetched.refspec[1] = "none"
    BY <2>4 DEF NoCache, Bare, CacheType, Refs, Target
  <2>7. Bare(named) /\ named.refspec = whole.refspec
    BY <2>3, <2>4 DEF NoCache, Bare, CacheType, Refs, Target
  <2>8. /\ torn \in CacheType /\ torn.exists = whole.exists /\ torn.refspec = whole.refspec
        /\ torn.heads = whole.heads /\ torn.tags = whole.tags /\ torn.objects = whole.objects
    BY <2>3 DEF CacheType
  <2> HIDE DEF fetched, named, torn
  <2>9. CacheOK(torn) /\ HeadsOK(torn)
    BY <2>2, <2>8 DEF CacheOK, HeadsOK
  <2> QED
    BY <2>2, <2>5, <2>6, <2>7, <2>8, <2>9, BareOK
<1> QED
  BY <1>2, <1>3 DEF BrokenClones

\* What a removal leaves of a cache.
LEMMA RemainsOK ==
    ASSUME CacheOK(cache), NEW x \in Remains
    PROVE  /\ CacheOK(x) /\ (HeadsOK(cache) => HeadsOK(x))
           /\ x.refspec[1] = "tag" => cache.refspec[1] = "tag"
           /\ \A n \in AllNames : x.tags[n] \in {cache.tags[n], None}
<1>1. /\ cache \in CacheType /\ cache.refspec \in {"none", "all", "branch", "tag"} \X (AllNames \cup {NoName})
      /\ cache.refspec[1] \in {"branch", "tag"} => cache.refspec[2] \in AllNames
  BY DEF CacheOK, CacheType
<1>2. CASE x = [cache EXCEPT !.head = Torn]
  <2>1. /\ x \in CacheType /\ x.exists = cache.exists /\ x.refspec = cache.refspec
        /\ x.heads = cache.heads /\ x.tags = cache.tags /\ x.objects = cache.objects
    BY <1>1, <1>2 DEF CacheType
  <2> QED
    BY <2>1 DEF CacheOK, HeadsOK
<1>3. CASE x = NoCache \/ x = [NoCache EXCEPT !.head = Torn]
  <2>1. /\ x.refspec = <<"none", NoName>> /\ x.objects = {}
        /\ \A n \in AllNames : x.heads[n] = None /\ x.tags[n] = None
    BY <1>3 DEF NoCache
  <2>2. CASE x = NoCache
    BY <2>2, <2>1, NoCacheOK
  <2>3. CASE x = [NoCache EXCEPT !.head = Torn]
    <3>1. x \in CacheType
      BY <2>3, NoCacheOK DEF CacheOK, CacheType
    <3> QED
      BY <2>1, <3>1 DEF CacheOK, HeadsOK
  <2> QED
    BY <1>3, <2>2, <2>3
<1>4. ASSUME NEW s \in {cache.refspec, NoCache.refspec},
             x = [NoCache EXCEPT !.exists = TRUE, !.refspec = s, !.head = Torn]
      PROVE  /\ Bare(x) /\ (x.refspec[1] = "tag" => cache.refspec[1] = "tag")
  <2>1. s = cache.refspec \/ s = <<"none", NoName>>
    BY DEF NoCache
  <2>2. s \in {"none", "all", "branch", "tag"} \X (AllNames \cup {NoName})
    BY <1>1, <2>1
  <2>3. x.exists /\ x.refspec = s /\ \A n \in AllNames : x.heads[n] = None /\ x.tags[n] = None
    BY <1>4 DEF NoCache
  <2>4. x \in CacheType
    BY <1>4, <2>2, NoCacheOK DEF CacheOK, CacheType
  <2>5. s[1] \in {"branch", "tag"} => s = cache.refspec
    BY <2>1
  <2> QED
    BY <1>1, <2>3, <2>4, <2>5 DEF Bare
<1>5. CASE \E s \in {cache.refspec, NoCache.refspec} :
             x = [NoCache EXCEPT !.exists = TRUE, !.refspec = s, !.head = Torn]
  <2>1. Bare(x) /\ (x.refspec[1] = "tag" => cache.refspec[1] = "tag")
    BY <1>4, <1>5
  <2> QED
    BY <2>1, BareOK DEF Bare
<1> QED
  BY <1>2, <1>3, <1>5 DEF Remains

\* Tags that are followed: none that the cache has moves.
LEMMA WithTagsOK ==
    ASSUME RemoteOK, NEW c \in CacheType, NEW objs \in SUBSET Commits,
           c.objects \subseteq objs, c.exists,
           c.refspec[1] \in {"branch", "tag"} => c.refspec[2] \in AllNames,
           \A n \in AllNames : c.heads[n] \in objs \cup {None},
           \A n \in AllNames : c.tags[n] \in c.objects \cup {None}
    PROVE  /\ CacheOK(WithTags(c, objs)) /\ WithTags(c, objs).exists
           /\ WithTags(c, objs).refspec = c.refspec /\ WithTags(c, objs).heads = c.heads
           /\ WithTags(c, objs).head = c.head
           /\ \A n \in AllNames : c.tags[n] # None => WithTags(c, objs).tags[n] = c.tags[n]
<1> DEFINE new == WithTags(c, objs)
<1> DEFINE ts == [n \in AllNames |->
                    IF c.tags[n] = None /\ remote.tags[n] \in objs
                    THEN remote.tags[n] ELSE c.tags[n]]
<1>1. ts \in Refs /\ \A n \in AllNames : ts[n] \in objs \cup {None}
  BY DEF Refs, Target, CacheType
<1>2. \A n \in AllNames : c.tags[n] # None => ts[n] = c.tags[n]
  OBVIOUS
<1>3. new = [c EXCEPT !.objects = objs, !.tags = ts]
  BY DEF WithTags
<1> HIDE DEF new, ts
<1>4. /\ new.exists = c.exists /\ new.refspec = c.refspec /\ new.heads = c.heads
      /\ new.head = c.head /\ new.tags = ts /\ new.objects = objs
  BY <1>3 DEF CacheType
<1>5. new \in CacheType
  BY <1>1, <1>3 DEF CacheType
<1>6. CacheOK(new)
  BY <1>1, <1>4, <1>5 DEF CacheOK
<1> QED
  BY <1>2, <1>4, <1>6 DEF new

\* A fetch leaves what is checked out alone, and moves no tag but by a tag's refspec.
LEMMA FetchedOK ==
    ASSUME RemoteOK, CacheOK(cache), cache.exists, Fetchable, NEW new \in Fetched
    PROVE  /\ CacheOK(new) /\ new.exists /\ new.refspec = cache.refspec
           /\ new.head = cache.head
           /\ cache.refspec[1] # "tag" =>
                \A n \in AllNames : cache.tags[n] # None => new.tags[n] = cache.tags[n]
           /\ HeadsOK(cache) =>
                /\ HeadsOK(new)
                /\ \A n \in AllNames : remote.heads[n] # None =>
                     new.heads[n] \in {remote.heads[n], None}
<1> USE DEF CacheOK
<1>1. remote.heads \in Refs /\ remote.tags \in Refs
  BY DEF RemoteOK
<1>2. cache.objects \in SUBSET Commits /\ cache.shallow \in Target
      /\ cache.heads \in Refs /\ cache.tags \in Refs
      /\ cache.refspec[1] \in {"none", "all", "branch", "tag"}
  BY DEF CacheType
<1>3. CASE cache.refspec[1] = "all"
  <2> DEFINE hs == [n \in AllNames |->
                      IF remote.heads[n] # None THEN remote.heads[n] ELSE cache.heads[n]]
  <2> DEFINE objs == cache.objects \cup Reachable(Range2(hs))
  <2> DEFINE c == [cache EXCEPT !.heads = hs]
  <2>1. hs \in Refs
    BY <1>1, <1>2 DEF Refs
  <2>2. objs \in SUBSET Commits /\ cache.objects \subseteq objs
    BY <1>2, ReachableType
  <2>3. \A n \in AllNames : hs[n] \in objs \cup {None}
    <3>1. Range2(hs) \cap Commits \subseteq objs
      BY ReachableType
    <3>2. \A n \in AllNames : hs[n] \in Range2(hs) /\ hs[n] \in Target
      BY <2>1 DEF Range2, Refs
    <3> QED
      BY <3>1, <3>2 DEF Target
  <2>4. new = WithTags(c, objs)
    BY <1>3 DEF Fetched, FetchAll
  <2>5. \A n \in AllNames : remote.heads[n] # None => hs[n] = remote.heads[n]
    OBVIOUS
  <2> HIDE DEF hs, objs
  <2>6. /\ c.exists = cache.exists /\ c.refspec = cache.refspec /\ c.heads = hs
        /\ c.head = cache.head /\ c.tags = cache.tags /\ c.objects = cache.objects
    BY DEF CacheType
  <2>7. c \in CacheType
    BY <2>1 DEF CacheType
  <2> HIDE DEF c
  <2>8. /\ CacheOK(new) /\ new.exists /\ new.refspec = cache.refspec
        /\ new.heads = hs /\ new.head = cache.head
        /\ \A n \in AllNames : cache.tags[n] # None => new.tags[n] = cache.tags[n]
    <3>1. /\ c.exists /\ c.objects \subseteq objs
          /\ c.refspec[1] \in {"branch", "tag"} => c.refspec[2] \in AllNames
          /\ \A n \in AllNames : c.heads[n] \in objs \cup {None}
          /\ \A n \in AllNames : c.tags[n] \in c.objects \cup {None}
      BY <2>2, <2>3, <2>6
    <3> HIDE DEF CacheOK
    <3>2. /\ CacheOK(WithTags(c, objs)) /\ WithTags(c, objs).exists
          /\ WithTags(c, objs).refspec = c.refspec /\ WithTags(c, objs).heads = c.heads
          /\ WithTags(c, objs).head = c.head
          /\ \A n \in AllNames : c.tags[n] # None => WithTags(c, objs).tags[n] = c.tags[n]
      BY <2>2, <2>7, <3>1, WithTagsOK
    <3> QED
      BY <2>4, <2>6, <3>2
  <2>9. HeadsOK(new)
    BY <1>3, <2>8 DEF HeadsOK
  <2> QED
    BY <2>5, <2>8, <2>9
<1>4. CASE cache.refspec[1] = "branch"
  <2> DEFINE b == cache.refspec[2]
  <2> DEFINE hs == [cache.heads EXCEPT ![b] = remote.heads[b]]
  <2> DEFINE objs == cache.objects \cup Above(remote.heads[b], cache.shallow)
  <2> DEFINE c == [cache EXCEPT !.heads = hs]
  <2>1. b \in AllNames /\ remote.heads[b] \in Commits
    BY <1>1, <1>4 DEF Fetchable, Refs, Target
  <2>2. hs \in Refs /\ hs[b] = remote.heads[b]
        /\ \A n \in AllNames : n # b => hs[n] = cache.heads[n]
    BY <1>1, <1>2, <2>1 DEF Refs
  <2>3. objs \in SUBSET Commits /\ cache.objects \subseteq objs /\ remote.heads[b] \in objs
    BY <1>2, <2>1, AboveType
  <2>4. \A n \in AllNames : hs[n] \in objs \cup {None}
    BY <2>2, <2>3
  <2>5. new = WithTags(c, objs)
    BY <1>4 DEF Fetched, FetchBranch
  <2> HIDE DEF hs, objs
  <2>6. /\ c.exists = cache.exists /\ c.refspec = cache.refspec /\ c.heads = hs
        /\ c.head = cache.head /\ c.tags = cache.tags /\ c.objects = cache.objects
    BY DEF CacheType
  <2>7. c \in CacheType
    BY <2>2 DEF CacheType
  <2> HIDE DEF c
  <2>8. /\ CacheOK(new) /\ new.exists /\ new.refspec = cache.refspec
        /\ new.heads = hs /\ new.head = cache.head
        /\ \A n \in AllNames : cache.tags[n] # None => new.tags[n] = cache.tags[n]
    <3>1. /\ c.exists /\ c.objects \subseteq objs
          /\ c.refspec[1] \in {"branch", "tag"} => c.refspec[2] \in AllNames
          /\ \A n \in AllNames : c.heads[n] \in objs \cup {None}
          /\ \A n \in AllNames : c.tags[n] \in c.objects \cup {None}
      BY <2>3, <2>4, <2>6
    <3> HIDE DEF CacheOK
    <3>2. /\ CacheOK(WithTags(c, objs)) /\ WithTags(c, objs).exists
          /\ WithTags(c, objs).refspec = c.refspec /\ WithTags(c, objs).heads = c.heads
          /\ WithTags(c, objs).head = c.head
          /\ \A n \in AllNames : c.tags[n] # None => WithTags(c, objs).tags[n] = c.tags[n]
      BY <2>3, <2>7, <3>1, WithTagsOK
    <3> QED
      BY <2>5, <2>6, <3>2
  <2>9. HeadsOK(cache) => HeadsOK(new)
    BY <1>4, <2>1, <2>2, <2>8 DEF HeadsOK
  <2>10. HeadsOK(cache) => \A n \in AllNames : hs[n] \in {remote.heads[n], None}
    BY <1>4, <2>2 DEF HeadsOK
  <2> QED
    BY <2>8, <2>9, <2>10
<1>5. CASE cache.refspec[1] = "tag"
  <2> DEFINE t == cache.refspec[2]
  <2> DEFINE ts == [cache.tags EXCEPT ![t] = remote.tags[t]]
  <2> DEFINE objs == cache.objects \cup Above(remote.tags[t], cache.shallow)
  <2>1. t \in AllNames /\ remote.tags[t] \in Commits
    BY <1>1, <1>5 DEF Fetchable, Refs, Target
  <2>2. ts \in Refs /\ ts[t] = remote.tags[t]
        /\ \A n \in AllNames : n # t => ts[n] = cache.tags[n]
    BY <1>1, <1>2, <2>1 DEF Refs
  <2>3. objs \in SUBSET Commits /\ cache.objects \subseteq objs /\ remote.tags[t] \in objs
    BY <1>2, <2>1, AboveType
  <2>4. \A n \in AllNames : ts[n] \in objs \cup {None}
    BY <2>2, <2>3
  <2>5. new = [cache EXCEPT !.tags = ts, !.objects = objs]
    BY <1>5 DEF Fetched, FetchTag
  <2> HIDE DEF ts, objs
  <2>6. /\ new.exists = cache.exists /\ new.refspec = cache.refspec
        /\ new.heads = cache.heads /\ new.head = cache.head
        /\ new.tags = ts /\ new.objects = objs
    BY <2>5 DEF CacheType
  <2>7. new \in CacheType
    BY <2>2, <2>3, <2>5 DEF CacheType
  <2>8. CacheOK(new)
    BY <2>3, <2>4, <2>6, <2>7
  <2> QED
    BY <1>5, <2>6, <2>8 DEF HeadsOK
<1>6. CASE cache.refspec[1] = "none"
  <2>1. PICK m \in AllNames : remote.heads[m] # None /\ new = FetchHead(m)
    BY <1>6 DEF Fetched
  <2> DEFINE objs == cache.objects \cup Above(remote.heads[m], cache.shallow)
  <2>2. remote.heads[m] \in Commits
    BY <1>1, <2>1 DEF Refs, Target
  <2>3. objs \in SUBSET Commits /\ cache.objects \subseteq objs
    BY <1>2, <2>2, AboveType
  <2>4. new = WithTags(cache, objs)
    BY <2>1 DEF FetchHead
  <2> HIDE DEF objs
  <2>5. /\ cache \in CacheType /\ \A n \in AllNames : cache.heads[n] \in objs \cup {None}
        /\ \A n \in AllNames : cache.tags[n] \in cache.objects \cup {None}
        /\ cache.refspec[1] \in {"branch", "tag"} => cache.refspec[2] \in AllNames
    BY <2>3
  <2>6. /\ CacheOK(new) /\ new.exists /\ new.refspec = cache.refspec
        /\ new.heads = cache.heads /\ new.head = cache.head
        /\ \A n \in AllNames : cache.tags[n] # None => new.tags[n] = cache.tags[n]
    <3> HIDE DEF CacheOK
    <3> QED
      BY <2>3, <2>4, <2>5, WithTagsOK
  <2> QED
    BY <1>6, <2>6 DEF HeadsOK
<1> QED
  BY <1>2, <1>3, <1>4, <1>5, <1>6

-----------------------------------------------------------------------------
(* Types. *)

LEMMA ConfigOK ==
    ASSUME NEW j, JobOK(j), j.pc # "idle"
    PROVE  /\ j.cfg \in Configs /\ j.cfg.branch \in AllNames
           /\ j.cfg.ref \in AllNames \cup {NoName} /\ j.cfg.force \in BOOLEAN
BY GitAssumption DEF JobOK

LEMMA WantedOK ==
    ASSUME NEW p \in Procs, JobOK(job[p]), job[p].pc # "idle"
    PROVE  Wanted(p) \in AllNames
BY ConfigOK DEF Wanted

LEMMA NoJobOK == JobOK(NoJob) /\ NoJob.pc = "idle" /\ NoJob.res = "none"
BY DEF NoJob, JobOK, JobType, ConfigType, Target, Results

LEMMA JobUpdate ==
    ASSUME JobsOK, NEW p \in Procs, NEW new, JobOK(new), job' = [job EXCEPT ![p] = new]
    PROVE  JobsOK' /\ job'[p] = new /\ \A q \in Procs : q # p => job'[q] = job[q]
<1>1. new \in JobType
  BY DEF JobOK
<1>2. job' \in [Procs -> JobType]
  BY <1>1 DEF JobsOK
<1>3. job'[p] = new /\ \A q \in Procs : q # p => job'[q] = job[q]
  BY DEF JobsOK
<1>4. \A q \in Procs : JobOK(job'[q])
  BY <1>3 DEF JobsOK
<1> QED
  BY <1>2, <1>3, <1>4 DEF JobsOK, JobOK

\* What changes when a job takes a step.
LEMMA StepJob ==
    ASSUME JobsOK, NEW p \in Procs, job[p].pc \in Working, NEW s \in Working, Step(p, s)
    PROVE  /\ JobsOK' /\ job'[p].pc = s /\ job'[p].cfg = job[p].cfg /\ job'[p].res = "none"
           /\ job'[p].sha = job[p].sha /\ job'[p].tip = job[p].tip
           /\ \A q \in Procs : q # p => job'[q] = job[q]
<1> DEFINE new == [job[p] EXCEPT !.pc = s]
<1>1. job[p] \in JobType /\ JobOK(job[p])
  BY DEF JobsOK
<1>2. /\ new.pc = s /\ new.cfg = job[p].cfg /\ new.res = job[p].res
      /\ new.sha = job[p].sha /\ new.tip = job[p].tip /\ new \in JobType
  BY <1>1 DEF JobType
<1>3. JobOK(new) /\ new.res = "none"
  BY <1>1, <1>2 DEF JobOK, Working
<1>4. job' = [job EXCEPT ![p] = new]
  BY DEF Step
<1> HIDE DEF new
<1> QED
  BY <1>2, <1>3, <1>4, JobUpdate

LEMMA FinishJob ==
    ASSUME JobsOK, NEW p \in Procs, job[p].pc \in Working, NEW r \in Results, Finish(p, r)
    PROVE  /\ JobsOK' /\ job'[p].pc = "done" /\ job'[p].cfg = job[p].cfg /\ job'[p].res = r
           /\ job'[p].sha = job[p].sha /\ job'[p].tip = job[p].tip
           /\ \A q \in Procs : q # p => job'[q] = job[q]
<1> DEFINE new == [job[p] EXCEPT !.pc = "done", !.res = r]
<1>1. job[p] \in JobType /\ JobOK(job[p])
  BY DEF JobsOK
<1>2. /\ new.pc = "done" /\ new.cfg = job[p].cfg /\ new.res = r
      /\ new.sha = job[p].sha /\ new.tip = job[p].tip /\ new \in JobType
  BY <1>1 DEF JobType
<1>3. JobOK(new)
  BY <1>1, <1>2 DEF JobOK, Working
<1>4. job' = [job EXCEPT ![p] = new]
  BY DEF Finish
<1> HIDE DEF new
<1> QED
  BY <1>2, <1>3, <1>4, JobUpdate

\* The job after a sync that came through.
LEMMA SyncJob ==
    ASSUME JobsOK, RemoteOK, NEW p \in Procs, job[p].pc = "sync", NEW s \in Working,
           job' = [job EXCEPT ![p].pc = s, ![p].tip = remote.heads[Wanted(p)]]
    PROVE  /\ JobsOK' /\ job'[p].pc = s /\ job'[p].cfg = job[p].cfg /\ job'[p].res = "none"
           /\ job'[p].sha = job[p].sha /\ job'[p].tip = remote.heads[Wanted(p)]
           /\ \A q \in Procs : q # p => job'[q] = job[q]
<1> DEFINE t == remote.heads[Wanted(p)]
<1> DEFINE new == [job[p] EXCEPT !.pc = s, !.tip = t]
<1>1. job[p] \in JobType /\ JobOK(job[p])
  BY DEF JobsOK
<1>2. t \in Target
  BY <1>1, WantedOK DEF RemoteOK, Refs
<1> HIDE DEF t
<1>3. /\ new.pc = s /\ new.cfg = job[p].cfg /\ new.res = job[p].res
      /\ new.sha = job[p].sha /\ new.tip = t /\ new \in JobType
  BY <1>1, <1>2 DEF JobType
<1>4. JobOK(new) /\ new.res = "none"
  BY <1>1, <1>3 DEF JobOK, Working
<1>5. job' = [job EXCEPT ![p] = new]
  BY DEF t
<1> HIDE DEF new
<1> QED
  BY <1>3, <1>4, <1>5, JobUpdate DEF t

\* The job after a resolution that came through.
LEMMA ResolveJob ==
    ASSUME JobsOK, NEW p \in Procs, job[p].pc = "resolve", NEW x \in Commits,
           job' = [job EXCEPT ![p].pc = "checkout", ![p].sha = x]
    PROVE  /\ JobsOK' /\ job'[p].pc = "checkout" /\ job'[p].cfg = job[p].cfg
           /\ job'[p].res = "none" /\ job'[p].sha = x /\ job'[p].tip = job[p].tip
           /\ \A q \in Procs : q # p => job'[q] = job[q]
<1> DEFINE new == [job[p] EXCEPT !.pc = "checkout", !.sha = x]
<1>1. job[p] \in JobType /\ JobOK(job[p])
  BY DEF JobsOK
<1>2. /\ new.pc = "checkout" /\ new.cfg = job[p].cfg /\ new.res = job[p].res
      /\ new.sha = x /\ new.tip = job[p].tip /\ new \in JobType
  BY <1>1 DEF JobType, Target, Working
<1>3. JobOK(new) /\ new.res = "none"
  BY <1>1, <1>2 DEF JobOK, Working
<1>4. job' = [job EXCEPT ![p] = new]
  OBVIOUS
<1> HIDE DEF new
<1> QED
  BY <1>2, <1>3, <1>4, JobUpdate

\* The job of a pull that begins.
LEMMA StartsJob ==
    ASSUME JobsOK, NEW p \in Procs, NEW c \in Configs, NEW pc, NEW res, Starts(p, c, pc, res),
           (pc \in {"remove", "sync"} /\ res = "none") \/ (pc = "done" /\ res \in Results)
    PROVE  /\ JobsOK' /\ job'[p].cfg = c /\ job'[p].pc = pc /\ job'[p].res = res
           /\ \A q \in Procs : q # p => job'[q] = job[q]
<1> DEFINE new == [NoJob EXCEPT !.pc = pc, !.cfg = c, !.res = res]
<1>1. c \in ConfigType
  BY GitAssumption DEF ConfigType
<1>2. new \in JobType /\ new.pc = pc /\ new.cfg = c /\ new.res = res
  BY <1>1 DEF NoJob, JobType, Target, Working, Results
<1>3. job' = [job EXCEPT ![p] = new]
  BY DEF Starts
<1> HIDE DEF new
<1>4. JobOK(new)
  BY <1>2 DEF JobOK
<1> QED
  BY <1>2, <1>3, <1>4, JobUpdate

-----------------------------------------------------------------------------
(* What the steps of a pull do. *)

LEMMA BeginDoes ==
    ASSUME TypeInv, NEW p \in Procs, Begin(p)
    PROVE  /\ UNCHANGED <<remote, cache, index, moves, kills, pinned, steady>> /\ crossed' = crossed \ {p}
           /\ JobsOK' /\ \A q \in Procs : q # p => job'[q] = job[q]
           /\ \/ job'[p].pc = "done" /\ job'[p].res \in {"invalid", "no directory"}
              \/ job'[p].pc = "remove" /\ job'[p].res = "none"
              \/ job'[p].pc = "sync" /\ job'[p].res = "none" /\ ~job'[p].cfg.force
<1>1. JobsOK
  BY DEF TypeInv
<1>2. PICK c \in Configs :
        \/ Starts(p, c, "done", "invalid")
        \/ Starts(p, c, "done", "no directory")
        \/ Starts(p, c, IF c.force THEN "remove" ELSE "sync", "none")
  BY DEF Begin, Invalid
<1>3. UNCHANGED <<remote, cache, index, moves, kills, pinned, steady>> /\ crossed' = crossed \ {p}
  BY DEF Begin
<1>4. CASE Starts(p, c, "done", "invalid")
  BY <1>1, <1>3, <1>4, StartsJob DEF Results
<1>5. CASE Starts(p, c, "done", "no directory")
  BY <1>1, <1>3, <1>5, StartsJob DEF Results
<1>6. CASE Starts(p, c, "remove", "none")
  BY <1>1, <1>3, <1>6, StartsJob
<1>7. CASE Starts(p, c, "sync", "none") /\ ~c.force
  BY <1>1, <1>3, <1>7, StartsJob
<1>8. c.force \in BOOLEAN
  BY GitAssumption
<1> QED
  BY <1>2, <1>4, <1>5, <1>6, <1>7, <1>8

\* What a command leaves behind that is stopped, or that fails before it does anything.
LEMMA CutOK ==
    ASSUME TypeInv, NEW p \in Procs, job[p].pc \in Working, NEW x \in {cache} \cup CutShort(p)
    PROVE  /\ CacheOK(x) /\ (HeadsOK(cache) => HeadsOK(x))
           /\ cache.refspec[1] # "tag" => \A n \in AllNames :
                /\ cache.tags[n] # None /\ x.tags[n] # None => x.tags[n] = cache.tags[n]
                /\ cache.tags[n] # None /\ job[p].pc # "remove" => x.tags[n] = cache.tags[n]
           /\ x.refspec[1] = "tag" => cache.refspec[1] = "tag" \/ remote.tags[job[p].cfg.branch] # None
<1>1. CacheOK(cache) /\ RemoteOK
  BY DEF TypeInv
<1>2. job[p].cfg \in Configs
  BY ConfigOK DEF TypeInv, JobsOK, Working
<1>3. ~cache.exists => \A n \in AllNames : cache.tags[n] = None
  BY <1>1 DEF CacheOK
<1>4. CASE x = cache
  BY <1>1, <1>4
<1>5. CASE job[p].pc = "remove" /\ x \in Remains
  <2>1. /\ CacheOK(x) /\ (HeadsOK(cache) => HeadsOK(x))
        /\ x.refspec[1] = "tag" => cache.refspec[1] = "tag"
        /\ \A n \in AllNames : x.tags[n] \in {cache.tags[n], None}
    BY <1>1, <1>5, RemainsOK
  <2> QED
    BY <1>5, <2>1
<1>6. CASE ~cache.exists /\ x \in BrokenClones(job[p].cfg)
  <2>1. /\ CacheOK(x) /\ HeadsOK(x)
        /\ x.refspec[1] = "tag" => remote.tags[job[p].cfg.branch] # None
    BY <1>1, <1>2, <1>6, BrokenClonesOK
  <2> QED
    BY <1>3, <1>6, <2>1
<1>7. CASE cache.exists /\ Fetchable /\ x \in Fetched
  <2>1. /\ CacheOK(x) /\ x.refspec = cache.refspec
        /\ cache.refspec[1] # "tag" =>
             \A n \in AllNames : cache.tags[n] # None => x.tags[n] = cache.tags[n]
        /\ HeadsOK(cache) => HeadsOK(x)
    BY <1>1, <1>7, FetchedOK
  <2> QED
    BY <2>1
<1>8. CASE cache.exists /\ x = [cache EXCEPT !.head = Torn]
  <2>1. /\ x \in CacheType /\ x.exists = cache.exists /\ x.refspec = cache.refspec
        /\ x.heads = cache.heads /\ x.tags = cache.tags /\ x.objects = cache.objects
    BY <1>1, <1>8 DEF CacheOK, CacheType
  <2>2. CacheOK(x) /\ (HeadsOK(cache) => HeadsOK(x))
    BY <1>1, <2>1 DEF CacheOK, HeadsOK
  <2> QED
    BY <2>1, <2>2
<1> QED
  BY <1>4, <1>5, <1>6, <1>7, <1>8 DEF CutShort

LEMMA RemoveDoes ==
    ASSUME TypeInv, NEW p \in Procs, Remove(p)
    PROVE  /\ JobsOK' /\ job'[p].cfg = job[p].cfg /\ \A q \in Procs : q # p => job'[q] = job[q]
           /\ \/ job'[p].pc = "sync" /\ job'[p].res = "none" /\ cache' = NoCache
              \/ /\ job'[p].pc = "done" /\ job'[p].res = "remove failed"
                 /\ cache' \in {cache} \cup CutShort(p)
<1>1. JobsOK /\ job[p].pc = "remove"
  BY DEF TypeInv, Remove
<1>2. CASE Step(p, "sync") /\ cache' = NoCache
  BY <1>1, <1>2, StepJob DEF Working
<1>3. CASE Finish(p, "remove failed") /\ cache' \in {cache} \cup CutShort(p)
  BY <1>1, <1>3, FinishJob DEF Results, Working
<1> QED
  BY <1>2, <1>3 DEF Remove

\* A clone that came through.
Cloned(p) ==
    /\ job'[p].pc = "resolve" /\ job'[p].res = "none"
    /\ job'[p].tip = remote.heads[Wanted(p)] /\ steady'
    /\ CacheOK(cache') /\ HeadsOK(cache') /\ cache'.exists /\ cache'.head \in Target
    /\ cache'.refspec[1] = "tag" => remote.tags[job[p].cfg.branch] # None
    /\ job[p].cfg.ref = NoName =>
         cache'.heads[job[p].cfg.branch] = remote.heads[job[p].cfg.branch]
    /\ job[p].cfg.ref # NoName => cache'.heads = remote.heads /\ cache'.tags = remote.tags

LEMMA CloneDoes ==
    ASSUME TypeInv, NEW p \in Procs, Clone(p)
    PROVE  /\ JobsOK' /\ job'[p].cfg = job[p].cfg /\ \A q \in Procs : q # p => job'[q] = job[q]
           /\ \/ Cloned(p)
              \/ /\ job'[p].pc = "done" /\ job'[p].res = "git failed"
                 /\ cache' \in {cache} \cup CutShort(p) /\ UNCHANGED steady
<1>1. JobsOK /\ RemoteOK /\ job[p].pc = "sync" /\ JobOK(job[p])
  BY DEF TypeInv, Clone, JobsOK
<1>2. job[p].cfg \in Configs
  BY <1>1, ConfigOK
<1>3. CASE /\ RemoteHas(job[p].cfg.branch)
           /\ cache' = CloneArgs(job[p].cfg)
           /\ job' = [job EXCEPT ![p].pc = "resolve", ![p].tip = remote.heads[Wanted(p)]]
           /\ steady' = TRUE
  <2>1. /\ JobsOK' /\ job'[p].pc = "resolve" /\ job'[p].cfg = job[p].cfg /\ job'[p].res = "none"
        /\ job'[p].tip = remote.heads[Wanted(p)]
        /\ \A q \in Procs : q # p => job'[q] = job[q]
    BY <1>1, <1>3, SyncJob DEF Working
  <2>2. PICK c \in Configs : c = job[p].cfg
    BY <1>2
  <2>3. /\ CacheOK(cache') /\ HeadsOK(cache') /\ cache'.exists /\ cache'.head \in Target
        /\ cache'.refspec[1] = "tag" => remote.tags[c.branch] # None
        /\ c.ref = NoName => cache'.heads[c.branch] = remote.heads[c.branch]
        /\ c.ref # NoName => cache'.heads = remote.heads /\ cache'.tags = remote.tags
    BY <1>1, <1>3, <2>2, CloneArgsOK
  <2> QED
    BY <1>3, <2>1, <2>2, <2>3 DEF Cloned
<1>4. CASE GitFails(p) /\ cache' \in {cache} \cup CutShort(p) /\ UNCHANGED steady
  BY <1>1, <1>4, FinishJob DEF GitFails, Results, Working
<1> QED
  BY <1>3, <1>4 DEF Clone

LEMMA FetchDoes ==
    ASSUME TypeInv, NEW p \in Procs, Fetch(p)
    PROVE  /\ JobsOK' /\ job'[p].cfg = job[p].cfg /\ \A q \in Procs : q # p => job'[q] = job[q]
           /\ \/ /\ job'[p].pc = "tag" /\ job'[p].res = "none"
                 /\ job'[p].tip = remote.heads[Wanted(p)] /\ Fetchable /\ cache' \in Fetched
              \/ /\ job'[p].pc = "done" /\ job'[p].res = "git failed"
                 /\ cache' \in {cache} \cup CutShort(p)
<1>1. JobsOK /\ RemoteOK /\ job[p].pc = "sync"
  BY DEF TypeInv, Fetch
<1>2. CASE /\ Fetchable /\ cache' \in Fetched
           /\ job' = [job EXCEPT ![p].pc = "tag", ![p].tip = remote.heads[Wanted(p)]]
  BY <1>1, <1>2, SyncJob DEF Working
<1>3. CASE GitFails(p) /\ cache' \in {cache} \cup CutShort(p)
  BY <1>1, <1>3, FinishJob DEF GitFails, Results, Working
<1> QED
  BY <1>2, <1>3 DEF Fetch

\* Only the tags change, and none that the cache has.
TagAdded(c, d) ==
    /\ d.exists = c.exists /\ d.refspec = c.refspec /\ d.heads = c.heads /\ d.head = c.head
    /\ \A n \in AllNames : c.tags[n] # None => d.tags[n] = c.tags[n]

LEMMA PinnedTagDoes ==
    ASSUME TypeInv, NEW p \in Procs, FetchPinnedTag(p)
    PROVE  /\ JobsOK' /\ job'[p].cfg = job[p].cfg /\ \A q \in Procs : q # p => job'[q] = job[q]
           /\ job'[p].pc = "resolve" /\ job'[p].res = "none" /\ job'[p].tip = job[p].tip
           /\ CacheOK(cache') /\ TagAdded(cache, cache')
<1>1. JobsOK /\ RemoteOK /\ CacheOK(cache) /\ job[p].pc = "tag" /\ Step(p, "resolve")
  BY DEF TypeInv, FetchPinnedTag
<1>2. /\ JobsOK' /\ job'[p].cfg = job[p].cfg /\ \A q \in Procs : q # p => job'[q] = job[q]
      /\ job'[p].pc = "resolve" /\ job'[p].res = "none" /\ job'[p].tip = job[p].tip
  BY <1>1, StepJob DEF Working
<1>3. CASE UNCHANGED cache
  BY <1>1, <1>2, <1>3 DEF TagAdded
<1>4. CASE ~ UNCHANGED cache
  <2>1. PICK t : t = job[p].cfg.ref
    OBVIOUS
  <2>2. PICK new : new = TagUpdate(cache.tags[t], remote.tags[t])
    OBVIOUS
  <2> DEFINE objs == cache.objects \cup Above(new, cache.shallow)
  <2> DEFINE ts == [cache.tags EXCEPT ![t] = new]
  <2>3. t # NoName /\ cache.exists /\ remote.tags[t] # None
        /\ cache' = [cache EXCEPT !.tags = ts, !.objects = objs]
    BY <1>4, <2>1, <2>2 DEF FetchPinnedTag
  <2>4. t \in AllNames
    BY <1>1, <2>1, <2>3, ConfigOK DEF JobsOK
  <2>5. /\ cache \in CacheType /\ cache.objects \subseteq Commits /\ cache.shallow \in Target
        /\ cache.tags \in Refs /\ cache.tags[t] \in Target
        /\ \A n \in AllNames : cache.heads[n] \in cache.objects \cup {None}
                               /\ cache.tags[n] \in cache.objects \cup {None}
    BY <1>1, <2>4 DEF CacheOK, CacheType, Refs
  <2>6. new \in Commits /\ (cache.tags[t] # None => new = cache.tags[t])
    <3>1. remote.tags[t] \in Target
      BY <1>1, <2>4 DEF RemoteOK, Refs
    <3> QED
      BY <2>2, <2>3, <2>5, <3>1 DEF TagUpdate, Target
  <2>7. objs \subseteq Commits /\ cache.objects \subseteq objs /\ new \in objs
    BY <2>5, <2>6, AboveType
  <2>8. ts \in Refs /\ ts[t] = new /\ \A n \in AllNames : n # t => ts[n] = cache.tags[n]
    BY <2>4, <2>5, <2>6 DEF Refs, Target
  <2> HIDE DEF objs, ts
  <2>9. /\ cache'.exists = cache.exists /\ cache'.refspec = cache.refspec
        /\ cache'.heads = cache.heads /\ cache'.head = cache.head
        /\ cache'.tags = ts /\ cache'.objects = objs
    BY <2>3, <2>5 DEF CacheType
  <2>10. cache' \in CacheType
    BY <2>3, <2>5, <2>7, <2>8 DEF CacheType
  <2>11. TagAdded(cache, cache')
    BY <2>6, <2>8, <2>9 DEF TagAdded
  <2>12. \A n \in AllNames : ts[n] \in objs \cup {None} /\ cache.heads[n] \in objs \cup {None}
    BY <2>5, <2>7, <2>8
  <2>13. CacheOK(cache')
    BY <1>1, <2>3, <2>9, <2>10, <2>12 DEF CacheOK
  <2> QED
    BY <1>2, <2>11, <2>13
<1> QED
  BY <1>3, <1>4

\* What resolveCheckoutRef looks at.
Found(c) == IF c.ref = NoName THEN {BranchTip(c.branch)} \ {None} ELSE Agreed(c.ref)

LEMMA FoundType ==
    ASSUME TypeInv, NEW c \in Configs
    PROVE  Found(c) \subseteq Commits /\ IsFiniteSet(Found(c))
<1>1. /\ c.branch \in AllNames /\ c.ref \in AllNames \cup {NoName}
      /\ cache.heads \in Refs /\ cache.tags \in Refs /\ cache.objects \subseteq Commits
  BY GitAssumption DEF TypeInv, CacheOK, CacheType
<1>2. CASE c.ref = NoName
  <2>1. Found(c) = {cache.heads[c.branch]} \ {None}
    BY <1>2 DEF Found, BranchTip
  <2>2. cache.heads[c.branch] \in Target
    BY <1>1 DEF Refs
  <2>3. IsFiniteSet({cache.heads[c.branch]})
    BY FS_Singleton
  <2>4. IsFiniteSet({cache.heads[c.branch]} \ {None})
    BY <2>3, FS_RemoveElement
  <2> QED
    BY <2>1, <2>2, <2>4 DEF Target
<1>3. CASE c.ref # NoName
  <2>1. Found(c) = {cache.tags[c.ref], cache.heads[c.ref], CommitNamed(c.ref)} \ {None}
    BY <1>3 DEF Found, Agreed, BranchTip
  <2>2. /\ cache.tags[c.ref] \in Target /\ cache.heads[c.ref] \in Target
        /\ CommitNamed(c.ref) \in Target
    BY <1>1, <1>3 DEF Refs, CommitNamed, Target
  <2>3. ASSUME NEW x, NEW y, NEW z PROVE IsFiniteSet({x, y, z})
    <3>1. IsFiniteSet({x})
      BY FS_Singleton
    <3>2. IsFiniteSet({x} \cup {y})
      BY <3>1, FS_AddElement
    <3>3. IsFiniteSet(({x} \cup {y}) \cup {z})
      BY <3>2, FS_AddElement
    <3>4. {x, y, z} = ({x} \cup {y}) \cup {z}
      OBVIOUS
    <3> QED
      BY <3>3, <3>4
  <2>4. IsFiniteSet({cache.tags[c.ref], cache.heads[c.ref], CommitNamed(c.ref)})
    BY <2>3
  <2> QED
    BY <2>1, <2>2, <2>4, FS_RemoveElement DEF Target
<1> QED
  BY <1>2, <1>3

LEMMA ResolveDoes ==
    ASSUME TypeInv, NEW p \in Procs, Resolve(p)
    PROVE  /\ JobsOK' /\ job'[p].cfg = job[p].cfg /\ \A q \in Procs : q # p => job'[q] = job[q]
           /\ job'[p].tip = job[p].tip
           /\ \/ /\ job'[p].pc = "checkout" /\ job'[p].res = "none"
                 /\ job'[p].sha # None /\ Found(job[p].cfg) = {job'[p].sha}
              \/ /\ job'[p].pc = "done" /\ job'[p].res # "ok"
                 /\ job'[p].res = "stale cache" => Found(job[p].cfg) = {} /\ RemoteHas(Wanted(p))
<1>1. JobsOK /\ job[p].pc = "resolve" /\ JobOK(job[p])
  BY DEF TypeInv, Resolve, JobsOK
<1>2. PICK c : c = job[p].cfg
  OBVIOUS
<1>3. PICK found : found = Found(c)
  OBVIOUS
<1>4. c \in Configs /\ found \subseteq Commits /\ IsFiniteSet(found)
  BY <1>1, <1>2, <1>3, ConfigOK, FoundType
<1>5. \/ /\ Cardinality(found) = 1
         /\ job' = [job EXCEPT ![p].pc = "checkout", ![p].sha = CHOOSE x \in found : TRUE]
      \/ Cardinality(found) > 1 /\ Ambiguous(p)
      \/ found = {} /\ \E r \in Remedies(Wanted(p)) : Finish(p, r)
      \/ ProbeFails(p)
  BY <1>2, <1>3 DEF Resolve, Found
<1>6. ASSUME NEW r \in Results, r # "ok", Finish(p, r),
             r = "stale cache" => found = {} /\ RemoteHas(Wanted(p))
      PROVE  /\ JobsOK' /\ job'[p].cfg = job[p].cfg /\ \A q \in Procs : q # p => job'[q] = job[q]
             /\ job'[p].tip = job[p].tip
             /\ job'[p].pc = "done" /\ job'[p].res # "ok"
             /\ job'[p].res = "stale cache" => found = {} /\ RemoteHas(Wanted(p))
  BY <1>1, <1>6, FinishJob DEF Working
<1>7. CASE /\ Cardinality(found) = 1
           /\ job' = [job EXCEPT ![p].pc = "checkout", ![p].sha = CHOOSE x \in found : TRUE]
  <2>1. PICK x : found = {x}
    BY <1>4, <1>7, FS_Singleton
  <2>2. x \in Commits /\ (CHOOSE y \in found : TRUE) = x
    BY <1>4, <2>1
  <2>3. job' = [job EXCEPT ![p].pc = "checkout", ![p].sha = x]
    BY <1>7, <2>2
  <2>4. /\ JobsOK' /\ job'[p].pc = "checkout" /\ job'[p].cfg = job[p].cfg
        /\ job'[p].res = "none" /\ job'[p].sha = x /\ job'[p].tip = job[p].tip
        /\ \A q \in Procs : q # p => job'[q] = job[q]
    BY <1>1, <2>2, <2>3, ResolveJob
  <2> QED
    BY <1>2, <1>3, <2>1, <2>2, <2>4, GitAssumption
<1>8. CASE Ambiguous(p)
  BY <1>2, <1>3, <1>6, <1>8 DEF Ambiguous, Results
<1>9. CASE found = {} /\ \E r \in Remedies(Wanted(p)) : Finish(p, r)
  <2>1. PICK r \in Remedies(Wanted(p)) : Finish(p, r)
    BY <1>9
  <2>2. r \in Results /\ r # "ok" /\ (r = "stale cache" => RemoteHas(Wanted(p)))
    BY DEF Remedies, Results
  <2> QED
    BY <1>2, <1>3, <1>6, <1>9, <2>1, <2>2
<1>10. CASE ProbeFails(p)
  BY <1>2, <1>3, <1>6, <1>10 DEF ProbeFails, Results
<1> QED
  BY <1>5, <1>7, <1>8, <1>9, <1>10

LEMMA CheckoutDoes ==
    ASSUME TypeInv, NEW p \in Procs, Checkout(p)
    PROVE  /\ JobsOK' /\ job'[p].cfg = job[p].cfg /\ \A q \in Procs : q # p => job'[q] = job[q]
           /\ job'[p].tip = job[p].tip /\ job'[p].sha = job[p].sha
           /\ \/ /\ job'[p].pc = "load" /\ job'[p].res = "none" /\ cache.exists
                 /\ \E h \in {job[p].sha} \cup ({cache.head} \cap {Torn}) :
                      h \in Target \cup {Torn} /\ cache' = [cache EXCEPT !.head = h]
              \/ /\ job'[p].pc = "done" /\ job'[p].res = "git failed"
                 /\ cache' \in {cache} \cup CutShort(p)
<1>1. JobsOK /\ job[p].pc = "checkout" /\ CacheOK(cache)
  BY DEF TypeInv, Checkout
<1>2. CASE /\ job[p].sha \in cache.objects
           /\ \E h \in {job[p].sha} \cup ({cache.head} \cap {Torn}) :
                cache' = [cache EXCEPT !.head = h]
           /\ Step(p, "load")
  <2>1. cache.exists /\ job[p].sha \in Target
    BY <1>1, <1>2 DEF CacheOK, CacheType, Target
  <2> QED
    BY <1>1, <1>2, <2>1, StepJob DEF Working
<1>3. CASE CheckoutError(p) /\ cache' \in {cache} \cup CutShort(p)
  BY <1>1, <1>3, FinishJob DEF CheckoutError, GitFails, Results, Working
<1> QED
  BY <1>2, <1>3 DEF Checkout

LEMMA LoadDoes ==
    ASSUME TypeInv, NEW p \in Procs, Load(p)
    PROVE  /\ JobsOK' /\ job'[p].cfg = job[p].cfg /\ \A q \in Procs : q # p => job'[q] = job[q]
           /\ job'[p].tip = job[p].tip /\ job'[p].sha = job[p].sha /\ job'[p].pc = "done"
           /\ \/ /\ job'[p].res = "ok"
                 /\ index' = [index EXCEPT ![p] = cache.head]
                 /\ \/ pinned' = pinned
                    \/ /\ job[p].cfg.ref # NoName /\ cache.tags[job[p].cfg.ref] # None
                       /\ pinned' = [pinned EXCEPT ![job[p].cfg.ref] =
                                       IF @ = None THEN cache.tags[job[p].cfg.ref] ELSE @]
              \/ job'[p].res = "load failed" /\ UNCHANGED <<index, pinned>>
<1>1. JobsOK /\ job[p].pc = "load"
  BY DEF TypeInv, Load
<1>2. CASE Finish(p, "ok") /\ index' = [index EXCEPT ![p] = cache.head]
           /\ pinned' = IF /\ job[p].cfg.ref # NoName
                           /\ cache.tags[job[p].cfg.ref] # None
                        THEN [pinned EXCEPT ![job[p].cfg.ref] =
                                IF @ = None THEN cache.tags[job[p].cfg.ref] ELSE @]
                        ELSE pinned
  BY <1>1, <1>2, FinishJob DEF Results, Working
<1>3. CASE Finish(p, "load failed") /\ UNCHANGED <<index, pinned>>
  BY <1>1, <1>3, FinishJob DEF Results, Working
<1> QED
  BY <1>2, <1>3 DEF Load

LEMMA KillDoes ==
    ASSUME TypeInv, NEW p \in Procs, Kill(p)
    PROVE  /\ JobsOK' /\ job'[p] = NoJob /\ \A q \in Procs : q # p => job'[q] = job[q]
           /\ job[p].pc \in Working /\ cache' \in {cache} \cup CutShort(p)
<1>1. JobsOK /\ job' = [job EXCEPT ![p] = NoJob]
  BY DEF TypeInv, Kill
<1>2. JobsOK' /\ job'[p] = NoJob /\ \A q \in Procs : q # p => job'[q] = job[q]
  BY <1>1, NoJobOK, JobUpdate
<1>3. job[p].pc \in Working
  BY <1>1 DEF Kill, JobsOK, JobType
<1> QED
  BY <1>2, <1>3 DEF Kill

\* The pins that are left are pins.
LEMMA HeldType ==
    ASSUME NEW c, pinned \in Refs
    PROVE  /\ Held(c) \in Refs
           /\ \A n \in AllNames : Held(c)[n] # None => c.tags[n] # None /\ Held(c)[n] = pinned[n]
BY DEF Held, Refs, Target

\* Another commit, or none, is checked out.
LEMMA HeadMoved ==
    ASSUME CacheOK(cache), NEW h \in Target \cup {Torn}, cache' = [cache EXCEPT !.head = h],
           cache.exists
    PROVE  /\ CacheOK(cache')
           /\ cache'.exists /\ cache'.head = h /\ cache'.refspec = cache.refspec
           /\ cache'.heads = cache.heads /\ cache'.tags = cache.tags
           /\ cache'.objects = cache.objects
<1>1. /\ cache'.exists = cache.exists /\ cache'.refspec = cache.refspec
      /\ cache'.heads = cache.heads /\ cache'.head = h
      /\ cache'.tags = cache.tags /\ cache'.objects = cache.objects
  BY DEF CacheOK, CacheType
<1>2. cache' \in CacheType
  BY DEF CacheOK, CacheType
<1> QED
  BY <1>1, <1>2 DEF CacheOK

LEMMA PushDoes ==
    ASSUME TypeInv, Push
    PROVE  /\ RemoteOK'
           /\ \A n \in AllNames : remote'.tags[n] # None =>
                remote.tags[n] # None \/ \E t \in Tags : t[1] = n
<1>1. remote \in [heads : Refs, tags : Refs]
  BY DEF TypeInv, RemoteOK
<1>2. ASSUME NEW n \in AllNames, NEW x \in Target, remote' = [remote EXCEPT !.heads[n] = x]
      PROVE  RemoteOK' /\ remote'.tags = remote.tags
  BY <1>1, <1>2 DEF RemoteOK, Refs
<1>3. ASSUME NEW n \in AllNames, NEW x \in Target, remote' = [remote EXCEPT !.tags[n] = x]
      PROVE  RemoteOK' /\ \A m \in AllNames : m # n => remote'.tags[m] = remote.tags[m]
  BY <1>1, <1>3 DEF RemoteOK, Refs
<1>4. CASE \E h \in Heads : remote' = [remote EXCEPT !.heads[h[1]] = h[2]]
  <2>1. PICK h \in Heads : remote' = [remote EXCEPT !.heads[h[1]] = h[2]]
    BY <1>4
  <2>2. h[1] \in AllNames /\ h[2] \in Target
    BY GitAssumption DEF Target
  <2> QED
    BY <1>2, <2>1, <2>2
<1>5. CASE \E t \in Tags : remote' = [remote EXCEPT !.tags[t[1]] = t[2]]
  <2>1. PICK t \in Tags : remote' = [remote EXCEPT !.tags[t[1]] = t[2]]
    BY <1>5
  <2>2. t[1] \in AllNames /\ t[2] \in Target
    BY GitAssumption DEF Target
  <2> QED
    BY <1>3, <2>1, <2>2
<1>6. CASE \E h \in Heads : remote' = [remote EXCEPT !.heads[h[1]] = None]
  <2>1. PICK h \in Heads : remote' = [remote EXCEPT !.heads[h[1]] = None]
    BY <1>6
  <2>2. h[1] \in AllNames /\ None \in Target
    BY GitAssumption DEF Target
  <2> QED
    BY <1>2, <2>1, <2>2
<1>7. CASE \E t \in Tags : remote' = [remote EXCEPT !.tags[t[1]] = None]
  <2>1. PICK t \in Tags : remote' = [remote EXCEPT !.tags[t[1]] = None]
    BY <1>7
  <2>2. t[1] \in AllNames /\ None \in Target
    BY GitAssumption DEF Target
  <2> QED
    BY <1>3, <2>1, <2>2
<1> QED
  BY <1>4, <1>5, <1>6, <1>7 DEF Push

LEMMA TypeInit == Init => TypeInv
<1> SUFFICES ASSUME Init PROVE TypeInv
  OBVIOUS
<1>1. RemoteOK
  <2>1. PICK h \in Heads :
          remote = [heads |-> [n \in AllNames |-> IF n = h[1] THEN h[2] ELSE None],
                    tags |-> [n \in AllNames |-> None]]
    BY DEF Init
  <2>2. h[2] \in Commits
    BY GitAssumption
  <2> QED
    BY <2>1, <2>2 DEF RemoteOK, Refs, Target
<1>2. CacheOK(cache)
  BY NoCacheOK DEF Init
<1>3. JobsOK
  BY NoJobOK DEF Init, JobsOK, JobOK
<1>4. /\ index \in [Procs -> Target \cup {Torn}] /\ pinned \in Refs /\ steady \in BOOLEAN
      /\ crossed \in SUBSET Procs
  BY DEF Init, Refs, Target
<1>5. moves \in 0..MaxMoves /\ pulls \in 0..MaxPulls /\ kills \in 0..MaxKills
  BY GitAssumption DEF Init
<1> QED
  BY <1>1, <1>2, <1>3, <1>4, <1>5 DEF TypeInv

LEMMA TypeStep == TypeInv /\ [Next]_vars => TypeInv'
<1> SUFFICES ASSUME TypeInv, [Next]_vars PROVE TypeInv'
  OBVIOUS
<1>1. /\ RemoteOK /\ CacheOK(cache) /\ JobsOK
      /\ index \in [Procs -> Target \cup {Torn}] /\ pinned \in Refs /\ steady \in BOOLEAN
      /\ crossed \in SUBSET Procs
      /\ moves \in 0..MaxMoves /\ pulls \in 0..MaxPulls /\ kills \in 0..MaxKills
  BY DEF TypeInv
<1>2. cache.head \in Target \cup {Torn} /\ cache.objects \subseteq Commits /\ cache.tags \in Refs
  BY <1>1 DEF CacheOK, CacheType
<1>3. MaxMoves \in Nat /\ MaxPulls \in Nat /\ MaxKills \in Nat
  BY GitAssumption
<1>4. ASSUME NEW p \in Procs, Writes(p) PROVE crossed' \in SUBSET Procs
  BY <1>1, <1>4 DEF Writes
<1>5. CASE UNCHANGED vars
  BY <1>1, <1>5 DEF vars, TypeInv, RemoteOK, JobsOK
<1>6. CASE Push
  <2>1. moves' \in 0..MaxMoves
    BY <1>1, <1>3, <1>6 DEF Push
  <2>2. JobsOK' /\ steady' \in BOOLEAN
    BY <1>1, <1>6 DEF Push, JobsOK
  <2>3. UNCHANGED <<cache, index, pulls, kills, pinned, crossed>>
    BY <1>6 DEF Push
  <2> QED
    BY <1>1, <1>6, <2>1, <2>2, <2>3, PushDoes DEF TypeInv
<1>7. ASSUME NEW p \in Procs, Begin(p) PROVE TypeInv'
  <2>1. pulls' \in 0..MaxPulls
    <3>1. pulls < MaxPulls /\ pulls' = pulls + 1
      BY <1>7 DEF Begin
    <3> QED
      BY <1>1, <1>3, <3>1
  <2>2. UNCHANGED <<remote, cache, index, moves, kills, pinned, steady>> /\ crossed' = crossed \ {p} /\ JobsOK'
    BY <1>7, BeginDoes
  <2>3. crossed' \in SUBSET Procs
    BY <1>1, <2>2
  <2> QED
    BY <1>1, <2>1, <2>2, <2>3 DEF TypeInv, RemoteOK
<1>8. ASSUME NEW p \in Procs, Remove(p) PROVE TypeInv'
  <2>1. UNCHANGED <<remote, index, Counters, steady>> /\ pinned' = Held(cache') /\ Writes(p)
        /\ job[p].pc \in Working
    BY <1>8 DEF Remove, Working
  <2>2. JobsOK' /\ (cache' = NoCache \/ cache' \in {cache} \cup CutShort(p))
    BY <1>8, RemoveDoes
  <2>3. CacheOK(cache')
    BY <2>1, <2>2, NoCacheOK, CutOK
  <2>4. pinned' \in Refs
    BY <1>1, <2>1, HeldType
  <2> QED
    BY <1>1, <1>4, <2>1, <2>2, <2>3, <2>4 DEF TypeInv, RemoteOK, Counters
<1>9. ASSUME NEW p \in Procs, Clone(p) PROVE TypeInv'
  <2>1. UNCHANGED <<remote, index, Counters, pinned>> /\ Writes(p) /\ job[p].pc \in Working
    BY <1>9 DEF Clone, Working
  <2>2. steady' \in BOOLEAN
    BY <1>1, <1>9 DEF Clone
  <2>3. JobsOK' /\ (Cloned(p) \/ cache' \in {cache} \cup CutShort(p))
    BY <1>9, CloneDoes
  <2>4. CacheOK(cache')
    BY <2>1, <2>3, CutOK DEF Cloned
  <2> QED
    BY <1>1, <1>4, <2>1, <2>2, <2>3, <2>4 DEF TypeInv, RemoteOK, Counters
<1>10. ASSUME NEW p \in Procs, Fetch(p) PROVE TypeInv'
  <2>1. UNCHANGED <<remote, index, Counters, pinned, steady>> /\ cache.exists /\ Writes(p)
        /\ job[p].pc \in Working
    BY <1>10 DEF Fetch, Working
  <2>2. JobsOK' /\ (cache' \in {cache} \cup CutShort(p) \/ (Fetchable /\ cache' \in Fetched))
    BY <1>10, FetchDoes
  <2>3. CacheOK(cache')
    BY <1>1, <2>1, <2>2, CutOK, FetchedOK
  <2> QED
    BY <1>1, <1>4, <2>1, <2>2, <2>3 DEF TypeInv, RemoteOK, Counters
<1>11. ASSUME NEW p \in Procs, FetchPinnedTag(p) PROVE TypeInv'
  <2>1. UNCHANGED <<remote, index, Counters, pinned, steady>> /\ Writes(p)
    BY <1>11 DEF FetchPinnedTag
  <2> QED
    BY <1>1, <1>4, <1>11, <2>1, PinnedTagDoes DEF TypeInv, RemoteOK, Counters
<1>12. ASSUME NEW p \in Procs, Resolve(p) PROVE TypeInv'
  <2>1. UNCHANGED <<remote, cache, index, Counters, pinned, steady, crossed>>
    BY <1>12 DEF Resolve
  <2> QED
    BY <1>1, <1>12, <2>1, ResolveDoes DEF TypeInv, RemoteOK, Counters
<1>13. ASSUME NEW p \in Procs, Checkout(p) PROVE TypeInv'
  <2>1. UNCHANGED <<remote, index, Counters, pinned, steady>> /\ Writes(p) /\ job[p].pc \in Working
    BY <1>13 DEF Checkout, Working
  <2>2. /\ JobsOK'
        /\ \/ cache' \in {cache} \cup CutShort(p)
           \/ cache.exists /\ \E h \in Target \cup {Torn} : cache' = [cache EXCEPT !.head = h]
    BY <1>13, CheckoutDoes
  <2>3. CacheOK(cache')
    BY <1>1, <2>1, <2>2, CutOK, HeadMoved
  <2> QED
    BY <1>1, <1>4, <2>1, <2>2, <2>3 DEF TypeInv, RemoteOK, Counters
<1>14. ASSUME NEW p \in Procs, Load(p) PROVE TypeInv'
  <2>1. UNCHANGED <<remote, cache, Counters, steady, crossed>>
    BY <1>14 DEF Load
  <2>2. JobsOK' /\ index' \in [Procs -> Target \cup {Torn}]
    BY <1>1, <1>2, <1>14, LoadDoes
  <2>3. pinned' \in Refs
    <3>1. job[p].pc = "load" /\ job[p].cfg.ref \in AllNames \cup {NoName}
      BY <1>1, <1>14, ConfigOK DEF Load, JobsOK
    <3>2. \/ pinned' = pinned
          \/ /\ job[p].cfg.ref # NoName
             /\ pinned' = [pinned EXCEPT ![job[p].cfg.ref] =
                             IF @ = None THEN cache.tags[job[p].cfg.ref] ELSE @]
      BY <1>14, LoadDoes
    <3> QED
      BY <1>1, <1>2, <3>1, <3>2 DEF Refs
  <2> QED
    BY <1>1, <2>1, <2>2, <2>3 DEF TypeInv, RemoteOK, Counters
<1>15. ASSUME NEW p \in Procs, Kill(p) PROVE TypeInv'
  <2>1. UNCHANGED <<remote, moves, pulls, steady>> /\ kills' \in 0..MaxKills
        /\ pinned' = Held(cache') /\ Writes(p)
    BY <1>1, <1>3, <1>15 DEF Kill
  <2>2. index' \in [Procs -> Target \cup {Torn}]
    BY <1>1, <1>15 DEF Kill, Target
  <2>3. JobsOK' /\ CacheOK(cache')
    BY <1>15, KillDoes, CutOK
  <2>4. pinned' \in Refs
    BY <1>1, <2>1, HeldType
  <2> QED
    BY <1>1, <1>4, <2>1, <2>2, <2>3, <2>4 DEF TypeInv, RemoteOK
<1>16. ASSUME NEW p \in Procs, New(p) PROVE TypeInv'
  <2>1. UNCHANGED <<remote, cache, job, Counters, pinned, steady, crossed>>
    BY <1>16 DEF New
  <2>2. index' \in [Procs -> Target \cup {Torn}]
    BY <1>1, <1>2, <1>16 DEF New
  <2> QED
    BY <1>1, <2>1, <2>2 DEF TypeInv, RemoteOK, JobsOK, Counters
<1> QED
  BY <1>5, <1>6, <1>7, <1>8, <1>9, <1>10, <1>11, <1>12, <1>13, <1>14, <1>15, <1>16
     DEF Next, Pull

\* The types of the variables, and that a cache names only what it has, for any number
\* of processes.
THEOREM TypeCorrect == Spec => []TypeOK
<1>1. TypeInv => TypeOK
  <2> SUFFICES ASSUME TypeInv PROVE TypeOK
    OBVIOUS
  <2>1. /\ remote \in [heads : [AllNames -> Target], tags : [AllNames -> Target]]
        /\ index \in [Procs -> Target \cup {Torn}]
        /\ pinned \in [AllNames -> Target] /\ steady \in BOOLEAN /\ crossed \subseteq Procs
        /\ moves \in 0..MaxMoves /\ pulls \in 0..MaxPulls /\ kills \in 0..MaxKills
    BY DEF TypeInv, RemoteOK, Refs
  <2>2. /\ cache.exists \in BOOLEAN /\ cache.head \in Target \cup {Torn}
        /\ cache.objects \subseteq Commits
        /\ \A n \in AllNames : {cache.heads[n], cache.tags[n]} \subseteq cache.objects \cup {None}
    BY DEF TypeInv, CacheOK, CacheType
  <2>3. \A p \in Procs : job[p].sha \in Target /\ job[p].tip \in Target
    BY DEF TypeInv, JobsOK, JobType
  <2> QED
    BY <2>1, <2>2, <2>3 DEF TypeOK
<1> QED
  BY <1>1, TypeInit, TypeStep, PTL DEF Spec

-----------------------------------------------------------------------------
(* What a step leaves to the other processes. *)

\* A process whose cache nobody else has written sees what it saw.
LEMMA OthersSee ==
    ASSUME TypeInv, NEW p \in Procs, Pull(p) \/ Kill(p) \/ New(p),
           NEW q \in Procs, q # p, q \notin crossed'
    PROVE  /\ UNCHANGED <<cache, remote, steady>> /\ q \notin crossed
           /\ job'[q] = job[q] /\ index'[q] = index[q]
<1>1. q \in crossed' \/ ~Writes(p)
  BY DEF Writes
<1>2. index \in [Procs -> Target \cup {Torn}]
  BY DEF TypeInv
<1>3. CASE Remove(p) \/ Clone(p) \/ Fetch(p) \/ FetchPinnedTag(p) \/ Checkout(p) \/ Kill(p)
  BY <1>1, <1>3 DEF Remove, Clone, Fetch, FetchPinnedTag, Checkout, Kill
<1>4. CASE Begin(p)
  BY <1>4, BeginDoes
<1>5. CASE Resolve(p)
  BY <1>5, ResolveDoes DEF Resolve
<1>6. CASE Load(p)
  <2>1. job'[q] = job[q] /\ UNCHANGED <<cache, remote, steady, crossed>>
    BY <1>6, LoadDoes DEF Load
  <2>2. index'[q] = index[q]
    BY <1>2, <1>6 DEF Load
  <2> QED
    BY <2>1, <2>2
<1>7. CASE New(p)
  BY <1>2, <1>7 DEF New
<1> QED
  BY <1>3, <1>4, <1>5, <1>6, <1>7 DEF Pull

\* Only a new pull clears what others have written.
LEMMA OwnSees ==
    ASSUME TypeInv, NEW p \in Procs, Pull(p) \/ Kill(p) \/ New(p), ~Begin(p), p \notin crossed'
    PROVE  p \notin crossed
BY DEF Pull, Remove, Clone, Fetch, FetchPinnedTag, Resolve, Checkout, Load, Kill, New, Writes

-----------------------------------------------------------------------------
(* The commit that is indexed. *)

\* A pull without a commit owes nothing but a fresh cache.
LEMMA NothingJudged ==
    ASSUME NEW p \in Procs, ~HasCommit(job'[p]), Fresh(p)'
    PROVE  Judged(p)'
BY DEF Judged, HasCommit, Came

LEMMA JudgeStep == JudgeInv /\ [Next]_vars => JudgeInv'
<1> SUFFICES ASSUME JudgeInv, [Next]_vars PROVE \A p \in Procs : JudgeOK(p)'
  BY TypeStep DEF JudgeInv
<1>1. TypeInv /\ JobsOK /\ CacheOK(cache) /\ \A p \in Procs : JudgeOK(p)
  BY DEF JudgeInv, TypeInv
<1>2. ASSUME NEW q \in Procs, Judged(q), cache' = cache, job'[q] = job[q], index'[q] = index[q]
      PROVE  Judged(q)'
  BY <1>2 DEF Judged, Fresh, Whole, Came, HasCommit, Agreed, BranchTip, CommitNamed
\* It is enough to look at the process that takes the step, and at what it did not lose.
<1>3. ASSUME NEW p \in Procs, Pull(p) \/ Kill(p) \/ New(p),
             p \notin crossed' /\ (Begin(p) \/ Judged(p)) => Judged(p)'
      PROVE  \A q \in Procs : JudgeOK(q)'
  <2> SUFFICES ASSUME NEW q \in Procs, q \notin crossed' PROVE Judged(q)'
    BY DEF JudgeOK
  <2>1. CASE q = p
    BY <1>1, <1>3, <2>1, OwnSees DEF JudgeOK
  <2>2. CASE q # p
    <3>1. UNCHANGED cache /\ q \notin crossed /\ job'[q] = job[q] /\ index'[q] = index[q]
      BY <1>1, <1>3, <2>2, OthersSee
    <3> QED
      BY <1>1, <1>2, <3>1 DEF JudgeOK
  <2> QED
    BY <2>1, <2>2
\* A pull that is over without a commit, or that may find anything.
<1>4. ASSUME NEW p \in Procs, ~HasCommit(job'[p]),
             job'[p].pc \in {"idle", "done", "remove"} \/ ~job'[p].cfg.force
      PROVE  Judged(p)'
  BY <1>4, NothingJudged DEF Fresh
<1>5. ASSUME NEW p \in Procs, Begin(p) PROVE Judged(p)'
  BY <1>1, <1>4, <1>5, BeginDoes DEF HasCommit
<1>6. ASSUME NEW p \in Procs, Remove(p) PROVE Judged(p)'
  <2>1. CASE job'[p].pc = "sync" /\ cache' = NoCache
    <3>1. ~cache'.exists
      BY <2>1 DEF NoCache
    <3> QED
      BY <2>1, <3>1, NothingJudged DEF HasCommit, Fresh
  <2>2. CASE job'[p].pc = "done" /\ job'[p].res = "remove failed"
    BY <1>4, <2>2 DEF HasCommit
  <2> QED
    BY <1>1, <1>6, <2>1, <2>2, RemoveDoes
<1>7. ASSUME NEW p \in Procs, Clone(p) PROVE Judged(p)'
  <2>1. CASE Cloned(p)
    <3>1. cache'.head # Torn /\ job'[p].pc = "resolve"
      BY <2>1, GitAssumption DEF Cloned, Target
    <3> QED
      BY <3>1, NothingJudged DEF HasCommit, Fresh
  <2>2. CASE job'[p].pc = "done" /\ job'[p].res = "git failed"
    BY <1>4, <2>2 DEF HasCommit
  <2> QED
    BY <1>1, <1>7, <2>1, <2>2, CloneDoes
<1>8. ASSUME NEW p \in Procs, Fetch(p), Judged(p) PROVE Judged(p)'
  <2>1. ~job[p].cfg.force
    BY <1>8 DEF Judged, Fresh, Fetch
  <2>2. job'[p].cfg = job[p].cfg /\ ~HasCommit(job'[p])
    BY <1>1, <1>8, FetchDoes DEF HasCommit
  <2> QED
    BY <1>4, <2>1, <2>2
<1>9. ASSUME NEW p \in Procs, FetchPinnedTag(p), Judged(p) PROVE Judged(p)'
  <2>1. job[p].pc = "tag"
    BY <1>9 DEF FetchPinnedTag
  <2>2. job'[p].cfg = job[p].cfg /\ job'[p].pc = "resolve" /\ cache'.head = cache.head
    BY <1>1, <1>9, PinnedTagDoes DEF TagAdded
  <2> QED
    BY <1>9, <2>1, <2>2, NothingJudged DEF Judged, Fresh, HasCommit
<1>10. ASSUME NEW p \in Procs, Resolve(p), Judged(p) PROVE Judged(p)'
  <2>1. job'[p].cfg = job[p].cfg /\ job[p].pc = "resolve" /\ UNCHANGED cache
    BY <1>1, <1>10, ResolveDoes DEF Resolve
  <2>2. CASE job'[p].pc = "checkout"
    <3>1. job'[p].sha # None /\ Found(job[p].cfg) = {job'[p].sha}
      BY <1>1, <1>10, <2>2, ResolveDoes
    <3>2. job'[p].cfg.ref = NoName => job'[p].sha = cache.heads[job[p].cfg.branch]
      BY <2>1, <3>1 DEF Found, BranchTip
    <3>3. job'[p].cfg.ref # NoName => Agreed(job[p].cfg.ref) = {job'[p].sha}
      BY <2>1, <3>1 DEF Found
    <3>4. Fresh(p)'
      BY <1>10, <2>1, <2>2 DEF Judged, Fresh
    <3> QED
      BY <2>1, <2>2, <3>1, <3>2, <3>3, <3>4
         DEF Judged, Came, Agreed, BranchTip, CommitNamed
  <2>3. CASE job'[p].pc # "checkout"
    BY <1>1, <1>4, <1>10, <2>3, ResolveDoes DEF HasCommit
  <2> QED
    BY <2>2, <2>3
<1>11. ASSUME NEW p \in Procs, Checkout(p), Judged(p) PROVE Judged(p)'
  <2>1. /\ job'[p].cfg = job[p].cfg /\ job'[p].sha = job[p].sha /\ job[p].pc = "checkout"
    BY <1>1, <1>11, CheckoutDoes DEF Checkout
  <2>2. CASE job'[p].pc = "load"
    <3>1. PICK h \in {job[p].sha} \cup ({cache.head} \cap {Torn}) :
            h \in Target \cup {Torn} /\ cache' = [cache EXCEPT !.head = h]
      BY <1>1, <1>11, <2>2, CheckoutDoes
    <3>2. cache.exists /\ job[p].sha \in Target
      BY <1>1, <1>11, <2>2, CheckoutDoes DEF JobsOK, JobType
    <3>3. /\ cache'.head = h /\ cache'.heads = cache.heads /\ cache'.tags = cache.tags
          /\ cache'.objects = cache.objects
      BY <1>1, <3>1, <3>2, HeadMoved
    <3>4. job[p].cfg.force => cache.head # Torn
      BY <1>11, <2>1 DEF Judged, Fresh
    <3>5. job[p].sha # Torn
      BY <3>2, GitAssumption DEF Target
    <3>6. h = job[p].sha \/ (h = Torn /\ ~job[p].cfg.force)
      BY <3>1, <3>4
    <3>7. Fresh(p)' /\ Whole(p, cache.head)'
      BY <2>1, <2>2, <3>3, <3>5, <3>6 DEF Fresh, Whole
    <3> QED
      BY <1>11, <2>1, <2>2, <3>3, <3>7
         DEF Judged, HasCommit, Came, Agreed, BranchTip, CommitNamed
  <2>3. CASE job'[p].pc # "load"
    BY <1>1, <1>4, <1>11, <2>3, CheckoutDoes DEF HasCommit
  <2> QED
    BY <2>2, <2>3
<1>12. ASSUME NEW p \in Procs, Load(p), Judged(p) PROVE Judged(p)'
  <2>1. /\ job'[p].cfg = job[p].cfg /\ job'[p].sha = job[p].sha /\ job'[p].pc = "done"
        /\ UNCHANGED cache /\ job[p].pc = "load"
    BY <1>1, <1>12, LoadDoes DEF Load
  <2>2. CASE job'[p].res = "ok"
    <3>1. index'[p] = cache.head
      BY <1>1, <1>12, <2>2, LoadDoes DEF TypeInv
    <3>2. Whole(p, cache.head)
      BY <1>12, <2>1 DEF Judged
    <3>3. Whole(p, index[p])' /\ Fresh(p)'
      BY <2>1, <3>1, <3>2 DEF Whole, Fresh
    <3> QED
      BY <1>12, <2>1, <3>3 DEF Judged, HasCommit, Agreed, BranchTip, CommitNamed
  <2>3. CASE job'[p].res # "ok"
    BY <1>4, <2>1, <2>3 DEF HasCommit
  <2> QED
    BY <2>2, <2>3
<1>13. ASSUME NEW p \in Procs, Kill(p) PROVE Judged(p)'
  BY <1>1, <1>4, <1>13, KillDoes, NoJobOK DEF HasCommit
<1>14. ASSUME NEW p \in Procs, New(p) PROVE Judged(p)'
  <2>1. job'[p].pc = "idle"
    BY <1>14 DEF New
  <2> QED
    BY <1>4, <2>1 DEF HasCommit
<1>15. ASSUME NEW p \in Procs, Pull(p) \/ Kill(p) \/ New(p) PROVE \A q \in Procs : JudgeOK(q)'
  <2>1. Begin(p) \/ Judged(p) => Judged(p)'
    BY <1>5, <1>6, <1>7, <1>8, <1>9, <1>10, <1>11, <1>12, <1>13, <1>14, <1>15 DEF Pull
  <2> QED
    BY <1>3, <1>15, <2>1
<1>16. CASE Push \/ UNCHANGED vars
  <2>1. UNCHANGED <<cache, job, index, crossed>>
    BY <1>16 DEF Push, vars
  <2> QED
    BY <1>1, <1>2, <2>1 DEF JudgeOK
<1> QED
  BY <1>15, <1>16 DEF Next

LEMMA JudgeInit == Init => JudgeInv
<1> SUFFICES ASSUME Init, NEW p \in Procs PROVE JudgeOK(p)
  BY TypeInit DEF JudgeInv
<1>1. job[p].pc = "idle"
  BY NoJobOK DEF Init
<1> QED
  BY <1>1 DEF JudgeOK, Judged, Fresh, HasCommit, Came

\* What a pull indexes is the commit that its resolution found by the configured name
\* and judged unambiguous, or a mixture that a pull cut short has left where this one
\* did not have Force; for any number of processes, as far as no other one wrote the
\* cache meanwhile.
THEOREM CommitIsJudged == Spec => []IndexedIsJudged
<1>1. JudgeInv => IndexedIsJudged
  BY DEF JudgeInv, JudgeOK, Judged, Came, Whole, Succeeded, IndexedIsJudged
<1> QED
  BY <1>1, JudgeInit, JudgeStep, PTL DEF Spec

-----------------------------------------------------------------------------
(* Pins. *)

LEMMA PinInit == Init => PinInv
<1> SUFFICES ASSUME Init PROVE PinInv
  OBVIOUS
<1>1. \A n \in AllNames : remote.tags[n] = None /\ pinned[n] = None
  BY DEF Init
<1>2. cache.refspec[1] # "tag"
  BY NoCacheOK DEF Init
<1> QED
  BY <1>1, <1>2 DEF PinInv

LEMMA PinStep ==
    ASSUME NoBranchIsTag
    PROVE  TypeInv /\ PinInv /\ [Next]_vars => PinInv'
<1> SUFFICES ASSUME TypeInv, PinInv, [Next]_vars PROVE PinInv'
  OBVIOUS
<1>1. /\ CacheOK(cache) /\ JobsOK /\ RemoteOK /\ pinned \in Refs
      /\ \A n \in AllNames : pinned[n] # None => cache.tags[n] = pinned[n]
      /\ \A n \in AllNames : remote.tags[n] # None => \E t \in Tags : t[1] = n
      /\ cache.refspec[1] # "tag"
  BY DEF TypeInv, PinInv
<1>2. ASSUME UNCHANGED <<remote, pinned>>, cache'.refspec[1] # "tag",
             \A n \in AllNames : cache.tags[n] # None => cache'.tags[n] = cache.tags[n]
      PROVE  PinInv'
  BY <1>1, <1>2 DEF PinInv
<1>3. CASE UNCHANGED <<remote, pinned, cache>>
  BY <1>1, <1>3 DEF PinInv
<1>4. CASE Push
  <2>1. UNCHANGED <<cache, pinned>>
    BY <1>4 DEF Push
  <2> QED
    BY <1>1, <1>4, <2>1, PushDoes DEF PinInv
<1>5. ASSUME NEW p \in Procs, job[p].pc \in Working, cache' \in {cache} \cup CutShort(p)
      PROVE  /\ cache'.refspec[1] # "tag"
             /\ \A n \in AllNames :
                  /\ cache.tags[n] # None /\ cache'.tags[n] # None => cache'.tags[n] = cache.tags[n]
                  /\ cache.tags[n] # None /\ job[p].pc # "remove" => cache'.tags[n] = cache.tags[n]
  <2>1. job[p].cfg \in Configs /\ job[p].cfg.branch \in AllNames
    BY <1>1, <1>5, ConfigOK DEF JobsOK, Working
  <2>2. remote.tags[job[p].cfg.branch] = None
    BY <1>1, <2>1 DEF NoBranchIsTag
  <2>3. PICK x \in {cache} \cup CutShort(p) : x = cache'
    BY <1>5
  <2>4. /\ \A n \in AllNames :
             /\ cache.tags[n] # None /\ x.tags[n] # None => x.tags[n] = cache.tags[n]
             /\ cache.tags[n] # None /\ job[p].pc # "remove" => x.tags[n] = cache.tags[n]
        /\ x.refspec[1] = "tag" => remote.tags[job[p].cfg.branch] # None
    BY <1>1, <1>5, CutOK
  <2> QED
    BY <2>2, <2>3, <2>4
\* A pin is given up with the tag.
<1>6. ASSUME UNCHANGED remote, pinned' = Held(cache'), cache'.refspec[1] # "tag",
             \A n \in AllNames :
               cache.tags[n] # None /\ cache'.tags[n] # None => cache'.tags[n] = cache.tags[n]
      PROVE  PinInv'
  <2>1. \A n \in AllNames : pinned'[n] # None => cache'.tags[n] # None /\ pinned'[n] = pinned[n]
    BY <1>1, <1>6, HeldType
  <2> QED
    BY <1>1, <1>6, <2>1 DEF PinInv
<1>7. ASSUME NEW p \in Procs, Remove(p) \/ Kill(p) PROVE PinInv'
  <2>1. UNCHANGED remote /\ pinned' = Held(cache') /\ job[p].pc \in Working
    BY <1>7, KillDoes DEF Remove, Kill, Working
  <2>2. CASE cache' = NoCache
    <3>1. cache'.refspec[1] # "tag" /\ \A n \in AllNames : cache'.tags[n] = None
      BY <2>2, NoCacheOK DEF NoCache
    <3> QED
      BY <1>6, <2>1, <3>1
  <2>3. CASE cache' \in {cache} \cup CutShort(p)
    BY <1>5, <1>6, <2>1, <2>3
  <2> QED
    BY <1>7, <2>2, <2>3, RemoveDoes, KillDoes
<1>15. ASSUME NEW p \in Procs, Clone(p) PROVE PinInv'
  <2>1. UNCHANGED <<remote, pinned>> /\ ~cache.exists /\ job[p].pc = "sync"
    BY <1>15 DEF Clone
  <2>2. CASE cache' \in {cache} \cup CutShort(p)
    BY <1>2, <1>5, <2>1, <2>2 DEF Working
  <2>3. CASE Cloned(p)
    <3>1. \A n \in AllNames : cache.tags[n] = None
      BY <1>1, <2>1 DEF CacheOK
    <3>2. cache'.refspec[1] = "tag" => remote.tags[job[p].cfg.branch] # None
      BY <2>3 DEF Cloned
    <3>3. job[p].cfg \in Configs /\ job[p].cfg.branch \in AllNames
      BY <1>1, <2>1, ConfigOK DEF JobsOK
    <3>4. remote.tags[job[p].cfg.branch] = None
      BY <1>1, <3>3 DEF NoBranchIsTag
    <3> QED
      BY <1>2, <2>1, <3>1, <3>2, <3>4
  <2> QED
    BY <1>15, <2>2, <2>3, CloneDoes
<1>16. ASSUME NEW p \in Procs, Fetch(p) PROVE PinInv'
  <2>1. UNCHANGED <<remote, pinned>> /\ cache.exists /\ job[p].pc = "sync"
    BY <1>16 DEF Fetch
  <2>2. CASE cache' \in {cache} \cup CutShort(p)
    BY <1>2, <1>5, <2>1, <2>2 DEF Working
  <2>3. CASE Fetchable /\ cache' \in Fetched
    <3>1. PICK x \in Fetched : x = cache'
      BY <2>3
    <3>2. /\ x.refspec = cache.refspec
          /\ \A n \in AllNames : cache.tags[n] # None => x.tags[n] = cache.tags[n]
      BY <1>1, <2>1, <2>3, FetchedOK
    <3> QED
      BY <1>1, <1>2, <2>1, <3>1, <3>2
  <2> QED
    BY <1>16, <2>2, <2>3, FetchDoes
<1>8. ASSUME NEW p \in Procs, FetchPinnedTag(p) PROVE PinInv'
  <2>1. UNCHANGED <<remote, pinned>>
    BY <1>8 DEF FetchPinnedTag
  <2>2. /\ cache'.refspec = cache.refspec
        /\ \A n \in AllNames : cache.tags[n] # None => cache'.tags[n] = cache.tags[n]
    BY <1>8, PinnedTagDoes DEF TagAdded
  <2> QED
    BY <1>1, <1>2, <2>1, <2>2
<1>9. ASSUME NEW h \in Target \cup {Torn}, cache' = [cache EXCEPT !.head = h], cache.exists,
             UNCHANGED <<remote, pinned>>
      PROVE  PinInv'
  <2>1. cache'.refspec = cache.refspec /\ cache'.tags = cache.tags
    BY <1>1, <1>9, HeadMoved
  <2> QED
    BY <1>1, <1>2, <1>9, <2>1
<1>10. ASSUME NEW p \in Procs, Checkout(p) PROVE PinInv'
  <2>1. UNCHANGED <<remote, pinned>> /\ job[p].pc = "checkout"
    BY <1>10 DEF Checkout
  <2>2. CASE cache' \in {cache} \cup CutShort(p)
    BY <1>2, <1>5, <2>1, <2>2 DEF Working
  <2>3. CASE cache.exists /\ \E h \in Target \cup {Torn} : cache' = [cache EXCEPT !.head = h]
    BY <1>9, <2>1, <2>3
  <2> QED
    BY <1>10, <2>2, <2>3, CheckoutDoes
<1>11. ASSUME NEW p \in Procs, Load(p) PROVE PinInv'
  <2>1. UNCHANGED <<remote, cache>>
    BY <1>11 DEF Load
  <2>2. CASE UNCHANGED pinned
    BY <1>3, <2>1, <2>2
  <2>3. CASE pinned' = [pinned EXCEPT ![job[p].cfg.ref] =
                          IF @ = None THEN cache.tags[job[p].cfg.ref] ELSE @]
    <3>1. \A n \in AllNames : pinned'[n] # None => pinned'[n] \in {pinned[n], cache.tags[n]}
      BY <1>1, <2>3 DEF Refs
    <3>2. \A n \in AllNames : pinned'[n] # pinned[n] => pinned'[n] = cache.tags[n]
      BY <1>1, <2>3 DEF Refs
    <3> QED
      BY <1>1, <2>1, <3>1, <3>2 DEF PinInv
  <2> QED
    BY <1>11, <2>2, <2>3, LoadDoes
<1>13. ASSUME NEW p \in Procs, Begin(p) \/ Resolve(p) \/ New(p) PROVE PinInv'
  BY <1>3, <1>13 DEF Begin, Resolve, New
<1>14. CASE UNCHANGED vars
  BY <1>3, <1>14 DEF vars
<1> QED
  BY <1>4, <1>7, <1>8, <1>10, <1>11, <1>13, <1>14, <1>15, <1>16 DEF Next, Pull

\* A tag that was pulled by name stays what it was in this cache until Force removes
\* it, and a Ref that is the SHA of a commit the cache holds is that commit: where no
\* configured Branch is the name of a tag, and for any number of processes.
THEOREM PinsHold ==
    ASSUME NoBranchIsTag
    PROVE  Spec => []PinHolds
<1>1. JudgeInv /\ PinInv => PinHolds
  <2> SUFFICES ASSUME JudgeInv, PinInv, NEW p \in Procs, Succeeded(p), job[p].cfg.ref # NoName
               PROVE  /\ pinned[job[p].cfg.ref] # None => job[p].sha = pinned[job[p].cfg.ref]
                      /\ job[p].cfg.ref \in cache.objects => job[p].sha = job[p].cfg.ref
    BY DEF PinHolds
  <2>1. PICK r : r = job[p].cfg.ref
    OBVIOUS
  <2>2. r \in AllNames
    BY <2>1, ConfigOK DEF JudgeInv, TypeInv, JobsOK, Succeeded
  <2>3. Agreed(r) = {job[p].sha}
    BY <2>1 DEF JudgeInv, JudgeOK, Judged, HasCommit, Succeeded
  <2>4. pinned[r] # None => pinned[r] \in Agreed(r)
    BY <2>2 DEF PinInv, Agreed
  <2>5. r \in cache.objects => r \in Agreed(r)
    <3>1. cache.objects \subseteq Commits
      BY DEF JudgeInv, TypeInv, CacheOK, CacheType
    <3> QED
      BY <3>1, GitAssumption DEF Agreed, CommitNamed
  <2> QED
    BY <2>1, <2>3, <2>4, <2>5
<1>2. JudgeInv => TypeInv
  BY DEF JudgeInv
<1> QED
  BY <1>1, <1>2, JudgeInit, JudgeStep, PinInit, PinStep, PTL DEF Spec

-----------------------------------------------------------------------------
(* Branches. *)

LEMMA TipInit == Init => TipInv
<1> SUFFICES ASSUME Init PROVE TipInv
  OBVIOUS
<1>1. HeadsOK(cache)
  BY NoCacheOK DEF Init
<1>2. \A p \in Procs : job[p].pc = "idle"
  BY NoJobOK DEF Init
<1> QED
  BY <1>1, <1>2 DEF TipInv, TipOK, Working, Came

LEMMA TipStep == TypeInv /\ TipInv /\ [Next]_vars => TipInv'
<1> SUFFICES ASSUME TypeInv, TipInv, [Next]_vars PROVE TipInv'
  OBVIOUS
<1>1. /\ CacheOK(cache) /\ JobsOK /\ RemoteOK /\ HeadsOK(cache)
      /\ \A p \in Procs : TipOK(p)
  BY DEF TypeInv, TipInv
\* It is enough to look at the process that takes the step.
<1>2. ASSUME NEW p \in Procs, Pull(p) \/ Kill(p) \/ New(p), HeadsOK(cache'), TipOK(p)'
      PROVE  TipInv'
  <2>1. ASSUME NEW q \in Procs, q # p PROVE TipOK(q)'
    <3> SUFFICES ASSUME q \notin crossed' PROVE TipOK(q)'
      BY DEF TipOK
    <3>1. UNCHANGED cache /\ q \notin crossed /\ job'[q] = job[q]
      BY <1>2, <2>1, OthersSee
    <3> QED
      BY <1>1, <3>1 DEF TipOK, Wanted, Came
  <2>2. \A q \in Procs : TipOK(q)'
    BY <1>2, <2>1
  <2> QED
    BY <1>2, <2>2 DEF TipInv, HeadsOK
\* A pull that is not between its sync and its result.
<1>3. ASSUME NEW p \in Procs, Pull(p) \/ Kill(p) \/ New(p), HeadsOK(cache'),
             \/ job'[p].pc \in {"idle", "remove", "sync"}
             \/ job'[p].pc = "done" /\ job'[p].res # "ok"
      PROVE  TipInv'
  <2>1. TipOK(p)'
    BY <1>3 DEF TipOK, Working, Came
  <2> QED
    BY <1>2, <1>3, <2>1
\* A pull that goes on with the branches that it has.
<1>4. ASSUME NEW p \in Procs, Pull(p), ~Begin(p),
             cache'.heads = cache.heads, cache'.refspec = cache.refspec,
             job'[p].cfg = job[p].cfg, job'[p].tip = job[p].tip,
             job[p].pc \in Working \ {"remove", "sync"}
      PROVE  TipInv'
  <2>1. HeadsOK(cache')
    BY <1>1, <1>4 DEF HeadsOK
  <2>2. TipOK(p)'
    BY <1>1, <1>4, OwnSees DEF TipOK, Wanted
  <2> QED
    BY <1>2, <1>4, <2>1, <2>2
<1>5. CASE UNCHANGED <<cache, job, crossed>>
  BY <1>1, <1>5 DEF TipInv, HeadsOK, TipOK, Wanted, Came
<1>6. ASSUME NEW p \in Procs, Begin(p) PROVE TipInv'
  <2>1. HeadsOK(cache')
    BY <1>1, <1>6, BeginDoes
  <2>2. job'[p].pc \in {"remove", "sync"} \/ (job'[p].pc = "done" /\ job'[p].res # "ok")
    BY <1>6, BeginDoes
  <2> QED
    BY <1>3, <1>6, <2>1, <2>2 DEF Pull
<1>16. ASSUME NEW p \in Procs, job[p].pc \in Working, cache' \in {cache} \cup CutShort(p)
       PROVE  HeadsOK(cache')
  <2>1. PICK x \in {cache} \cup CutShort(p) : x = cache'
    BY <1>16
  <2>2. HeadsOK(x)
    BY <1>1, <1>16, CutOK
  <2> QED
    BY <2>1, <2>2
<1>17. ASSUME NEW p \in Procs, Remove(p) PROVE TipInv'
  <2>1. /\ job'[p].pc = "sync" \/ (job'[p].pc = "done" /\ job'[p].res # "ok")
        /\ cache' = NoCache \/ cache' \in {cache} \cup CutShort(p)
        /\ job[p].pc \in Working
    BY <1>17, RemoveDoes DEF Remove, Working
  <2>2. HeadsOK(cache')
    BY <1>16, <2>1, NoCacheOK
  <2> QED
    BY <1>3, <1>17, <2>1, <2>2 DEF Pull
<1>7. ASSUME NEW p \in Procs, Pull(p), job[p].pc = "sync", job'[p].cfg = job[p].cfg,
             job'[p].tip = remote.heads[Wanted(p)], HeadsOK(cache'),
             remote.heads[Wanted(p)] # None =>
               cache'.heads[Wanted(p)] \in {remote.heads[Wanted(p)], None}
      PROVE  TipInv'
  <2>1. Wanted(p)' = Wanted(p)
    BY <1>7 DEF Wanted
  <2>2. TipOK(p)'
    BY <1>7, <2>1 DEF TipOK
  <2> QED
    BY <1>2, <1>7, <2>2
<1>8. ASSUME NEW p \in Procs, Clone(p) PROVE TipInv'
  <2>1. job[p].pc = "sync" /\ job'[p].cfg = job[p].cfg
    BY <1>8, CloneDoes DEF Clone
  <2>2. CASE Cloned(p)
    <3>1. cache'.heads[Wanted(p)] = remote.heads[Wanted(p)]
      BY <2>2 DEF Cloned, Wanted
    <3>2. job'[p].tip = remote.heads[Wanted(p)] /\ HeadsOK(cache')
      BY <2>2 DEF Cloned
    <3> QED
      BY <1>7, <1>8, <2>1, <3>1, <3>2 DEF Pull
  <2>3. CASE /\ job'[p].pc = "done" /\ job'[p].res = "git failed"
             /\ cache' \in {cache} \cup CutShort(p)
    BY <1>3, <1>8, <1>16, <2>1, <2>3 DEF Pull, Working
  <2> QED
    BY <1>8, <2>2, <2>3, CloneDoes
<1>9. ASSUME NEW p \in Procs, Fetch(p) PROVE TipInv'
  <2>1. job[p].pc = "sync" /\ cache.exists /\ job'[p].cfg = job[p].cfg
    BY <1>9, FetchDoes DEF Fetch
  <2>2. CASE job'[p].tip = remote.heads[Wanted(p)] /\ Fetchable /\ cache' \in Fetched
    <3>3. PICK x \in Fetched : x = cache'
      BY <2>2
    <3>4. /\ HeadsOK(x)
          /\ \A n \in AllNames : remote.heads[n] # None =>
               x.heads[n] \in {remote.heads[n], None}
      BY <1>1, <2>1, <2>2, FetchedOK
    <3>1. /\ HeadsOK(cache')
          /\ \A n \in AllNames : remote.heads[n] # None =>
               cache'.heads[n] \in {remote.heads[n], None}
      BY <3>3, <3>4
    <3>2. Wanted(p) \in AllNames
      BY <1>1, <2>1, WantedOK DEF JobsOK
    <3> QED
      BY <1>7, <1>9, <2>1, <2>2, <3>1, <3>2 DEF Pull
  <2>3. CASE /\ job'[p].pc = "done" /\ job'[p].res = "git failed"
             /\ cache' \in {cache} \cup CutShort(p)
    BY <1>3, <1>9, <1>16, <2>1, <2>3 DEF Pull, Working
  <2> QED
    BY <1>9, <2>2, <2>3, FetchDoes
<1>10. ASSUME NEW p \in Procs, FetchPinnedTag(p) PROVE TipInv'
  <2>1. job[p].pc = "tag"
    BY <1>10 DEF FetchPinnedTag
  <2>2. ~Begin(p)
    BY <2>1 DEF Begin
  <2> QED
    BY <1>4, <1>10, <2>1, <2>2, PinnedTagDoes DEF TagAdded, Working, Pull
<1>11. ASSUME NEW p \in Procs, Resolve(p) PROVE TipInv'
  <2>1. job[p].pc = "resolve" /\ UNCHANGED cache
    BY <1>11 DEF Resolve
  <2>2. ~Begin(p)
    BY <2>1 DEF Begin
  <2> QED
    BY <1>4, <1>11, <2>1, <2>2, ResolveDoes DEF Working, Pull
<1>12. ASSUME NEW p \in Procs, Checkout(p) PROVE TipInv'
  <2>1. job[p].pc = "checkout" /\ job'[p].cfg = job[p].cfg /\ job'[p].tip = job[p].tip
    BY <1>12, CheckoutDoes DEF Checkout
  <2>2. ~Begin(p)
    BY <2>1 DEF Begin
  <2>3. CASE cache.exists /\ \E h \in Target \cup {Torn} : cache' = [cache EXCEPT !.head = h]
    <3>1. cache'.heads = cache.heads /\ cache'.refspec = cache.refspec
      BY <1>1, <2>3, HeadMoved
    <3> QED
      BY <1>4, <1>12, <2>1, <2>2, <3>1 DEF Working, Pull
  <2>4. CASE /\ job'[p].pc = "done" /\ job'[p].res = "git failed"
             /\ cache' \in {cache} \cup CutShort(p)
    BY <1>3, <1>12, <1>16, <2>1, <2>4 DEF Pull, Working
  <2> QED
    BY <1>12, <2>3, <2>4, CheckoutDoes
<1>13. ASSUME NEW p \in Procs, Load(p) PROVE TipInv'
  <2>1. job[p].pc = "load" /\ UNCHANGED cache
    BY <1>13 DEF Load
  <2>2. ~Begin(p)
    BY <2>1 DEF Begin
  <2> QED
    BY <1>4, <1>13, <2>1, <2>2, LoadDoes DEF Working, Pull
<1>14. ASSUME NEW p \in Procs, Kill(p) PROVE TipInv'
  <2>1. job'[p].pc = "idle"
    BY <1>14, KillDoes, NoJobOK
  <2>2. HeadsOK(cache')
    BY <1>14, <1>16, KillDoes
  <2> QED
    BY <1>3, <1>14, <2>1, <2>2
<1>15. Push \/ UNCHANGED vars \/ (\E p \in Procs : New(p)) => UNCHANGED <<cache, job, crossed>>
  BY DEF Push, vars, New
<1> QED
  BY <1>5, <1>6, <1>8, <1>9, <1>10, <1>11, <1>12, <1>13, <1>14, <1>15, <1>17 DEF Next, Pull

\* A pull that follows a branch ends at the tip that the remote had when it was asked,
\* whatever was fetched, cloned shallow, torn or pinned in this cache before.
THEOREM BranchFollowsRemote == Spec => []FollowsRemote
<1>1. JudgeInv /\ TipInv => FollowsRemote
  <2> SUFFICES ASSUME JudgeInv, TipInv, NEW p \in Procs, Succeeded(p), Wanted(p) \notin Commits,
                      job[p].tip # None,
                      job[p].cfg.ref = NoName \/ cache.tags[job[p].cfg.ref] = None
               PROVE  job[p].sha = job[p].tip
    BY DEF FollowsRemote
  <2>1. Judged(p) /\ HasCommit(job[p]) /\ TipOK(p)
    BY DEF JudgeInv, JudgeOK, TipInv, HasCommit, Succeeded
  <2>2. job[p].sha = cache.heads[Wanted(p)]
    <3>1. CASE job[p].cfg.ref = NoName
      BY <2>1, <3>1 DEF Judged, Wanted
    <3>2. CASE job[p].cfg.ref # NoName
      <4>1. Agreed(job[p].cfg.ref) = {job[p].sha} /\ Wanted(p) = job[p].cfg.ref
        BY <2>1, <3>2 DEF Judged, Wanted
      <4>2. CommitNamed(Wanted(p)) = None
        BY DEF CommitNamed, JudgeInv, TypeInv, CacheOK, CacheType
      <4> QED
        BY <3>2, <4>1, <4>2 DEF Agreed, BranchTip
    <3> QED
      BY <3>1, <3>2
  <2>3. cache.heads[Wanted(p)] \in {job[p].tip, None}
    BY <2>1 DEF TipOK, Came, Succeeded
  <2> QED
    BY <2>1, <2>2, <2>3 DEF Judged
<1>2. JudgeInv => TypeInv
  BY DEF JudgeInv
<1> QED
  BY <1>1, <1>2, JudgeInit, JudgeStep, TipInit, TipStep, PTL DEF Spec

-----------------------------------------------------------------------------
(* The advice to pull with Force. *)

LEMMA ForceStep == TypeInv /\ ForceInv /\ [Next]_vars => ForceInv'
<1> SUFFICES ASSUME TypeInv, ForceInv, [Next]_vars PROVE ForceInv'
  OBVIOUS
<1>1. CacheOK(cache) /\ JobsOK /\ RemoteOK /\ \A p \in Procs : ForceOK(p)
  BY DEF TypeInv, ForceInv
\* It is enough to look at the process that takes the step.
<1>2. ASSUME NEW p \in Procs, Pull(p) \/ Kill(p) \/ New(p), ForceOK(p)' PROVE ForceInv'
  <2>1. ASSUME NEW q \in Procs, q # p PROVE ForceOK(q)'
    <3> SUFFICES ASSUME q \notin crossed' PROVE ForceOK(q)'
      BY DEF ForceOK
    <3>1. UNCHANGED <<cache, remote, steady>> /\ q \notin crossed /\ job'[q] = job[q]
      BY <1>2, <2>1, OthersSee
    <3> QED
      BY <1>1, <3>1 DEF ForceOK
  <2> QED
    BY <1>2, <2>1 DEF ForceInv
\* A pull that ends otherwise, or has nothing more to resolve.
<1>3. ASSUME NEW p \in Procs, Pull(p) \/ Kill(p) \/ New(p),
             job'[p].pc \notin {"sync", "tag", "resolve"},
             job'[p].res # "stale cache"
      PROVE  ForceInv'
  BY <1>2, <1>3 DEF ForceOK
<1>4. CASE UNCHANGED <<cache, job, remote, steady, crossed>>
  BY <1>1, <1>4 DEF ForceInv, ForceOK
<1>5. CASE Push
  <2>1. UNCHANGED <<cache, job, crossed>> /\ steady' = FALSE
    BY <1>5 DEF Push
  <2>2. \A p \in Procs : ForceOK(p)'
    BY <1>1, <2>1 DEF ForceOK
  <2> QED
    BY <2>2 DEF ForceInv
<1>6. ASSUME NEW p \in Procs, Begin(p) PROVE ForceInv'
  <2>1. CASE job'[p].pc \in {"done", "remove"} /\ job'[p].res # "stale cache"
    BY <1>3, <1>6, <2>1 DEF Pull
  <2>2. CASE ~job'[p].cfg.force
    <3>1. ForceOK(p)'
      BY <2>2 DEF ForceOK
    <3> QED
      BY <1>2, <1>6, <3>1 DEF Pull
  <2> QED
    BY <1>6, <2>1, <2>2, BeginDoes
<1>15. ASSUME NEW p \in Procs, Remove(p) PROVE ForceInv'
  <2>1. CASE job'[p].pc = "sync" /\ job'[p].res = "none" /\ cache' = NoCache
    <3>1. ~cache'.exists
      BY <2>1 DEF NoCache
    <3>2. ForceOK(p)'
      BY <2>1, <3>1 DEF ForceOK
    <3> QED
      BY <1>2, <1>15, <3>2 DEF Pull
  <2>2. CASE job'[p].pc = "done" /\ job'[p].res = "remove failed"
    BY <1>3, <1>15, <2>2 DEF Pull
  <2> QED
    BY <1>15, <2>1, <2>2, RemoveDoes
<1>7. ASSUME NEW p \in Procs, Clone(p) PROVE ForceInv'
  <2>1. UNCHANGED remote /\ job'[p].cfg = job[p].cfg
    BY <1>7, CloneDoes DEF Clone
  <2>2. CASE Cloned(p)
    <3>1. /\ job'[p].pc = "resolve" /\ job'[p].res = "none"
          /\ job[p].cfg.ref # NoName =>
               cache'.heads = remote.heads /\ cache'.tags = remote.tags
      BY <2>2 DEF Cloned
    <3>2. ForceOK(p)'
      BY <2>1, <3>1 DEF ForceOK
    <3> QED
      BY <1>2, <1>7, <3>2 DEF Pull
  <2>3. CASE job'[p].pc = "done" /\ job'[p].res = "git failed"
    BY <1>3, <1>7, <2>3 DEF Pull
  <2> QED
    BY <1>7, <2>2, <2>3, CloneDoes
<1>8. ASSUME NEW p \in Procs, Fetch(p) PROVE ForceInv'
  <2>1. p \notin crossed => ~(job[p].cfg.ref # NoName /\ job[p].cfg.force)
    BY <1>1, <1>8 DEF Fetch, ForceOK
  <2>2. job'[p].cfg = job[p].cfg
    BY <1>8, FetchDoes
  <2>3. p \notin crossed' => p \notin crossed
    BY <1>8 DEF Fetch, Writes
  <2>4. ForceOK(p)'
    BY <2>1, <2>2, <2>3 DEF ForceOK
  <2> QED
    BY <1>2, <1>8, <2>4 DEF Pull
<1>9. ASSUME NEW p \in Procs, FetchPinnedTag(p) PROVE ForceInv'
  <2>1. p \notin crossed => ~(job[p].cfg.ref # NoName /\ job[p].cfg.force)
    BY <1>1, <1>9 DEF FetchPinnedTag, ForceOK
  <2>2. job'[p].cfg = job[p].cfg
    BY <1>9, PinnedTagDoes
  <2>3. p \notin crossed' => p \notin crossed
    BY <1>9 DEF FetchPinnedTag, Writes
  <2>4. ForceOK(p)'
    BY <2>1, <2>2, <2>3 DEF ForceOK
  <2> QED
    BY <1>2, <1>9, <2>4 DEF Pull
<1>10. ASSUME NEW p \in Procs, Resolve(p) PROVE ForceInv'
  <2>1. job[p].pc = "resolve" /\ UNCHANGED <<cache, remote, steady, crossed>>
        /\ job'[p].cfg = job[p].cfg /\ JobOK(job[p])
    BY <1>1, <1>10, ResolveDoes DEF Resolve, JobsOK
  <2>2. job'[p].pc \in {"checkout", "done"}
    BY <1>10, ResolveDoes
  <2>3. CASE job'[p].res # "stale cache"
    BY <1>3, <1>10, <2>2, <2>3 DEF Pull
  <2>4. CASE job'[p].res = "stale cache"
    <3>1. Found(job[p].cfg) = {} /\ RemoteHas(Wanted(p))
      BY <1>10, <2>4, ResolveDoes
    <3>2. job[p].cfg.ref # NoName => /\ cache.heads[job[p].cfg.ref] = None
                                     /\ cache.tags[job[p].cfg.ref] = None
      BY <3>1 DEF Found, Agreed, BranchTip
    <3>3. job[p].cfg.ref # NoName /\ job[p].cfg.force /\ p \notin crossed => ~steady
      BY <1>1, <2>1, <3>1, <3>2 DEF ForceOK, RemoteHas, Wanted
    <3>4. ForceOK(p)'
      BY <2>1, <2>2, <3>3 DEF ForceOK
    <3> QED
      BY <1>2, <1>10, <3>4 DEF Pull
  <2> QED
    BY <2>3, <2>4
<1>11. ASSUME NEW p \in Procs, Checkout(p) PROVE ForceInv'
  BY <1>3, <1>11, CheckoutDoes DEF Pull
<1>12. ASSUME NEW p \in Procs, Load(p) PROVE ForceInv'
  BY <1>3, <1>12, LoadDoes DEF Pull
<1>13. ASSUME NEW p \in Procs, Kill(p) PROVE ForceInv'
  BY <1>3, <1>13, KillDoes, NoJobOK
<1>14. UNCHANGED vars \/ (\E p \in Procs : New(p)) =>
         UNCHANGED <<cache, job, remote, steady, crossed>>
  BY DEF vars, New
<1> QED
  BY <1>4, <1>5, <1>6, <1>7, <1>8, <1>9, <1>10, <1>11, <1>12, <1>13, <1>14, <1>15
     DEF Next, Pull

\* A forced pull of a Ref does not end in the advice to pull with Force, unless the
\* remote moved after it cloned or another process wrote the cache.
THEOREM ForceHelps == Spec => []RefRemedyWorks
<1>1. Init => ForceInv
  <2> SUFFICES ASSUME Init, NEW p \in Procs PROVE ForceOK(p)
    BY DEF ForceInv
  <2>1. job[p].cfg.ref = NoName
    BY DEF Init, NoJob
  <2> QED
    BY <2>1 DEF ForceOK
<1>2. ForceInv => RefRemedyWorks
  BY DEF ForceInv, ForceOK, RefRemedyWorks, Settled
<1> QED
  BY <1>1, <1>2, TypeInit, TypeStep, ForceStep, PTL DEF Spec
=============================================================================
