---------------------------- MODULE GitRegistry ----------------------------
(***************************************************************************)
(* The git registry (registry/git/resolver.go): processes that pull a      *)
(* remote repository, whose branches and tags move, into a cache directory *)
(* they share, resolve the configured branch or ref to a commit, check it  *)
(* out and index it.  What git does is modelled from how the code uses it. *)
(*                                                                         *)
(* A name is a branch or tag name; a commit stands for its full SHA, which *)
(* can be a name too.  Abbreviated SHAs are left out.                      *)
(***************************************************************************)
EXTENDS Naturals, FiniteSets

CONSTANTS
    Procs,      \* processes that pull
    Names,      \* names of branches and tags
    Commits,
    Ancestors,  \* the commits reachable from a commit, itself included
    Heads, Tags,\* <<name, commit>>: the branches and tags that can be pushed
    Configs,    \* configurations: [branch, ref, force]
    BadNames,   \* values that cannot name a ref
    NoName, None, Torn,
    MaxMoves, MaxPulls, MaxKills

AllNames == Names \cup Commits
Target == Commits \cup {None}

ASSUME GitAssumption ==
    /\ {None, Torn} \cap Commits = {} /\ None # Torn /\ NoName \notin AllNames
    /\ Ancestors \in [Commits -> SUBSET Commits]
    /\ \A c \in Commits : c \in Ancestors[c]
    /\ \A c, d \in Commits : c \in Ancestors[d] /\ d \in Ancestors[c] => c = d
    /\ Heads \subseteq AllNames \X Commits /\ Tags \subseteq AllNames \X Commits
    /\ Configs \subseteq [branch : AllNames, ref : AllNames \cup {NoName}, force : BOOLEAN]
    /\ MaxMoves \in Nat /\ MaxPulls \in Nat /\ MaxKills \in Nat

VARIABLES
    remote,     \* its heads and tags
    cache,      \* the cache directory
    job,        \* the pull each process is in
    index,      \* the commit behind each process' inner resolver
    moves, pulls, kills,
    pinned,     \* history: what a tag pulled by name was, in this cache
    steady,     \* history: the remote has not moved since the cache was cloned
    crossed     \* history: processes since whose pull began another one wrote the cache

vars == <<remote, cache, job, index, moves, pulls, kills, pinned, steady, crossed>>

\* exists: there is a .git.  refspec: what `fetch origin` updates: every branch, one
\* branch, one tag, or, after an interrupted clone, nothing.  localBranch is what clone
\* created and no fetch advances.  head is the commit whose files are in the directory:
\* None if there are no files, Torn if they are not those of one commit.
NoCache == [exists |-> FALSE, refspec |-> <<"none", NoName>>,
            heads |-> [n \in AllNames |-> None], tags |-> [n \in AllNames |-> None],
            localBranch |-> None, shallow |-> None, objects |-> {},
            head |-> None]

NoJob == [pc |-> "idle", cfg |-> [branch |-> NoName, ref |-> NoName, force |-> FALSE],
          sha |-> None, tip |-> None, res |-> "none"]

Init ==
    /\ \E h \in Heads : remote = [heads |-> [n \in AllNames |-> IF n = h[1] THEN h[2] ELSE None],
                                  tags |-> [n \in AllNames |-> None]]
    /\ cache = NoCache
    /\ job = [p \in Procs |-> NoJob]
    /\ index = [p \in Procs |-> None]
    /\ moves = 0 /\ pulls = 0 /\ kills = 0
    /\ pinned = [n \in AllNames |-> None]
    /\ steady = FALSE
    /\ crossed = {}

Counters == <<moves, pulls, kills>>
Step(p, s) == job' = [job EXCEPT ![p].pc = s]
Finish(p, r) == job' = [job EXCEPT ![p].pc = "done", ![p].res = r]

\* runGit, gitProbe: git did not run, or failed.
GitFails(p) == Finish(p, "git failed")
ProbeFails(p) == Finish(p, "probe failed")

\* Nothing locks the cache directory.
Writes(p) == crossed' = crossed \cup (Procs \ {p})

-----------------------------------------------------------------------------
(* The remote. *)

\* Someone pushes, force-pushes or deletes a branch or a tag.
Push ==
    /\ moves < MaxMoves /\ moves' = moves + 1
    /\ \/ \E h \in Heads : remote' = [remote EXCEPT !.heads[h[1]] = h[2]]
       \/ \E t \in Tags : remote' = [remote EXCEPT !.tags[t[1]] = t[2]]
       \/ \E h \in Heads : remote' = [remote EXCEPT !.heads[h[1]] = None]
       \/ \E t \in Tags : remote' = [remote EXCEPT !.tags[t[1]] = None]
    /\ remote' # remote
    /\ steady' = FALSE
    /\ UNCHANGED <<cache, job, index, pulls, kills, pinned, crossed>>

-----------------------------------------------------------------------------
(* git, as the code uses it. *)

\* What a clone and, through ls-remote, gitRemoteRefs find.
RemoteHas(name) == remote.heads[name] # None \/ remote.tags[name] # None

Reachable(cs) == UNION {Ancestors[c] : c \in cs \cap Commits}
Range2(f) == {f[n] : n \in AllNames}

\* What a fetch of commit c adds to a cache that was cloned shallow at floor: the
\* history down to floor, or all of it if floor is not in it.
Above(c, floor) ==
    IF floor = None \/ floor \notin Reachable({c}) THEN Reachable({c})
    ELSE Reachable({c}) \ (Ancestors[floor] \ {floor})

\* `clone --branch b`: all branches and tags.
FullClone(b) ==
    [NoCache EXCEPT
        !.exists = TRUE, !.refspec = <<"all", NoName>>,
        !.heads = remote.heads, !.tags = remote.tags,
        !.localBranch = remote.heads[b],
        !.objects = Reachable(Range2(remote.heads) \cup Range2(remote.tags)),
        !.head = IF remote.heads[b] # None THEN remote.heads[b] ELSE remote.tags[b]]

\* `clone --depth 1 --branch b`: the tip of a branch or, if there is none, a tag.
ShallowClone(b) ==
    LET isBranch == remote.heads[b] # None
        tip == IF isBranch THEN remote.heads[b] ELSE remote.tags[b]
    IN  [NoCache EXCEPT
            !.exists = TRUE, !.refspec = <<IF isBranch THEN "branch" ELSE "tag", b>>,
            !.heads = [@ EXCEPT ![b] = remote.heads[b]],
            !.tags = [n \in AllNames |-> IF remote.tags[n] = tip THEN tip ELSE None],
            !.localBranch = remote.heads[b],
            !.objects = {tip}, !.shallow = tip, !.head = tip]

\* A fetch follows new tags into the history it has, and moves none.
WithTags(c, objs) ==
    [c EXCEPT !.objects = objs,
              !.tags = [n \in AllNames |->
                 IF @[n] = None /\ remote.tags[n] \in objs THEN remote.tags[n] ELSE @[n]]]

\* `fetch origin`, by refspec; branches are updated and never pruned.
FetchAll ==
    LET hs == [n \in AllNames |->
                 IF remote.heads[n] # None THEN remote.heads[n] ELSE cache.heads[n]]
    IN  WithTags([cache EXCEPT !.heads = hs], cache.objects \cup Reachable(Range2(hs)))
FetchBranch(b) ==
    WithTags([cache EXCEPT !.heads[b] = remote.heads[b]],
             cache.objects \cup Above(remote.heads[b], cache.shallow))
FetchTag(t) ==
    [cache EXCEPT !.tags[t] = remote.tags[t],
                  !.objects = @ \cup Above(remote.tags[t], cache.shallow)]

Fetchable ==
    CASE cache.refspec[1] = "branch" -> remote.heads[cache.refspec[2]] # None
      [] cache.refspec[1] = "tag" -> remote.tags[cache.refspec[2]] # None
      [] OTHER -> TRUE

\* Without a refspec, fetch gets the history of the branch that the remote's HEAD names.
FetchHead(n) == WithTags(cache, cache.objects \cup Above(remote.heads[n], cache.shallow))

Fetched ==
    CASE cache.refspec[1] = "all" -> {FetchAll}
      [] cache.refspec[1] = "branch" -> {FetchBranch(cache.refspec[2])}
      [] cache.refspec[1] = "tag" -> {FetchTag(cache.refspec[2])}
      [] OTHER -> {FetchHead(n) : n \in {m \in AllNames : remote.heads[m] # None}}

-----------------------------------------------------------------------------
(* Pull. *)

\* checkRefName, for both names; an empty Ref is no name.
checkRefs(c) == c.branch \notin BadNames /\ c.ref \notin BadNames

Starts(p, c, pc, res) ==
    job' = [job EXCEPT ![p] = [NoJob EXCEPT !.pc = pc, !.cfg = c, !.res = res]]

\* invalidRefError.
Invalid(p, c) == Starts(p, c, "done", "invalid")

\* checkRefs, before anything is touched, and MkdirAll, which may fail.
Begin(p) ==
    \E c \in Configs :
        /\ job[p].pc \in {"idle", "done"}
        /\ pulls < MaxPulls /\ pulls' = pulls + 1
        /\ \/ ~checkRefs(c) /\ Invalid(p, c)
           \/ checkRefs(c) /\ Starts(p, c, "done", "no directory")
           \/ checkRefs(c) /\ Starts(p, c, IF c.force THEN "remove" ELSE "sync", "none")
        /\ crossed' = crossed \ {p}
        /\ UNCHANGED <<remote, cache, index, moves, kills, pinned, steady>>

Wanted(p) == IF job[p].cfg.ref = NoName THEN job[p].cfg.branch ELSE job[p].cfg.ref

\* Mutant: every clone is shallow.
CloneArgsShallow(cfg) == ShallowClone(cfg.branch)

\* cloneArgs: shallow unless a Ref is configured.
CloneArgs(cfg) == IF cfg.ref = NoName THEN ShallowClone(cfg.branch) ELSE FullClone(cfg.branch)

\* What a clone leaves that is stopped: .git, what it fetched, its refspec, and with
\* the refs some of the files.
BrokenClones(cfg) ==
    LET whole == CloneArgs(cfg)
        empty == [NoCache EXCEPT !.exists = TRUE]
        fetched == [empty EXCEPT !.objects = whole.objects, !.shallow = whole.shallow]
    IN  IF RemoteHas(cfg.branch)
        THEN {empty, fetched, [fetched EXCEPT !.refspec = whole.refspec],
              [whole EXCEPT !.head = Torn]}
        ELSE {empty}

\* What a RemoveAll leaves that is stopped: some of the files, with .git as it was,
\* emptied or gone; or nothing.
Remains ==
    {[cache EXCEPT !.head = Torn], [NoCache EXCEPT !.head = Torn], NoCache}
    \cup {[NoCache EXCEPT !.exists = TRUE, !.refspec = s, !.head = Torn] :
            s \in {cache.refspec, NoCache.refspec}}

\* What the command that p runs may leave behind if it is killed or fails.
CutShort(p) ==
    CASE job[p].pc = "remove" -> IF cache = NoCache THEN {} ELSE Remains
      [] job[p].pc = "sync" /\ ~cache.exists ->
           IF cache.head = None THEN BrokenClones(job[p].cfg) ELSE {}
      [] job[p].pc = "sync" /\ cache.exists -> IF Fetchable THEN Fetched ELSE {}
      [] job[p].pc = "checkout" /\ cache.exists -> {[cache EXCEPT !.head = Torn]}
      [] OTHER -> {}

\* The pins of the tags that are still there.
Held(c) == [n \in AllNames |-> IF c.tags[n] = None THEN None ELSE pinned[n]]

\* RemoveAll, for Force.
Remove(p) ==
    /\ job[p].pc = "remove"
    /\ \/ Step(p, "sync") /\ cache' = NoCache
       \/ Finish(p, "remove failed") /\ cache' \in {cache} \cup CutShort(p)
    /\ pinned' = Held(cache') /\ Writes(p)
    /\ UNCHANGED <<remote, index, Counters, steady>>

\* The first clone; git refuses a directory that has files.
Clone(p) ==
    /\ job[p].pc = "sync" /\ ~cache.exists
    /\ LET b == job[p].cfg.branch IN
       \/ /\ cache.head = None /\ RemoteHas(b)
          /\ cache' = CloneArgs(job[p].cfg)
          /\ job' = [job EXCEPT ![p].pc = "resolve", ![p].tip = remote.heads[Wanted(p)]]
          /\ steady' = TRUE
       \/ GitFails(p) /\ cache' \in {cache} \cup CutShort(p) /\ UNCHANGED steady
    /\ Writes(p)
    /\ UNCHANGED <<remote, index, Counters, pinned>>

Fetch(p) ==
    /\ job[p].pc = "sync" /\ cache.exists
    /\ \/ /\ Fetchable
          /\ cache' \in Fetched
          /\ job' = [job EXCEPT ![p].pc = "tag", ![p].tip = remote.heads[Wanted(p)]]
       \/ GitFails(p) /\ cache' \in {cache} \cup CutShort(p)
    /\ Writes(p)
    /\ UNCHANGED <<remote, index, Counters, pinned, steady>>

\* Mutant: the refspec of the tag is forced.
TagUpdateForced(old, new) == new

\* The refspec is not forced: a tag the cache holds stays where it is.
TagUpdate(old, new) == IF old = None THEN new ELSE old

\* fetchPinnedTag: only for a Ref, and its failure is discarded.
FetchPinnedTag(p) ==
    /\ job[p].pc = "tag"
    /\ Step(p, "resolve")
    /\ LET t == job[p].cfg.ref IN
       \/ UNCHANGED cache
       \/ /\ t # NoName /\ cache.exists /\ remote.tags[t] # None
          /\ LET new == TagUpdate(cache.tags[t], remote.tags[t]) IN
             cache' = [cache EXCEPT !.tags[t] = new,
                                    !.objects = @ \cup Above(new, cache.shallow)]
    /\ Writes(p)
    /\ UNCHANGED <<remote, index, Counters, pinned, steady>>

\* Mutant: the branch the clone left behind instead of the remote-tracking one.
BranchTipLocal(b) == cache.localBranch

\* refs/remotes/origin/<b>.
BranchTip(b) == cache.heads[b]

\* The commit the name itself is, if it looks like one and the cache has it.
CommitNamed(r) == IF r \in cache.objects THEN r ELSE None

\* What the tag, the branch and the commit of that name resolve to.
Agreed(r) == {cache.tags[r], BranchTip(r), CommitNamed(r)} \ {None}

gitIsShallow == cache.shallow # None

\* unresolvedRef: what the error can say about fixing itself; "unknown" also where the
\* probe of the cache or of the remote fails.
Remedies(name) ==
    IF name \in Commits
    THEN {"unknown"} \cup IF gitIsShallow THEN {"shallow commit"} ELSE {}
    ELSE {"unknown", IF RemoteHas(name) THEN "stale cache" ELSE "absent"}

\* ambiguousRefError.
Ambiguous(p) == Finish(p, "ambiguous")

\* resolveCheckoutRef.
Resolve(p) ==
    /\ job[p].pc = "resolve"
    /\ LET c == job[p].cfg
           found == IF c.ref = NoName THEN {BranchTip(c.branch)} \ {None} ELSE Agreed(c.ref)
       IN  \/ /\ Cardinality(found) = 1
              /\ job' = [job EXCEPT ![p].pc = "checkout", ![p].sha = CHOOSE x \in found : TRUE]
           \/ Cardinality(found) > 1 /\ Ambiguous(p)
           \/ found = {} /\ \E r \in Remedies(Wanted(p)) : Finish(p, r)
           \/ ProbeFails(p)
    /\ UNCHANGED <<remote, cache, index, Counters, pinned, steady, crossed>>

\* Mutant: Pull goes on to index what is there.
CheckoutErrorIgnored(p) == Step(p, "load")

CheckoutError(p) == GitFails(p)

\* checkout --detach <sha>, without -f: files that are not as git left them stop it, or
\* stay as they are where the checkout has no reason to touch them.
Checkout(p) ==
    /\ job[p].pc = "checkout"
    /\ \/ /\ job[p].sha \in cache.objects
          /\ \E h \in {job[p].sha} \cup ({cache.head} \cap {Torn}) :
               cache' = [cache EXCEPT !.head = h]
          /\ Step(p, "load")
       \/ CheckoutError(p) /\ cache' \in {cache} \cup CutShort(p)
    /\ Writes(p)
    /\ UNCHANGED <<remote, index, Counters, pinned, steady>>

\* loadFromCache indexes the files that are there, or fails on them.
Load(p) ==
    /\ job[p].pc = "load"
    /\ \/ /\ cache.head # None
          /\ index' = [index EXCEPT ![p] = cache.head]
          /\ Finish(p, "ok")
          /\ pinned' = IF /\ job[p].cfg.ref # NoName
                          /\ cache.tags[job[p].cfg.ref] # None
                       THEN [pinned EXCEPT ![job[p].cfg.ref] =
                                IF @ = None THEN cache.tags[job[p].cfg.ref] ELSE @]
                       ELSE pinned
       \/ Finish(p, "load failed") /\ UNCHANGED <<index, pinned>>
    /\ UNCHANGED <<remote, cache, Counters, steady, crossed>>

\* The process is killed, and with it the command that it runs.
Kill(p) ==
    /\ job[p].pc \notin {"idle", "done"}
    /\ kills < MaxKills /\ kills' = kills + 1
    /\ job' = [job EXCEPT ![p] = NoJob]
    /\ index' = [index EXCEPT ![p] = None]
    /\ cache' \in {cache} \cup CutShort(p)
    /\ pinned' = Held(cache') /\ Writes(p)
    /\ UNCHANGED <<remote, moves, pulls, steady>>

\* New: a process that only reads loads what is there.
New(p) ==
    /\ job[p].pc = "idle" /\ index[p] = None
    /\ cache.head # None
    /\ index' = [index EXCEPT ![p] = cache.head]
    /\ UNCHANGED <<remote, cache, job, Counters, pinned, steady, crossed>>

Pull(p) ==
    \/ Begin(p) \/ Remove(p) \/ Clone(p) \/ Fetch(p) \/ FetchPinnedTag(p)
    \/ Resolve(p) \/ Checkout(p) \/ Load(p)

Next == Push \/ \E p \in Procs : Pull(p) \/ Kill(p) \/ New(p)

Spec == Init /\ [][Next]_vars

-----------------------------------------------------------------------------
(* Properties. *)

\* The types of the variables; what the cache names it has.
TypeOK ==
    /\ remote \in [heads : [AllNames -> Target], tags : [AllNames -> Target]]
    /\ cache.exists \in BOOLEAN /\ cache.head \in Target \cup {Torn}
    /\ cache.objects \subseteq Commits
    /\ \A n \in AllNames : {cache.heads[n], cache.tags[n]} \subseteq cache.objects \cup {None}
    /\ index \in [Procs -> Target \cup {Torn}]
    /\ \A p \in Procs : job[p].sha \in Target /\ job[p].tip \in Target
    /\ pinned \in [AllNames -> Target] /\ steady \in BOOLEAN
    /\ crossed \subseteq Procs
    /\ moves \in 0..MaxMoves /\ pulls \in 0..MaxPulls /\ kills \in 0..MaxKills

\* A pull that came through, in a cache that no other process has written since.
Succeeded(p) == job[p].pc = "done" /\ job[p].res = "ok" /\ p \notin crossed

\* "The commit this pull indexes is exactly the one the ambiguity check above passed
\* judgement on" (registry/git/resolver.go:146): a pull never indexes another commit.
\* It may index a mixture of files where one before it was cut short, since git checkout
\* succeeds over what that left; a pull with Force puts an end to this.
IndexedIsJudged ==
    \A p \in Procs :
        Succeeded(p) => index[p] = job[p].sha \/ (index[p] = Torn /\ ~job[p].cfg.force)

\* A name that stands for one commit goes on doing so.  Pulls of one tag from one
\* cache index one commit, however the tag moves on the remote in between, and only
\* Force lets it move; a Ref that is the SHA of a commit the cache holds is that
\* commit, whatever branches and tags are given its name
\* (registry/git/resolver.go:194, :321).
PinHolds ==
    \A p \in Procs :
        Succeeded(p) /\ job[p].cfg.ref # NoName =>
          /\ pinned[job[p].cfg.ref] # None => job[p].sha = pinned[job[p].cfg.ref]
          /\ job[p].cfg.ref \in cache.objects => job[p].sha = job[p].cfg.ref

\* A pull that follows a branch ends at the tip the remote had when it was
\* asked, never at the local branch a clone left behind; a branch the remote
\* deleted stays where it was (registry/git/resolver.go:306).
FollowsRemote ==
    \A p \in Procs :
        /\ Succeeded(p) /\ Wanted(p) \notin Commits /\ job[p].tip # None
        /\ job[p].cfg.ref = NoName \/ cache.tags[job[p].cfg.ref] = None
        => job[p].sha = job[p].tip

Settled(p) ==
    job[p].cfg.force /\ steady /\ p \notin crossed => job[p].res # "stale cache"

\* Where --force is the remedy for a Ref, it works: a forced pull does not end
\* in the same advice, unless the remote moved since it cloned or another process
\* wrote the cache (registry/git/resolver.go:395).
RefRemedyWorks ==
    \A p \in Procs : job[p].cfg.ref # NoName => Settled(p)
=============================================================================
