--------------------------- MODULE RegistryQueries ---------------------------
(***************************************************************************)
(* What the registry backends answer from the definitions they hold:       *)
(* schema versions and their order (spec/loader.go), the filters, the      *)
(* latest version of an event and the de-duplicated list                   *)
(* (registry/registry.go, registry/local/resolver.go).                     *)
(*                                                                         *)
(* A definition is a record with the fields ns, name, ver, status and      *)
(* tags.  Its version is [raw, num]: the text, which is the index key, and *)
(* the three numbers ParseSchemaVer reads from it, << >> where it returns  *)
(* an error.  Sscanf stops at the first character that is not a digit, so  *)
(* "1x-0-0" is read as <<1, 0, 0>> and two texts may have the same num.    *)
(*                                                                         *)
(* The code ranges over Go maps, in any order: a loop is a recursive       *)
(* function of the positions of one order, and a query has a set of        *)
(* answers, one for each order.                                            *)
(***************************************************************************)
EXTENDS Integers, Sequences, SequencesExt, FiniteSets

\* ParseSchemaVer returns no error: three parts, each starting with a number.
Parses(ver) == ver.num # << >>

\* signum
signum(n) == IF n < 0 THEN -1 ELSE IF n > 0 THEN 1 ELSE 0

\* CompareSchemaVer: by major, then minor, then patch; Raw is not compared.
CompareSchemaVer(a, b) ==
  IF a[1] # b[1] THEN signum(a[1] - b[1])
  ELSE IF a[2] # b[2] THEN signum(a[2] - b[2])
  ELSE signum(a[3] - b[3])

\* eventKey: the text of the version, not its numbers.
eventKey(def) == << def.ns, def.name, def.ver.raw >>

\* containsAll
containsAll(tags, required) == \A t \in required : t \in tags

\* The zero value of each filter field filters nothing.
NoFilter == ""

\* The conditions of ListAllEvents.
Matches(def, filter) ==
  /\ filter.ns = NoFilter \/ def.ns = filter.ns
  /\ filter.status = NoFilter \/ def.status = filter.status
  /\ containsAll(def.tags, filter.tags)

\* ListAllEvents; the slice it returns may have any order.
ListAllEvents(defs, filter) == {def \in defs : Matches(def, filter)}

\* Mutant: no comparison, the definition met last wins.
DedupStepLast(best, ev) ==
  IF Parses(ev.ver)
  THEN [j \in DOMAIN best \cup {<< ev.ns, ev.name >>} |->
          IF j = << ev.ns, ev.name >> THEN ev ELSE best[j]]
  ELSE best

\* DeduplicateByLatest: the maps best and bestVer, keyed by (ns, name).
DedupStep(best, ev) ==
  LET k == << ev.ns, ev.name >>
  IN  IF /\ Parses(ev.ver)
         /\ k \in DOMAIN best => CompareSchemaVer(ev.ver.num, best[k].ver.num) > 0
      THEN [j \in DOMAIN best \cup {k} |-> IF j = k THEN ev ELSE best[j]]
      ELSE best

\* The loop of DeduplicateByLatest: what best holds after the first i events.
DedupLoop(order) ==
  LET best[i \in 0 .. Len(order)] ==
        IF i = 0 THEN << >> ELSE DedupStep(best[i - 1], order[i])
  IN  best[Len(order)]

\* The result keeps no order: DeduplicateByLatest ranges over best.
DeduplicateByLatest(order) == Range(DedupLoop(order))

\* ListEvents: filter first, then one definition per (ns, name).
ListEvents(defs, filter) ==
  {DeduplicateByLatest(order) : order \in SetToSeqs(ListAllEvents(defs, filter))}

\* The loop of GetEvent for an empty version; <<def>> stands for best and << >> for nil.
BestStep(best, def, ns, name) ==
  IF /\ def.ns = ns /\ def.name = name /\ def.status = "active"
     /\ Parses(def.ver)
     /\ best # << >> => CompareSchemaVer(def.ver.num, best[1].ver.num) > 0
  THEN << def >>
  ELSE best

BestLoop(order, ns, name) ==
  LET best[i \in 0 .. Len(order)] ==
        IF i = 0 THEN << >> ELSE BestStep(best[i - 1], order[i], ns, name)
  IN  best[Len(order)]

\* GetEvent with an empty version: the highest active one.
GetActive(defs, ns, name) == {BestLoop(order, ns, name) : order \in SetToSeqs(defs)}

\* The order of the versions, said without the loop: what "highest" means.
Higher(a, b) ==
  \/ a[1] > b[1]
  \/ a[1] = b[1] /\ a[2] > b[2]
  \/ a[1] = b[1] /\ a[2] = b[2] /\ a[3] > b[3]

\* The definitions of S with a readable version that none of the same event exceeds.
Latest(S) ==
  {d \in S : /\ Parses(d.ver)
             /\ \A e \in S : /\ Parses(e.ver) /\ e.ns = d.ns /\ e.name = d.name
                             => ~Higher(e.ver.num, d.ver.num)}
=============================================================================
