---------------------------- MODULE EventPublish ----------------------------
(***************************************************************************)
(* Publishing versions of one event: the edit form of the admin UI checks  *)
(* the new version against the latest one and stores it in a second step   *)
(* (registry/server/ui/handler_publish.go), with other editors' requests   *)
(* in between; the new-event form and POST /v1/events store without        *)
(* comparing.                                                              *)
(***************************************************************************)
EXTENDS SpecDiff, TLC

CONSTANTS
  Authors,       \* users of the edit form
  Definitions,   \* the definitions of the event that anyone may write
  Drafts(_),     \* the ones an author may submit over << >> or <<latest>>
  Posts(_),      \* the same for a request that is not compared
  MaxVersions    \* bound on the versions stored

\* What decoding a request gives; the edit form locks the event's name.
ASSUME DefinitionsAssumption ==
  /\ \A d \in Definitions :
       /\ d.ver.num \in {<< >>} \cup (Nat \X Nat \X Nat)
       /\ DOMAIN d.props \subseteq Range(NameOrder)
       /\ \A n \in DOMAIN d.props : d.props[n].required \in BOOLEAN
  /\ \A x, y \in {<< d.ns, d.name >> : d \in Definitions} : x = y
  /\ \A prev \in {<< >>} \cup {<< d >> : d \in Definitions} :
       Drafts(prev) \cup Posts(prev) \subseteq Definitions

VARIABLES
  store,    \* the events table: version text -> definition
  form,     \* form[e]: the request of author e
  unchecked,   \* history: versions that were not compared with what was the latest when they were stored
  overlooked   \* history: versions that were, but narrow a property where Diff does not see it

history == << unchecked, overlooked >>
publishVars == << store, form, unchecked, overlooked >>

Idle == [step |-> "idle"]

StoredDefs == {store[v] : v \in DOMAIN store}

\* getEventLatest: ListEvents of the namespace, the highest version of any status.
\* << >> stands for its "not found" error.
getEventLatest ==
  UNION {IF answer = {} THEN {<< >>} ELSE {<< d >> : d \in answer} :
           answer \in ListEvents(StoredDefs, [ns |-> NoFilter, status |-> NoFilter, tags |-> {}])}

\* The upsert of PublishEvent: a version that exists is replaced.
Upsert(def) ==
  store' = [v \in DOMAIN store \cup {def.ver.raw} |-> IF v = def.ver.raw THEN def ELSE store[v]]

\* What a new version may do to a property without a breaking change being reported: give it
\* its first enum, which counts as added values; take values from its enum when it also
\* becomes optional, which is reported instead; or tighten its pattern or its bounds.
Overlooks(from, to) ==
  \E n \in DOMAIN from \cap DOMAIN to :
    \/ from[n].enum = {} /\ to[n].enum # {}
    \/ /\ from[n].required /\ ~to[n].required
       /\ to[n].enum # {} /\ from[n].enum \ to[n].enum # {}
    \/ ~(to[n].refused \subseteq from[n].refused)

Version(def) == IF Parses(def.ver) THEN {def.ver.num} ELSE {}

\* The history of storing def, which was compared with prev.
Recorded(prev, def) ==
  /\ unchecked' = IF prev \in getEventLatest THEN unchecked ELSE unchecked \cup Version(def)
  /\ overlooked' = IF prev # << >> /\ Overlooks(prev[1].props, def.props)
                   THEN overlooked \cup Version(def)
                   ELSE overlooked

\* The bound: requests only while there is room for another version.
Room == Cardinality(DOMAIN store) < MaxVersions

\* The checks of submitEventForm; without an earlier version there is nothing to compare.
Accepts(prev, def) ==
  /\ ValidateEventDef(def)
  /\ prev # << >> =>
       ValidateVersionBump(prev[1].ver.num, def.ver.num, Diff(prev[1], def))

\* submitEventForm up to PublishEvent: the request passes, or the form comes back
\* with the suggestion.  A failure to read the latest version counts as "not found".
Submit(e) ==
  /\ form[e].step = "idle" /\ Room
  /\ \E latest \in getEventLatest : \E def \in Drafts(latest), prev \in {latest, << >>} :
       form' = [form EXCEPT ![e] =
         [step |-> IF Accepts(prev, def) THEN "checked" ELSE "rejected",
          prev |-> prev, def |-> def]]
  /\ UNCHANGED << store, history >>

\* The editor closes a form that came back.
Abandon(e) ==
  /\ form[e].step = "rejected"
  /\ form' = [form EXCEPT ![e] = Idle]
  /\ UNCHANGED << store, history >>

\* h.st.PublishEvent, whatever was stored since the check, or its failure.
Publish(e) ==
  /\ form[e].step = "checked"
  /\ form' = [form EXCEPT ![e] = Idle]
  /\ \/ /\ Room
        /\ Upsert(form[e].def)
        /\ Recorded(form[e].prev, form[e].def)
     \/ UNCHANGED << store, history >>

\* handlePublishEvent and the new-event form: no comparison with what is stored.
Post ==
  /\ Room
  /\ \E latest \in getEventLatest : \E def \in Posts(latest) : Upsert(def) /\ Recorded(<< >>, def)
  /\ UNCHANGED form

PublishInit == store = << >> /\ form = [e \in Authors |-> Idle] /\ unchecked = {} /\ overlooked = {}

PublishNext == Post \/ \E e \in Authors : Submit(e) \/ Abandon(e) \/ Publish(e)

PublishSpec == PublishInit /\ [][PublishNext]_publishVars

-----------------------------------------------------------------------------
(* Properties.                                                             *)

\* The comparisons under way: pairs of an earlier and a new definition.
Compared == {<< form[e].prev[1], form[e].def >> :
               e \in {x \in Authors : form[x].step # "idle" /\ form[x].prev # << >>}}

\* spec/diff.go:293 calls the suggestion "the minimum valid SchemaVer": the version
\* the rejected form suggests passes ValidateVersionBump, and no lower one does.
VersionsUpTo(v) == (0 .. v[1] + 1) \X (0 .. v[2] + 1) \X (0 .. v[3] + 1)
SuggestionLeast ==
  \A c \in Compared :
    LET from == c[1].ver.num
        changes == Diff(c[1], c[2])
        suggested == SuggestVersion(from, changes)
    IN  /\ ValidateVersionBump(from, suggested, changes)
        /\ \A v \in VersionsUpTo(from) :
             ValidateVersionBump(from, v, changes) => ~Higher(suggested, v)

\* spec/diff.go:172: removed and added properties are paired greedily, in the order of
\* their names.  Every property that comes or goes is reported once, as half of a rename or
\* alone, and the pairing leaves no removed and added property of one type unpaired.
PropsAccounted ==
  \A c \in Compared :
    LET from == c[1].props
        to == c[2].props
        changes == PropChanges(from, to)
        gone == DOMAIN from \ DOMAIN to
        come == DOMAIN to \ DOMAIN from
        reports(n) == {ch \in changes : ch.property = n \/ (ch.kind = "rename_prop" /\ ch.to = n)}
        alone(n) == \A ch \in reports(n) : ch.kind # "rename_prop"
    IN  /\ \A n \in gone \cup come : Cardinality(reports(n)) = 1
        /\ \A n \in gone, m \in come : alone(n) /\ alone(m) => from[n].type # to[m].type

\* docs/docs/concepts/event-contract.md:55: a change that breaks consumers asks for a MAJOR
\* step.  A payload of properties that a version declares and accepts is accepted by every
\* later version of its major, but for two reasons: a version between the two (or one of
\* them) was stored without being compared with the latest, or a version after the first
\* was, and narrowed a property in one of the ways that diffProp overlooks.
Values == [type : {"string"}, text : {"a", "b", "c"}] \cup [type : {"integer"}, text : {"1"}]
Payloads(def) == UNION {[N -> Values] : N \in SUBSET DOMAIN def.props}
Excused(x, y) ==
  \/ \E w \in unchecked : ~Higher(x, w) /\ ~Higher(w, y)
  \/ \E w \in overlooked : Higher(w, x) /\ ~Higher(w, y)
MajorCompatible ==
  \A u, v \in StoredDefs :
    /\ Parses(u.ver) /\ Parses(v.ver)
    /\ u.ver.num[1] = v.ver.num[1] /\ Higher(v.ver.num, u.ver.num)
    /\ ~Excused(u.ver.num, v.ver.num)
    => \A payload \in Payloads(u) :
         ValidateEventPayload(u, payload) => ValidateEventPayload(v, payload)
=============================================================================
