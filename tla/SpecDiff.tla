------------------------------ MODULE SpecDiff ------------------------------
(***************************************************************************)
(* The rules of schema versions (spec/diff.go) and of payloads             *)
(* (spec/validator.go): what changed between two versions of an event, how *)
(* large a step of the version the changes ask for, and which payloads a   *)
(* version accepts.                                                        *)
(*                                                                         *)
(* A definition has, besides the fields of RegistryQueries, its event_name *)
(* and type, attrs (the event-level settings that Diff only compares for   *)
(* equality) and props, a function from property names to                  *)
(* [type, required, enum, refused, description].  refused are the values   *)
(* that the pattern and the bounds of the property do not admit.           *)
(***************************************************************************)
EXTENDS RegistryQueries, Functions, FiniteSetsExt

CONSTANT NameOrder   \* the property names, in the order sort.Strings gives them

ASSUME NamesAssumption ==
  /\ NameOrder \in Seq(Range(NameOrder))
  /\ \A i, j \in DOMAIN NameOrder : NameOrder[i] = NameOrder[j] => i = j

Statuses == {"draft", "active", "deprecated", "deleted"}
EventTypes == {"track", "page", "identify", "group", "alias"}
PropTypes == {"string", "number", "integer", "boolean", "object", "array"}

\* ValidateEventDef returns no error.  "invalid" stands for a sampling strategy or
\* rate, or a property_priority, outside its range.
ValidateEventDef(def) ==
  /\ "" \notin {def.name, def.ns, def.event_name}
  /\ Parses(def.ver)
  /\ def.status \in Statuses /\ def.type \in EventTypes
  /\ \A p \in DOMAIN def.props : def.props[p].type \in PropTypes
  /\ \A a \in {"sampling", "property_priority"} : def.attrs[a] # "invalid"

-----------------------------------------------------------------------------
(* Diff.                                                                   *)

Change(kind, property, breaking) ==
  [kind |-> kind, property |-> property, to |-> "", breaking |-> breaking]

When(cond, change) == IF cond THEN {change} ELSE {}

\* The attributes Diff compares one by one, with the kind it reports.
AttrKind ==
  [sampling           |-> "sampling_modified",
   context_properties |-> "context_props_modified",
   destinations       |-> "destinations_modified",
   property_priority  |-> "property_priority_changed",
   provider_overrides |-> "provider_overrides_modified"]

\* Diff, the event-level part.  A new display_name is not reported with a rename;
\* only the step to "deleted" is a breaking change of the status.
EventChanges(from, to) ==
  LET renamed == from.name # to.name \/ from.event_name # to.event_name
      attr(a) == from.attrs[a] # to.attrs[a]
  IN  When(renamed, Change("rename_event", "event_name", TRUE))
      \cup When(from.type # to.type, Change("event_type_changed", "type", TRUE))
      \cup When(from.status # to.status,
                Change("status_changed", "status", to.status = "deleted"))
      \cup {Change(AttrKind[a], a, FALSE) : a \in {b \in DOMAIN AttrKind : attr(b)}}
      \cup When(\/ attr("description") \/ attr("owner") \/ from.tags # to.tags
                \/ ~renamed /\ attr("display_name"),
                Change("metadata_only", "metadata", FALSE))

\* sortedPropKeys and sliceDiff list names in their order: the first name of S.
FirstName(S) == NameOrder[Min({i \in DOMAIN NameOrder : NameOrder[i] \in S})]

\* Mutant: a name may be taken twice.
PairStepAgain(from, to, pairs, rem) ==
  LET free == {a \in DOMAIN to \ DOMAIN from : from[rem].type = to[a].type}
  IN  IF free = {} THEN pairs ELSE pairs \cup {<< rem, FirstName(free) >>}

\* One round of the rename detection: rem is paired with the first added name of
\* its type that is not taken; pairs is renamedFrom and renamedTo together.
PairStep(from, to, pairs, rem) ==
  LET free == {a \in DOMAIN to \ DOMAIN from :
                 /\ \A p \in pairs : p[2] # a
                 /\ from[rem].type = to[a].type}
  IN  IF free = {} THEN pairs ELSE pairs \cup {<< rem, FirstName(free) >>}

\* The removed names take their turns in order.
Renames(from, to) ==
  LET pairs[i \in 0 .. Len(NameOrder)] ==
        IF i = 0 THEN {}
        ELSE IF NameOrder[i] \in DOMAIN from \ DOMAIN to
             THEN PairStep(from, to, pairs[i - 1], NameOrder[i])
             ELSE pairs[i - 1]
  IN  pairs[Len(NameOrder)]

\* diffProp returns at the first difference it looks for, in this order; it does not look
\* at pattern, minimum and maximum.
Checks(name, from, to) ==
  << [hit |-> from.type # to.type, change |-> Change("type_changed", name, TRUE)],
     [hit |-> ~from.required /\ to.required, change |-> Change("make_required", name, TRUE)],
     [hit |-> from.required /\ ~to.required, change |-> Change("make_optional", name, FALSE)],
     [hit |-> from.enum \ to.enum # {}, change |-> Change("remove_enum_value", name, TRUE)],
     [hit |-> to.enum \ from.enum # {}, change |-> Change("add_enum_value", name, FALSE)],
     [hit |-> from.description # to.description,
      change |-> Change("description_only", name, FALSE)] >>

diffProp(name, from, to) ==
  LET checks == Checks(name, from, to)
      hits == {i \in 1 .. 6 : checks[i].hit}
  IN  IF hits = {} THEN {} ELSE {checks[Min(hits)].change}

\* Diff, the properties.
PropChanges(from, to) ==
  LET renames == Renames(from, to)
      renamedFrom == {p[1] : p \in renames}
      renamedTo   == {p[2] : p \in renames}
  IN  {[kind |-> "rename_prop", property |-> p[1], to |-> p[2], breaking |-> TRUE] :
         p \in renames}
      \cup {Change("remove_prop", n, TRUE) :
              n \in DOMAIN from \ (DOMAIN to \cup renamedFrom)}
      \cup {IF to[n].required THEN Change("add_required_prop", n, TRUE)
            ELSE Change("add_optional_prop", n, FALSE) :
              n \in DOMAIN to \ (DOMAIN from \cup renamedTo)}
      \cup UNION {diffProp(n, from[n], to[n]) : n \in DOMAIN from \cap DOMAIN to}

Diff(from, to) == EventChanges(from, to) \cup PropChanges(from.props, to.props)

-----------------------------------------------------------------------------
(* Versions.                                                               *)

PatchKinds == {"description_only", "metadata_only", "destinations_modified",
               "property_priority_changed"}

\* Mutant: Breaking is not looked at.
changeBumpLevelByKind(c) == IF c.kind \in PatchKinds THEN 0 ELSE 1

\* changeBumpLevel: 0 = PATCH, 1 = MINOR, 2 = MAJOR.
changeBumpLevel(c) == IF c.breaking THEN 2 ELSE IF c.kind \in PatchKinds THEN 0 ELSE 1

\* The loops over changes in SuggestVersion and ValidateVersionBump.
MinLevel(changes) == Max({0} \cup {changeBumpLevel(c) : c \in changes})

\* Mutant: the lower numbers are not reset.
SuggestVersionNoReset(from, changes) ==
  CASE MinLevel(changes) = 2 -> << from[1] + 1, from[2], from[3] >>
    [] MinLevel(changes) = 1 -> << from[1], from[2] + 1, from[3] >>
    [] OTHER                 -> << from[1], from[2], from[3] + 1 >>

\* SuggestVersion; without changes it is the next patch too.
SuggestVersion(from, changes) ==
  CASE MinLevel(changes) = 2 -> << from[1] + 1, 0, 0 >>
    [] MinLevel(changes) = 1 -> << from[1], from[2] + 1, 0 >>
    [] OTHER                 -> << from[1], from[2], from[3] + 1 >>

DeclaredLevel(from, to) ==
  IF to[1] > from[1] THEN 2 ELSE IF to[2] > from[2] THEN 1 ELSE 0

\* ValidateVersionBump returns no error; from and to are versions.
ValidateVersionBump(from, to, changes) ==
  /\ from # << >> /\ to # << >>
  /\ CompareSchemaVer(to, from) > 0
  /\ DeclaredLevel(from, to) >= MinLevel(changes)

-----------------------------------------------------------------------------
(* Payloads.                                                               *)

\* JSON Schema: an integer is a number too.
Fits(type, declared) == type = declared \/ (type = "integer" /\ declared = "number")

\* buildPropertySchema and the JSON Schema library: a value is [type, text]; the values of
\* an enum are strings; refused is what pattern, minimum and maximum refuse.
Satisfies(value, prop) ==
  /\ Fits(value.type, prop.type)
  /\ prop.enum # {} => value.type = "string" /\ value.text \in prop.enum
  /\ value \notin prop.refused

\* ValidateEventPayload and BuildJSONSchema: undeclared properties pass, and a property type
\* that JSON Schema does not know makes the compilation fail.
ValidateEventPayload(def, payload) ==
  /\ \A n \in DOMAIN def.props : def.props[n].type \in PropTypes
  /\ \A n \in DOMAIN def.props : def.props[n].required => n \in DOMAIN payload
  /\ \A n \in DOMAIN def.props \cap DOMAIN payload : Satisfies(payload[n], def.props[n])
=============================================================================
