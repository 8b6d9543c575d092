--------------------------- MODULE MCEventPublish ---------------------------
\* Definitions with one richly described property and a few plain ones.
EXTENDS EventPublish

AuthorSymmetry == Permutations(Authors)

MCNameOrder == << "p", "q", "r", "s" >>
Prop(type, required, enum) ==
  [type |-> type, required |-> required, enum |-> enum, refused |-> {}, description |-> ""]
Strict == [Prop("string", FALSE, {}) EXCEPT !.refused = {[type |-> "string", text |-> "c"]}]
Ver(a, b, c) == [raw |-> << a, b, c >>, num |-> << a, b, c >>]
Def(ver, status, attrs, props) ==
  [ns |-> "shop", name |-> "viewed", ver |-> ver, status |-> status, tags |-> {},
   event_name |-> "Viewed", type |-> "track", attrs |-> attrs, props |-> props]
Attrs ==
  [sampling |-> "none", context_properties |-> "", destinations |-> "",
   property_priority |-> "", provider_overrides |-> "", display_name |-> "",
   description |-> "", owner |-> ""]

\* The rich property p, alone or beside a plain q.
Rich ==
  {"p" :> Prop("string", FALSE, {}), "p" :> Strict,
   "p" :> Prop("string", TRUE, {"a", "b"}),
   "p" :> Prop("string", FALSE, {"a"}) @@ "q" :> Prop("string", FALSE, {})}

\* Plain properties, for the pairing of renames: names that go and names that come,
\* before and after each other in the alphabet.
PlainOver(Ns) == UNION {[N -> {Prop("string", FALSE, {}), Prop("integer", FALSE, {})}] : N \in Ns}
Before == PlainOver({{"p", "q"}, {"q", "r"}})
After == PlainOver({{"r", "s"}, {"p"}})

\* With MaxVersions = 3 the latest version is at most two steps from the first.
SomeVersions == (1 .. 3) \X (0 .. 2) \X (0 .. 2)
NextVersions(v) ==
  SomeVersions \cap
  {<< v[1], v[2], v[3] + 1 >>, << v[1], v[2] + 1, 0 >>, << v[1] + 1, 0, 0 >>}

OverVersions(prev, P) ==
  {Def(Ver(v[1], v[2], v[3]), "active", Attrs, props) :
     v \in NextVersions(prev.ver.num), props \in P}

FirstDrafts ==
  {Def(Ver(1, 0, 0), "active", Attrs, "p" :> p) :
     p \in {Prop("string", FALSE, {}), Prop("string", TRUE, {"a", "b"})}}
FirstPlain == {Def(Ver(1, 0, 0), "draft", Attrs, props) : props \in Before}

\* What an edit of the first version may do to the rest of the definition.
Touched(prev) ==
  LET next == {Def(Ver(v[1], v[2], v[3]), prev.status, prev.attrs, prev.props) :
                 v \in IF prev.ver.num = << 1, 0, 0 >> THEN NextVersions(prev.ver.num) ELSE {}}
  IN  {[d EXCEPT !.status = "deleted"] : d \in next}
      \cup {[d EXCEPT !.attrs.description = "better"] : d \in next}

SomeDrafts(prev) ==
  IF prev = << >> THEN FirstDrafts
  ELSE IF prev[1].status = "draft"
       THEN {Def(Ver(1, 0, 1), "active", Attrs, props) : props \in After}
       ELSE OverVersions(prev[1], Rich) \cup Touched(prev[1])

\* A version that ParseSchemaVer does not read.
Unread == Def([raw |-> << >>, num |-> << >>], "draft", Attrs, << >>)

\* Requests that are not compared: a first draft, or one over it without properties.
SomePosts(prev) ==
  IF prev = << >> THEN FirstPlain \cup {Unread}
  ELSE IF prev[1].status = "draft" THEN {Def(Ver(1, 1, 0), "active", Attrs, << >>)}
  ELSE {}

MCDefinitions ==
  FirstPlain \cup {Unread} \cup
  {Def(Ver(v[1], v[2], v[3]), status, attrs, props) :
     v \in SomeVersions, status \in {"active", "deleted"},
     attrs \in {Attrs, [Attrs EXCEPT !.description = "better"]},
     props \in Rich \cup After \cup {<< >>}}
=============================================================================
