--------------------------- MODULE MCLocalRegistry ---------------------------
\* A small tree: specs/a.yaml, specs/sub/b.yaml and sources/s.yaml.
EXTENDS LocalRegistry
CONSTANTS specs, sub, sources, a, b, s

MCParent == a :> specs @@ sub :> specs @@ b :> sub @@ s :> sources
MCRank == specs :> 1 @@ a :> 2 @@ sub :> 3 @@ b :> 4 @@ sources :> 5 @@ s :> 6
MCKindOf == a :> "event" @@ b :> "event" @@ s :> "source"
Login(raw, num, status) ==
  [ns |-> "auth", name |-> "login", ver |-> [raw |-> raw, num |-> num],
   status |-> status, tags |-> IF status = "active" THEN {"pii"} ELSE {}]
MCVersions ==
  a :> {Login("1-0-0", << 1, 0, 0 >>, "active"), Login("latest", << >>, "active")} @@
  b :> {Login("1-0-0", << 1, 0, 0 >>, "deprecated"), Login("1-2-0", << 1, 2, 0 >>, "active")} @@
  s :> {[name |-> "web"]}
=============================================================================
