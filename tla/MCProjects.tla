---------------------------- MODULE MCProjects ------------------------------
(* Small instances of CapabilitySync, ProjectRecords and ProjectTools, the *)
(* three sides of a project, for TLC.  They share no state: a behaviour is *)
(* one of either, and the variables of the others keep their values.       *)
EXTENDS ProjectRows, Sequences, TLC

VARIABLE part

records == <<project, detail, reader, listed, hydrated>>
tools == <<stage, doc, synced, schema, shown, config, sent>>

ASSUME RecordAssumption == P!RecordAssumption
ASSUME ToolAssumption == T!ToolAssumption
ASSUME DepthAssumption == T!DepthAssumption

-----------------------------------------------------------------------------
(* Documents: each kind of integration with each source of its document.   *)
Param(name, in, required) ==
  [name |-> name, in |-> in, required |-> required, schema |-> TRUE]
Parameters == {<<>>, <<Param("id", "path", TRUE)>>,
               <<Param("", "query", TRUE), Param("id", "query", FALSE)>>,
               <<Param("body", "body", TRUE), Param("example", "query", TRUE)>>,
               <<[Param("body", "body", TRUE) EXCEPT !.schema = FALSE]>>,
               <<Param("body", "body", FALSE), Param("body", "query", TRUE)>>}
Op(id, parameters, body) == [id |-> id, parameters |-> parameters, body |-> body]
Items == {[parameters |-> p, operations |-> [get |-> Op("", q, "none"), post |-> Op("", q, body)]] :
            p, q \in Parameters, body \in {"optional", "required"}}
Other == [parameters |-> <<>>, operations |-> [get |-> Op("list-items", <<>>, "none")]]
Tool(name, method, path) == [name |-> name, method |-> method, path |-> path]
Manifests ==
  {[spec |-> spec, paths |-> ("/a-b" :> item @@ "/a/{b}" :> Other)] :
     spec \in {"openapi", "swagger"}, item \in Items}
  \union {[spec |-> "openapi", paths |-> <<>>], [spec |-> "none"],
          [spec |-> "tools", tools |-> <<Tool("", "", ""), Tool("op", "get", "remote")>>],
          [spec |-> "tools", tools |-> <<Tool("", "", "")>>]}
OfMCP == {[spec |-> "tools", tools |-> <<Tool("", "", ""), Tool("op", "", "")>>],
          [spec |-> "none"]}
MCDocuments ==
  {[kind |-> k, documentation |-> "remote", endpoint |-> "", document |-> m] :
     k \in {"api", "skill"}, m \in Manifests}
  \union {[kind |-> "mcp", documentation |-> "remote", endpoint |-> e, document |-> m] :
            e \in {"", "remote"}, m \in OfMCP}
  \union {[kind |-> k, documentation |-> "builtin", endpoint |-> "", document |-> [spec |-> "none"]] :
            k \in {"api", "skill"}}

(* Schemas: every keyword that is cleaned, at some depth, and properties   *)
(* that are required, one of them of the name of a keyword.                *)
Atom(a) == <<"atom", a>>
Map(f) == <<"map", f>>
List(s) == <<"list", s>>
Leaves == {Map("type" :> Atom("file")), Map("type" :> Atom("string")),
           Map("type" :> Atom("array") @@ "items" :> Map("type" :> Atom("file"))),
           Map("$ref" :> Atom("pet")), Map("example" :> Atom("x"))}
Object(p, a) ==
  Map("properties" :> Map("id" :> a @@ p :> Map("type" :> Atom("string")))
      @@ "required" :> List(<<Atom("id"), Atom(p)>>))
Inner == Leaves
  \union {Map(c :> List(<<a, b>>)) : c \in {"anyOf", "allOf"}, a, b \in Leaves}
  \union {Map("type" :> Atom("object") @@ "oneOf" :> List(<<a, Atom("x")>>)) : a \in Leaves}
  \union {Map("type" :> Atom("file") @@ "anyOf" :> List(<<Map("oneOf" :> List(<<a>>) @@ "xml" :> Atom("x"))>>)) :
            a \in Leaves}
  \union {Map("anyOf" :> List(<<>>) @@ "examples" :> List(<<Atom("x")>>)) }
  \union {Object(p, a) : p \in {"format", "example"}, a \in Leaves}
  \union {Map("oneOf" :> List(<<Object("format", Map("type" :> Atom("string")))>>)
              @@ "properties" :> Map("id" :> Map("type" :> Atom("string")))
              @@ "required" :> List(<<Atom("id")>>))}
MCSchemas ==
  Inner \union {Map("properties" :> Map(p :> a)) : p \in {"id", "example"}, a \in Inner}
  \union {Map("type" :> Atom("array") @@ "items" :> a) : a \in Inner}
WithParts ==  \* and the parts of each, level by level
  LET level[n \in 0..Depth] ==
        IF n = 0 THEN MCSchemas
        ELSE UNION {{v[2][k] : k \in DOMAIN v[2]} : v \in {w \in level[n - 1] : w[1] # "atom"}}
  IN  UNION {level[n] : n \in 0..Depth}
MCValues == WithParts  \* which TLC evaluates once

(* Settings: of the headers the two that authentication and the identity   *)
(* of the user also set.                                                   *)
SomeHeaders == {{}, {"Authorization"}, {"X-User-ID"}}
URLs == {"", "local", "remote"}
Type(type) == [type |-> type, header |-> "blank"]
UserKey == [type |-> "api_key", header |-> "X-User-ID"]
OfProject == [endpoint : URLs, headers : SomeHeaders,
              auth : {Type("bearer"), UserKey}]
OfIntegration ==
  [kind : {"api", "mcp"}, endpoint : URLs, headers : SomeHeaders,
   auth : {Type("none"), Type("api_key"), Type("inherit")}]
  \union {[kind |-> "none", endpoint |-> "", headers |-> {}, auth |-> Type("inherit")]}
MCConfigs ==
  {[project |-> p, integration |-> i, path |-> path, get |-> path \in {"other", "remote"}] :
     p \in OfProject, i \in OfIntegration, path \in {"api", "other", "local", "remote"}}

-----------------------------------------------------------------------------
MCInit == part \in {"sync", "records", "tools"} /\ Init /\ P!Init /\
          IF part = "tools" THEN T!Init
          ELSE /\ stage = "off" /\ doc = <<>> /\ synced = {} /\ schema = <<>>
               /\ shown = <<>> /\ config = <<>> /\ sent = <<>>

MCNext ==
  /\ UNCHANGED part
  /\ \/ part = "sync" /\ Next /\ UNCHANGED <<records, tools>>
     \/ part = "records" /\ P!Next /\ UNCHANGED <<vars, tools>>
     \/ part = "tools" /\ T!Next /\ UNCHANGED <<vars, records>>

MCSpec == MCInit /\ [][MCNext]_<<part, vars, records, tools>>

Symmetry == Permutations(Runs) \union Permutations(Names) \union Permutations(Syncs)
              \union Permutations(Tenants) \union Permutations(Requests)
=============================================================================
