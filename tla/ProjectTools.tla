---------------------------- MODULE ProjectTools ----------------------------
(***************************************************************************)
(* From an integration's document to a tool of the agent: a manifest is    *)
(* fetched and converted to capabilities, a capability's schema is cleaned *)
(* for the model, and a call of the tool is built into a request and its   *)
(* answer decoded.  These are functions of their input; a behaviour takes  *)
(* one document, one schema or one configuration through them.             *)
(*                                                                         *)
(* A document's map of paths is walked in no fixed order, so capabilities  *)
(* are a set.  Descriptions, output schemas and metadata are left out.     *)
(* A schema is known here by the keys of its properties only, except where *)
(* it is cleaned, which is what goes through it.                           *)
(***************************************************************************)
EXTENDS Naturals, Sequences

CONSTANTS
  Documents,  \* integrations and what they answer, of the form of Document
  Values,     \* JSON values, with the values they are made of
  Schemas,    \* the schemas of tools, those values of the form Map(...)
  Depth,      \* the bound on how deep values are nested in a schema
  Configs     \* the settings of a call, of the form of Config

VARIABLES
  stage,   \* how far the behaviour is
  doc,     \* the integration, with its document
  synced,  \* the capabilities it is converted to
  schema,  \* the schema of a tool, as stored
  shown,   \* the same as shown to the model
  config,  \* the project, the integration and the capability of a call
  sent     \* the request of the call

vars == <<stage, doc, synced, schema, shown, config, sent>>
Nothing == <<"nothing", "">>

-----------------------------------------------------------------------------
(* Fetching.                                                               *)

(* The document of an integration: MCP tools are asked for at the endpoint *)
(* only; "" is an error.                                                   *)
DocumentURL(d) ==
  IF d.kind # "mcp" /\ d.documentation # "" THEN d.documentation ELSE d.endpoint

Ticketmaster ==
  [spec |-> "tools",
   tools |-> <<[name |-> "ticketmaster_search_events", method |-> "post", path |-> "api"]>>]

(* What a server sends back: an error status or an error of JSON-RPC, what *)
(* is no object, or the document; YAML is as good as JSON but for MCP.     *)
Reply == {"error", "garbage", "json", "yaml"}

Fetch(reply) ==
  /\ stage = "configured integration"
  /\ \/ /\ doc.kind = "skill" /\ DocumentURL(doc) = "builtin"
        /\ doc' = [doc EXCEPT !.document = Ticketmaster]
        /\ stage' = "fetched"
     \/ /\ ~(doc.kind = "skill" /\ DocumentURL(doc) = "builtin")
        /\ stage' = IF \/ DocumentURL(doc) # "remote"
                       \/ reply \in {"error", "garbage"}
                       \/ reply = "yaml" /\ doc.kind = "mcp"
                    THEN "failed" ELSE "fetched"
        /\ UNCHANGED doc
  /\ UNCHANGED <<synced, schema, shown, config, sent>>

(* OpenAPI 3 and Swagger 2: a document has paths, a path parameters of its *)
(* own and operations, an operation parameters and perhaps a body.  A      *)
(* parameter is [name, in, required, schema]; without a name, as a         *)
(* reference to one has none, it is passed over.                           *)
Methods == {"get", "post"}

(* In the name made of a method and a path braces vanish, "/", "-" and "." *)
(* become "_"; in an id "-" and " " do.                                    *)
Sanitized(id) == IF id = "list-items" THEN "list_items" ELSE id
SanitizedPath(path) == IF path \in {"/a-b", "/a/b", "/a/{b}"} THEN "_a_b" ELSE "_a"
OperationName(method, path, op) ==
  IF op.id # "" THEN Sanitized(op.id) ELSE method \o SanitizedPath(path)

Body == <<"query", "body">>   \* the same key as a query parameter of that name
ParameterKey(p) == <<p.in, p.name>>
Named(parameters) == {i \in DOMAIN parameters : parameters[i].name # ""}

RequiredKeysBroken(parameters) ==  \* a parameter that has no name as well
  {ParameterKey(parameters[i]) : i \in {j \in DOMAIN parameters : parameters[j].required}}

RequiredKeys(parameters) ==
  {ParameterKey(parameters[i]) : i \in {j \in Named(parameters) : parameters[j].required}}

InputSchema(parameters, hasBody, needsBody) ==
  [properties |-> {ParameterKey(parameters[i]) : i \in Named(parameters)}
                    \union (IF hasBody THEN {Body} ELSE {}),
   required |-> RequiredKeys(parameters)
                  \union (IF hasBody /\ needsBody THEN {Body} ELSE {})]

OpenAPIInputSchema(parameters, body) ==
  InputSchema(parameters, body # "none", body = "required")

(* In Swagger the body is a parameter, passed over if it has no schema.    *)
SwaggerInputSchema(parameters) ==
  LET bodies == {i \in Named(parameters) : parameters[i].in = "body" /\ parameters[i].schema}
  IN  InputSchema(SelectSeq(parameters, LAMBDA p : p.in # "body"), bodies # {},
                  \E i \in bodies : parameters[i].required)

Capability(spec, path, method, item) ==
  LET op == item.operations[method]
      parameters == item.parameters \o op.parameters
  IN  [name |-> OperationName(method, path, op), method |-> method, path |-> path,
       input |-> IF spec = "openapi" THEN OpenAPIInputSchema(parameters, op.body)
                 ELSE SwaggerInputSchema(parameters)]

CapabilitiesOfAPI(d) ==
  UNION {{Capability(d.spec, path, method, d.paths[path]) :
            method \in DOMAIN d.paths[path].operations} : path \in DOMAIN d.paths}

(* MCP answers and skill manifests list tools as [name, method, path]; one *)
(* without a name is passed over.  Those of MCP have no method or path;    *)
(* the path of a skill's may be the URL it is executed at.                 *)
CapabilitiesOfTools(d) ==
  {[name |-> d.tools[i].name, path |-> d.tools[i].path,
    method |-> IF d.tools[i].method = "" THEN "post" ELSE d.tools[i].method,
    input |-> [properties |-> {}, required |-> {}]] :
      i \in {j \in DOMAIN d.tools : d.tools[j].name # ""}}

CapabilitiesOf(d) ==
  CASE d.spec \in {"openapi", "swagger"} -> CapabilitiesOfAPI(d)
    [] d.spec = "tools" -> CapabilitiesOfTools(d)
    [] OTHER -> {}

(* A document of another form, or with nothing in it, fails; a list of MCP *)
(* tools may be empty, and what is no list of tools is an empty one.       *)
Sync ==
  /\ stage = "fetched"
  /\ LET d == doc.document
         result == IF (doc.kind = "api") = (d.spec = "tools")
                   THEN {} ELSE CapabilitiesOf(d)
     IN  IF result = {} /\ doc.kind # "mcp"
         THEN stage' = "failed" /\ UNCHANGED synced
         ELSE stage' = "synced" /\ synced' = result
  /\ UNCHANGED <<doc, schema, shown, config, sent>>

-----------------------------------------------------------------------------
(* JSON values: atoms, maps and lists.                                     *)
Atom(a) == <<"atom", a>>
Map(f) == <<"map", f>>
List(s) == <<"list", s>>
Has(v, k) == v[1] = "map" /\ k \in DOMAIN v[2]
IsType(v, t) == Has(v, "type") /\ v[2]["type"] = Atom(t)

(* The values a value is made of, and those it has n levels down.          *)
Parts(v) == IF v[1] = "atom" THEN {} ELSE {v[2][k] : k \in DOMAIN v[2]}

Within(v) ==
  LET level[n \in Nat] ==
        IF n = 0 THEN {v} ELSE UNION {Parts(w) : w \in level[n - 1]}
  IN  level

Dropped == {"xml", "example", "examples"}
Combinators == {"anyOf", "oneOf", "allOf"}

Referenced(v) == Has(v, "$ref") /\ v[2]["$ref"][1] = "atom" /\ v[2]["$ref"] # Atom("")
RefObject == Map([type |-> Atom("object"), description |-> Atom("referenced object")])

With(f, k, v) == [j \in DOMAIN f \union {k} |-> IF j = k THEN v ELSE f[j]]
WithDefault(f, k, v) == IF k \in DOMAIN f THEN f ELSE With(f, k, v)

(* A type "file" becomes a string.                                         *)
Unfiled(f) ==
  IF f # <<>> /\ IsType(Map(f), "file")
  THEN WithDefault(With(f, "type", Atom("string")), "description",
                   Atom("file content or path"))
  ELSE f

(* The option of a combinator that is kept: the first string, else the     *)
(* first array, else the first schema.                                     *)
Option(s) ==
  LET all == {i \in DOMAIN s : s[i][1] = "map"}
      ofType(t) == {i \in all : IsType(s[i], t)}
      least(I) == s[CHOOSE i \in I : \A j \in I : i <= j]
  IN  CASE ofType("string") # {} -> least(ofType("string"))
        [] ofType("string") = {} /\ ofType("array") # {} -> least(ofType("array"))
        [] OTHER -> least(all)

HasOption(v) == v[1] = "list" /\ \E i \in DOMAIN v[2] : v[2][i][1] = "map"

(* The possible results of cleaning a value, where c has those of its      *)
(* parts: a map is walked in no fixed order, and where both it and the     *)
(* option kept of its combinator have a key, the one that is walked last   *)
(* is left.  A schema has at most one combinator here.                     *)
Choices(D, F(_)) == {f \in [D -> UNION {F(k) : k \in D}] : \A k \in D : f[k] \in F(k)}

OptionsOf(f) == {c \in Combinators \intersect DOMAIN f : HasOption(f[c])}
Combined(f) == f[CHOOSE k \in OptionsOf(f) : TRUE][2]

SimplifiedBroken(c, f) ==  \* the option itself, not cleaned
  IF OptionsOf(f) = {} THEN {Map(<<>>)} ELSE {Option(Combined(f))}

Simplified(c, f) ==
  IF OptionsOf(f) = {} THEN {Map(<<>>)} ELSE c[Option(Combined(f))]

CleanMapsBroken(c, f) ==  \* a keyword too many is dropped
  LET own == DOMAIN f \ (Dropped \union {"format"} \union Combinators)
      from(o, k) == (IF k \in own THEN c[f[k]] ELSE {})
                      \union (IF k \in DOMAIN o THEN {o[k]} ELSE {})
  IN  UNION {{Map(Unfiled(g)) : g \in Choices(own \union DOMAIN s[2], LAMBDA k : from(s[2], k))} :
               s \in Simplified(c, f)}

CleanMaps(c, f) ==
  LET own == DOMAIN f \ (Dropped \union Combinators)
      from(o, k) == (IF k \in own THEN c[f[k]] ELSE {})
                      \union (IF k \in DOMAIN o THEN {o[k]} ELSE {})
  IN  UNION {{Map(Unfiled(g)) : g \in Choices(own \union DOMAIN s[2], LAMBDA k : from(s[2], k))} :
               s \in Simplified(c, f)}

CleanedBy(c, v) ==
  CASE v[1] = "atom" -> {v}
    [] v[1] = "list" -> {List(s) : s \in Choices(DOMAIN v[2], LAMBDA i : c[v[2][i]])}
    [] v[1] = "map" /\ Referenced(v) -> {RefObject}
    [] OTHER -> CleanMaps(c, v[2])

(* The recursion is over the depth that values are nested: at 0, nothing.  *)
Cleanings ==
  LET to[n \in Nat] ==
        [v \in Values |-> IF n = 0 THEN {} ELSE CleanedBy(to[n - 1], v)]
  IN  to[Depth]

(* What the tool shows is an object with properties.                       *)
InputSchemas(v) ==
  {Map(WithDefault(WithDefault(w[2], "type", Atom("object")), "properties", Map(<<>>))) :
     w \in Cleanings[v]}

Load ==
  /\ stage = "stored"
  /\ stage' = "loaded"
  /\ shown' \in InputSchemas(schema)
  /\ UNCHANGED <<doc, synced, schema, config, sent>>

-----------------------------------------------------------------------------
(* Calling.  A header is known by who has set the value that is sent; for  *)
(* a capability without integration, kind is "none" and auth "inherit".    *)
(* "local" is the address that this server knows itself by.                *)
Headers == {"Authorization", "X-API-Key", "X-User-ID"}
Servers == {"local", "remote"}
URLs == Servers \union {""}

(* An api_key may name its header.                                         *)
Auth(types) == [type : types, header : Headers \union {"blank"}]
AuthTypes == {"none", "bearer", "api_key", "basic"}

(* A request path is that of a call of this server (/api/v1/...), another  *)
(* one, or absolute: the URL of a server.                                  *)
Paths == {"api", "other"} \union Servers

Config == [project : [endpoint : URLs, headers : SUBSET Headers, auth : Auth(AuthTypes)],
           integration : [kind : {"none", "api", "mcp"}, endpoint : URLs,
                          headers : SUBSET Headers,
                          auth : Auth(AuthTypes \union {"inherit"})],
           path : Paths,
           get : BOOLEAN]        \* the method is GET, the default

(* What the theorem assumes of the constants: values have their parts, and *)
(* schemas and settings are such.                                          *)
ToolAssumption ==
  /\ Depth \in Nat
  /\ \A v \in Values : \/ v[1] \in {"atom", "map"} /\ Parts(v) \subseteq Values
                       \/ v[1] = "list" /\ v[2] \in Seq(Values)
  /\ \A v \in Schemas : v \in Values /\ v[1] = "map"
  /\ Configs \subseteq Config

(* The bound leaves out no part of a schema.                               *)
DepthAssumption == \A v \in Schemas : Within(v)[Depth] = {}

NoHeaders == [h \in Headers |-> "unset"]
WithHeaders(headers, names, origin) ==
  [h \in Headers |-> IF h \in names THEN origin ELSE headers[h]]

(* ApplyAuth; of the other types, or without its secret, it sets nothing.  *)
AuthHeaders(auth) ==
  CASE auth.type \in {"bearer", "basic"} -> {"Authorization"}
    [] auth.type = "api_key" ->
         {IF auth.header = "blank" THEN "X-API-Key" ELSE auth.header}
    [] OTHER -> {}

Inherits(c) == c.integration.auth.type = "inherit"

(* applyIntegrationAuth: the headers documents are fetched with.           *)
SyncHeaders(c) ==
  LET own == WithHeaders(NoHeaders, c.project.headers, "project")
      inherited == IF Inherits(c)
                   THEN WithHeaders(own, AuthHeaders(c.project.auth), "project auth")
                   ELSE own
      item == WithHeaders(inherited, c.integration.headers, "integration")
  IN  IF Inherits(c) THEN item
      ELSE WithHeaders(item, AuthHeaders(c.integration.auth), "integration auth")

(* resolveBaseURL; "" is an error.  MCP calls have no path.                *)
BaseURL(c) ==
  CASE c.integration.endpoint # "" -> c.integration.endpoint
    [] c.integration.endpoint = "" /\ c.project.endpoint # "" -> c.project.endpoint
    [] OTHER -> IF c.path = "api" /\ c.integration.kind # "mcp" THEN "local" ELSE ""

(* BuildURL: an absolute path is the URL, whatever the base is.            *)
Absolute(c) == c.integration.kind # "mcp" /\ c.path \in Servers
Destination(c) == IF Absolute(c) THEN c.path ELSE BaseURL(c)

(* applyRunHeaders; who runs the agent is told if the base URL is this     *)
(* server's.                                                               *)
RunHeadersBroken(c) ==  \* a path of this server taken for the server
  IF c.path = "api" THEN {"X-User-ID"} ELSE {}

RunHeaders(c) == IF BaseURL(c) = "local" THEN {"X-User-ID"} ELSE {}

(* resolveAuth and applyProjectAuth.                                       *)
WithAuthBroken(headers, c) ==  \* "inherit" taken for a type of its own
  WithHeaders(headers, AuthHeaders(c.integration.auth), "integration auth")

WithAuth(headers, c) ==
  IF Inherits(c)
  THEN WithHeaders(headers, AuthHeaders(c.project.auth), "project auth")
  ELSE WithHeaders(headers, AuthHeaders(c.integration.auth), "integration auth")

CallHeaders(c) ==
  LET run == WithHeaders(NoHeaders, RunHeaders(c), "run")
      own == WithHeaders(run, c.project.headers, "project")
      item == WithHeaders(own, c.integration.headers, "integration")
  IN  WithAuth(item, c)

(* The arguments go into the query of a GET, else into the JSON body.      *)
Call ==
  /\ stage = "configured call"
  /\ IF BaseURL(config) = "" THEN stage' = "failed" /\ UNCHANGED sent
     ELSE /\ stage' = "called"
          /\ sent' = [to |-> Destination(config), headers |-> CallHeaders(config),
                      args |-> IF config.get /\ config.integration.kind # "mcp"
                               THEN "query" ELSE "body"]
  /\ UNCHANGED <<doc, synced, schema, shown, config>>

(* An MCP answer is a JSON object or a stream of events, of which the      *)
(* first whose data is an object, quoted or not, is the answer.            *)
Line == {"{", "data: {", "data: [DONE]", "other"}
Payload(lines) ==
  CASE lines[1] = "{" -> "{"
    [] lines[1] # "{" /\ \E i \in DOMAIN lines : lines[i] = "data: {" -> "data: {"
    [] OTHER -> ""

(* A status other than 2xx, an answer of MCP that cannot be decoded, a     *)
(* JSON-RPC error and isError are errors; what an API answers is a result  *)
(* whether it is JSON or not.                                              *)
Decode(ok, isError, lines) ==
  /\ stage = "called"
  /\ stage' = IF ok /\ (config.integration.kind = "mcp" => Payload(lines) # "" /\ ~isError)
              THEN "answered" ELSE "failed"
  /\ UNCHANGED <<doc, synced, schema, shown, config, sent>>

-----------------------------------------------------------------------------
Init ==
  /\ synced = {}
  /\ shown = Nothing /\ sent = Nothing
  /\ \/ /\ stage = "configured integration" /\ doc \in Documents
        /\ schema = Nothing /\ config = Nothing
     \/ /\ stage = "stored" /\ schema \in Schemas
        /\ doc = Nothing /\ config = Nothing
     \/ /\ stage = "configured call" /\ config \in Configs
        /\ doc = Nothing /\ schema = Nothing

Next ==
  \/ \E reply \in Reply : Fetch(reply)
  \/ Sync \/ Load \/ Call
  \/ \E ok, isError \in BOOLEAN, l, m \in Line : Decode(ok, isError, <<l, m>>)

Spec == Init /\ [][Next]_vars

-----------------------------------------------------------------------------
(* A schema of the synchronisation (buildOpenAPIInputSchema,               *)
(* buildSwaggerInputSchema) requires nothing it does not declare, whether  *)
(* a parameter is the path's, the operation's, a reference or the body.    *)
RequiredIsDeclared ==
  \A c \in synced : c.input.required \subseteq c.input.properties

(* No schema shown to the model has, at any depth, what the cleaning is    *)
(* there to remove (sanitizeSchemaValue), in whatever order its maps are   *)
(* walked.  None is deeper than the schema but by the type and the         *)
(* properties that it is given.                                            *)
CleanHere(v) ==
  v[1] = "map" => /\ DOMAIN v[2] \intersect (Dropped \union Combinators) = {}
                  /\ ~Referenced(v) /\ ~IsType(v, "file")

CleanForModel ==
  stage = "loaded" =>
    \A n \in 0..(Depth + 1) : \A v \in Within(shown)[n] : CleanHere(v)

(* What a schema requires and declares; properties that are a reference    *)
(* declare nothing.                                                        *)
Required(v) ==
  IF Has(v, "required") /\ v[2]["required"][1] = "list" THEN Parts(v[2]["required"]) ELSE {}

Declared(v) ==
  IF Has(v, "properties") /\ v[2]["properties"][1] = "map" /\ ~Referenced(v[2]["properties"])
  THEN {Atom(p) : p \in DOMAIN v[2]["properties"][2]} ELSE {}

(* Cleaning a schema that requires, at every depth, only what it declares  *)
(* leaves one that does (sanitizeSchemaValue), with two exceptions.  The   *)
(* names of properties are taken for keywords: a property "example" is     *)
(* dropped from the properties of a schema that still requires it.  And a  *)
(* combinator may bring what its option requires without what that         *)
(* declares, so a schema with one is left out.                             *)
Consistent(v) ==
  v[1] = "map" => /\ DOMAIN v[2] \intersect Combinators = {}
                  /\ Required(v) \subseteq Declared(v)

KeepsRequired(v) == Required(v) \subseteq Declared(v) \union {Atom(k) : k \in Dropped}

ShownIsConsistent ==
  stage = "loaded" /\ (\A n \in 0..Depth : \A v \in Within(schema)[n] : Consistent(v)) =>
    \A n \in 0..(Depth + 1) : \A v \in Within(shown)[n] : KeepsRequired(v)

(* A tool is called with the credentials its document was fetched with     *)
(* (applyIntegrationAuth in sync.go, applyProjectAuth in mcp_adapter.go),  *)
(* wherever the call goes: the two differ, but for who runs the agent,     *)
(* only in a header that the integration sets over the authentication it   *)
(* inherits.                                                               *)
SyncAndCallAgree ==
  stage = "called" =>
    \A h \in Headers :
      \/ sent.headers[h] = SyncHeaders(config)[h]
      \/ h \in RunHeaders(config) /\ SyncHeaders(config)[h] = "unset"
      \/ Inherits(config) /\ h \in config.integration.headers
                                      \intersect AuthHeaders(config.project.auth)

(* A call at the configured address tells this server who runs the agent,  *)
(* and no other (applyRunHeaders), unless the settings have a value for    *)
(* that header.  The code decides by the configured address: a call by an  *)
(* absolute path (BuildURL) has the headers of a call that it is not, so   *)
(* nothing is said of who is told by it.                                   *)
LocalCallsCarryUser ==
  stage = "called" /\ ~Absolute(config) =>
    CASE sent.headers["X-User-ID"] = "run" -> sent.to = "local"
      [] sent.headers["X-User-ID"] = "unset" -> sent.to = "remote"
      [] OTHER -> "X-User-ID" \in config.project.headers \union config.integration.headers
                                    \union AuthHeaders(config.project.auth)
                                    \union AuthHeaders(config.integration.auth)

(* All of that: what a document becomes on its way to the model and back.  *)
ToolsAreSound ==
  /\ RequiredIsDeclared /\ CleanForModel /\ ShownIsConsistent
  /\ SyncAndCallAgree /\ LocalCallsCarryUser
=============================================================================
