------------------------------ MODULE Binding -------------------------------
(***************************************************************************)
(* The arguments of a handler.  parse_route_metadata (ffi/pydantic.rs) and *)
(* parse_parameter_spec (routing/params.rs) read the handler's signature   *)
(* once; for each request extract_payload (engine/server/payload.rs) reads *)
(* the body and apply_request_data fills kwargs, parameter by parameter.   *)
(*                                                                         *)
(* A text of a request is "ok", "low" (it converts but breaks a constraint)*)
(* or "bad" (it does not convert).  An argument is the place it was taken  *)
(* from.  convert_underscores=False is written as an alias.  Multer is     *)
(* external.  Indices start from 1.                                        *)
(***************************************************************************)
EXTENDS Naturals, Sequences, SequencesExt, Selection

CONSTANTS
    Names,         \* names of parameters, and keys of requests
    Dashed,        \* Dashed[n]: n with '-' for '_'
    Declarations,  \* the handlers that may be declared
    Configs,       \* the limits an application may have
    Requests,      \* the requests it may get
    NoLimit        \* a limit that is not set

NoName == "no name"
NoRequest == [type |-> "no request"]
Places == {"path", "query", "header", "cookie"}

\* As written: annotation, class of the default ("plain" for any other value), and
\* for a Param class its default, alias and whether it has a constraint.  No annotation
\* is as "str"; "upload?" is UploadFile | None, which has no __name__ to be known by.
Parameter == [name : Names, ann : {"str", "int", "model", "upload", "upload?", "tasks"},
              marker : {"none", "plain", "depends", "query", "path", "header", "cookie",
                        "body", "form", "file"},
              default : {"ellipsis", "given"}, alias : Names \union {NoName},
              bounded : BOOLEAN]

\* path: the names in its path; plan: the parameters, of the handler and of its
\* dependencies, that the nodes of the dependency plan are for (see Dependencies).
Declaration == [params : Seq(Parameter), path : SUBSET Names, plan : SUBSET Names]

Text == {"ok", "low", "bad"}
Item == [key : Names, text : Text]
Field == [key : Names \union {NoName}, text : Text, file : BOOLEAN, size : Nat]

\* sound: it can be parsed; text: what it is as a whole; object: it is a JSON object.
Body == [type : {"json", "urlencoded", "multipart"}, sound : BOOLEAN, object : BOOLEAN,
         text : Text, size : Nat, items : Seq(Field)]
Request == [path : Seq(Item), query : Seq(Item), header : Seq(Item), cookie : Seq(Item),
            body : Body]
Config == [body : Nat \union {NoLimit}, field : Nat \union {NoLimit},
           file : Nat \union {NoLimit}, strict : BOOLEAN]

ASSUME BindingAssumption ==
    /\ Dashed \in [Names -> Names]
    /\ Declarations \subseteq Declaration
    /\ \A d \in Declarations : \A i, j \in DOMAIN d.params :
          d.params[i].name = d.params[j].name => i = j
    /\ Configs \subseteq Config
    /\ Requests \subseteq Request
    /\ NoLimit \notin Nat /\ NoName \notin Names

VARIABLES
    decl,      \* the handler
    config,    \* the limits
    request,   \* the request it is called for, if any
    stage,     \* "idle", "extracting", "binding", "body", "called" or "refused"
    payload,   \* "none", "json" or "form"
    at,        \* the parameter apply_request_data has come to
    kwargs,    \* kwargs[name]: the argument
    status     \* of a refusal

bindingVars == <<decl, config, request, stage, payload, at, kwargs, status>>

-----------------------------------------------------------------------------
(* The signature.                                                          *)

InPath(d, p) == p.name \in d.path

\* Where an annotation says that a parameter comes from; a Param class overrides it.
ByAnnotation(d, p) ==
    CASE p.ann = "tasks" -> "tasks"
      [] p.ann # "tasks" /\ InPath(d, p) -> "path"
      [] p.ann \in {"model", "upload", "upload?"} /\ ~InPath(d, p) -> "body"
      [] OTHER -> "query"

Plain(p) == p.marker \in {"none", "plain", "depends"}

Source(d, p) ==
    CASE Plain(p) -> ByAnnotation(d, p)
      [] p.marker \in {"body", "form", "file"} -> "body"
      [] OTHER -> p.marker

External(p) ==
    CASE ~Plain(p) /\ p.alias # NoName -> p.alias
      [] p.marker = "header" /\ p.alias = NoName -> Dashed[p.name]
      [] OTHER -> p.name

HasDefault(p) == IF Plain(p) THEN p.marker # "none" ELSE p.default = "given"

\* Without a default, in the path and not a path parameter: BackgroundTasks only.
Required(d, p) ==
    ~HasDefault(p) /\ (p.marker = "none" /\ InPath(d, p) => Source(d, p) = "path")

\* file: is_file_param, which goes by __name__ only.
Parse(d, p) ==
    [name |-> p.name, external |-> External(p), source |-> Source(d, p), ann |-> p.ann,
     bounded |-> p.bounded /\ ~Plain(p), hasDefault |-> HasDefault(p),
     required |-> Required(d, p), file |-> p.marker = "file" \/ p.ann = "upload"]

\* dep_param_names has the names of every node of the plan.
Skipped(d, p) == p.name \in d.plan

Own(d) == Only(d.params, {p \in ToSet(d.params) : ~Skipped(d, p)})
Signature(d) == [i \in DOMAIN Own(d) |-> Parse(d, Own(d)[i])]

Params == Signature(decl)
IsBody(p) == p.source = "body"
Bodies == Only(Params, {p \in ToSet(Params) : IsBody(p)})
Single == Len(Bodies) = 1
SingleModel == Single /\ Bodies[1].ann = "model"

-----------------------------------------------------------------------------
(* Values.                                                                 *)

\* An item of the request, or 0 for the whole body; or no part of the request.
Arg(place, item) == [place |-> place, item |-> item]
Default == Arg("default", 0)
Tasks == Arg("tasks", 0)
Whole == Arg("body", 0)

Items(place) == IF place = "body" THEN request.body.items ELSE request[place]

First(items, key) == SelectInSeq(items, LAMBDA it : it.key = key)
\* A form is a map: the last one is kept.
Latest(items, key) == SelectLastInSeq(items, LAMBDA it : it.key = key)

OrElse(i, j) == IF i # 0 THEN i ELSE j

\* Under its external name, or else under its name; 0 if neither is there.
Find(p) == OrElse(First(Items(p.source), p.external), First(Items(p.source), p.name))
FindField(p) == OrElse(Latest(Items("body"), p.external), Latest(Items("body"), p.name))

\* Mutant: constraints are not checked.
AcceptsConverted(p, text) == p.ann = "int" => text # "bad"

\* convert_scalar_value and validate_scalar_constraints.  Text given to a model, which
\* cannot be called with it, stays text.
Accepts(p, text) ==
    /\ p.ann = "int" => text # "bad"
    /\ p.bounded => text = "ok"

-----------------------------------------------------------------------------
(* A request.                                                              *)

Refuse(code) ==
    /\ stage' = "refused"
    /\ status' = code
    /\ UNCHANGED <<decl, config, request, payload, at, kwargs>>

\* kwargs with one argument for every name of ns.
With(ns, arg) == [n \in ns \union DOMAIN kwargs |-> IF n \in ns THEN arg ELSE kwargs[n]]

Give(p, arg) == kwargs' = With({p.name}, arg)

BindingTypeOK ==
    /\ decl \in Declarations
    /\ config \in Configs
    /\ request \in Requests \union {NoRequest}
    /\ stage \in {"idle", "extracting", "binding", "body", "called", "refused"}
    /\ stage = "idle" <=> request = NoRequest
    /\ payload \in {"none", "json", "form"}
    /\ at \in 1 .. Len(Params) + 1
    /\ DOMAIN kwargs \subseteq {p.name : p \in ToSet(Params)}
    /\ stage = "refused" <=> status \in {400, 413, 422}

BindingInit ==
    /\ decl \in Declarations
    /\ config \in Configs
    /\ request = NoRequest
    /\ stage = "idle"
    /\ payload = "none"
    /\ at = 1
    /\ kwargs = <<>>
    /\ status = 0

\* The routers only give it a request whose path has its parameters.  A body is
\* read only for a handler that has a use for it.
Receive ==
    /\ stage = "idle"
    /\ request' \in Requests
    /\ {it.key : it \in ToSet(request'.path)} = decl.path
    /\ stage' = IF Bodies = <<>> THEN "binding" ELSE "extracting"
    /\ payload' = "none"
    /\ at' = 1
    /\ kwargs' = <<>>
    /\ status' = 0
    /\ UNCHANGED <<decl, config>>

Over(size, limit) == limit # NoLimit /\ size > limit
BodySize == request.body.size

\* Multer's limit for a field: the last one set for the name, else per_field.
LimitOf(p) == IF p.file THEN config.file ELSE config.field
Greater(a, b) == IF b = NoLimit \/ (a # NoLimit /\ a >= b) THEN a ELSE b
PerField == Greater(config.field, config.file)
Allowed == {p.external : p \in ToSet(Bodies)} \union {p.name : p \in ToSet(Bodies)}

\* Mutant: only external names have a limit of their own.
FieldLimitExternal(key) ==
    LET i == SelectLastInSeq(Bodies, LAMBDA p : LimitOf(p) # NoLimit /\ key = p.external)
    IN  IF i = 0 THEN PerField ELSE LimitOf(Bodies[i])

FieldLimit(key) ==
    LET i == SelectLastInSeq(Bodies, LAMBDA p : LimitOf(p) # NoLimit /\ key \in {p.external, p.name})
    IN  IF i = 0 THEN PerField ELSE LimitOf(Bodies[i])

Unknown(f) == config.strict /\ f.key \notin Allowed
TooLong(f) == Over(f.size, IF f.key = NoName THEN PerField ELSE FieldLimit(f.key))

\* The first field that multer stops at.  One without a name is only passed over.
Stopped == SelectInSeq(request.body.items, LAMBDA f : Unknown(f) \/ TooLong(f))

Extracted(kind) ==
    /\ payload' = kind
    /\ stage' = "binding"
    /\ UNCHANGED <<decl, config, request, at, kwargs, status>>

\* An empty body is no payload, whatever its type is said to be.
ExtractEmpty == BodySize = 0 /\ Extracted("none")

ExtractUrlencoded ==
    /\ request.body.type = "urlencoded"
    /\ \/ ~request.body.sound /\ Refuse(422)
       \/ /\ request.body.sound
          /\ \E f \in ToSet(request.body.items) : Over(f.size, config.field)
          /\ Refuse(413)
       \/ /\ request.body.sound
          /\ \A f \in ToSet(request.body.items) : ~Over(f.size, config.field)
          /\ Extracted("form")

ExtractMultipart ==
    /\ request.body.type = "multipart"
    /\ \/ ~request.body.sound /\ Refuse(400)
       \/ /\ request.body.sound /\ Stopped # 0
          /\ Refuse(IF Unknown(request.body.items[Stopped]) THEN 400 ELSE 413)
       \/ request.body.sound /\ Stopped = 0 /\ Extracted("form")

\* Any other type.  The body of a single model is left to its validator.
ExtractJson ==
    /\ request.body.type = "json"
    /\ \/ SingleModel /\ Extracted("json")
       \/ ~SingleModel /\ request.body.sound /\ Extracted("json")
       \/ ~SingleModel /\ ~request.body.sound /\ Refuse(422)

Extract ==
    /\ stage = "extracting"
    /\ \/ Over(BodySize, config.body) /\ Refuse(413)
       \/ /\ ~Over(BodySize, config.body)
          /\ \/ ExtractEmpty
             \/ BodySize > 0 /\ (ExtractUrlencoded \/ ExtractMultipart \/ ExtractJson)

-----------------------------------------------------------------------------
(* apply_request_data.                                                     *)

Move == at' = at + 1

\* The request has nothing for the parameter.  One that is not required has a default.
Absent(p) ==
    \/ p.required /\ Refuse(422)
    \/ /\ ~p.required
       /\ kwargs' = IF p.hasDefault THEN With({p.name}, Default) ELSE kwargs
       /\ Move
       /\ UNCHANGED <<decl, config, request, stage, payload, status>>

\* One text parameter: item i of its place, or its default, or a refusal.
Resolve(p, i) ==
    \/ /\ i # 0 /\ Accepts(p, Items(p.source)[i].text)
       /\ Give(p, Arg(p.source, i))
       /\ Move
       /\ UNCHANGED <<decl, config, request, stage, payload, status>>
    \/ i # 0 /\ ~Accepts(p, Items(p.source)[i].text) /\ Refuse(422)
    \/ i = 0 /\ Absent(p)

\* The next parameter; those of the body have their turn after the others.
Bind ==
    /\ stage = "binding"
    /\ at <= Len(Params)
    /\ \/ /\ IsBody(Params[at])
          /\ Move
          /\ UNCHANGED <<decl, config, request, stage, payload, kwargs, status>>
       \/ /\ Params[at].source = "tasks"
          /\ Give(Params[at], Tasks)
          /\ Move
          /\ UNCHANGED <<decl, config, request, stage, payload, status>>
       \/ Params[at].source \in Places /\ Resolve(Params[at], Find(Params[at]))

\* Mutant: the loop over the body goes on from where the other one ended.
BoundKeepsIndex ==
    /\ stage = "binding"
    /\ at > Len(Params)
    /\ stage' = IF Bodies = <<>> THEN "called" ELSE "body"
    /\ UNCHANGED <<decl, config, request, at, payload, kwargs, status>>

Bound ==
    /\ stage = "binding"
    /\ at > Len(Params)
    /\ stage' = IF Bodies = <<>> THEN "called" ELSE "body"
    /\ at' = 1
    /\ UNCHANGED <<decl, config, request, payload, kwargs, status>>

Called ==
    /\ stage' = "called"
    /\ UNCHANGED <<decl, config, request, payload, at, status>>

BindNoBody ==
    /\ stage = "body" /\ payload = "none"
    /\ \/ (\E p \in ToSet(Bodies) : p.required) /\ Refuse(422)
       \/ /\ \A p \in ToSet(Bodies) : ~p.required
          /\ kwargs' = With({p.name : p \in {q \in ToSet(Bodies) : q.hasDefault}}, Default)
          /\ Called

\* The body as a whole is the one argument; only a model looks at it.
BindWhole ==
    /\ stage = "body" /\ payload = "json" /\ Single
    /\ \/ /\ ~SingleModel \/ (request.body.sound /\ request.body.text = "ok")
          /\ Give(Bodies[1], Whole)
          /\ Called
       \/ SingleModel /\ ~(request.body.sound /\ request.body.text = "ok") /\ Refuse(422)

BindNoObject ==
    /\ stage = "body" /\ payload = "json" /\ ~Single
    /\ ~request.body.object
    /\ Refuse(422)

Fields == stage = "body" /\ (payload = "form" \/ (payload = "json" /\ ~Single /\ request.body.object))

\* A value of a JSON object is validated for a model only.
BindMember ==
    /\ Fields /\ payload = "json" /\ at <= Len(Bodies)
    /\ LET p == Bodies[at]
           i == Find(p)
       IN  \/ /\ i # 0 /\ (p.ann = "model" => request.body.items[i].text = "ok")
              /\ Give(p, Arg("body", i))
              /\ Move
              /\ UNCHANGED <<decl, config, request, stage, payload, status>>
           \/ /\ i # 0 /\ p.ann = "model" /\ request.body.items[i].text # "ok"
              /\ Refuse(422)
           \/ i = 0 /\ Absent(p)

Files == {j \in DOMAIN request.body.items : request.body.items[j].file}

\* A file is given as it is, whatever the parameter is.
BindField ==
    /\ Fields /\ payload = "form" /\ at <= Len(Bodies)
    /\ LET p == Bodies[at]
           i == FindField(p)
       IN  \/ /\ i \in Files
              /\ Give(p, Arg("body", i))
              /\ Move
              /\ UNCHANGED <<decl, config, request, stage, payload, status>>
           \/ i \notin Files /\ Resolve(p, i)

BodyBound ==
    /\ Fields
    /\ at > Len(Bodies)
    /\ Called
    /\ UNCHANGED kwargs

\* The handler is called, or the refusal answered, and kwargs dropped.
Finish ==
    /\ stage \in {"called", "refused"}
    /\ stage' = "idle"
    /\ kwargs' = <<>>
    /\ payload' = "none"
    /\ at' = 1
    /\ status' = 0
    /\ request' = NoRequest
    /\ UNCHANGED <<decl, config>>

BindingNext ==
    \/ Receive \/ Extract
    \/ Bind \/ Bound
    \/ BindNoBody \/ BindWhole \/ BindNoObject \/ BindMember \/ BindField \/ BodyBound
    \/ Finish

BindingSpec == BindingInit /\ [][BindingNext]_bindingVars

-----------------------------------------------------------------------------
(* Properties.                                                             *)

\* What the request has for a parameter.
Offered(p) ==
    CASE p.source \in Places \/ (p.source = "body" /\ (payload = "form" \/ (payload = "json" /\ ~Single)))
             -> {Arg(p.source, i) : i \in {j \in DOMAIN Items(p.source) :
                                             Items(p.source)[j].key \in {p.external, p.name}}}
      [] p.source = "body" /\ payload = "json" /\ Single -> {Whole}
      [] OTHER -> {}

\* Every argument that is not a dependency's is there when the handler is called.  It is
\* one the request has for this parameter, at its own place and under one of its own
\* names; the default is given only if the request has none; a Param class decides the
\* place; a parameter of the path is never anything else (parse_parameter_spec,
\* apply_request_data).
ArgumentsAreRight ==
    stage = "called" =>
        /\ \A p \in ToSet(Params) :
              /\ p.name \in DOMAIN kwargs
              /\ \/ kwargs[p.name] \in Offered(p)
                 \/ kwargs[p.name] = Default /\ p.hasDefault /\ Offered(p) = {}
                 \/ kwargs[p.name] = Tasks /\ p.ann = "tasks"
        /\ \A q \in ToSet(decl.params) :
              ~Skipped(decl, q) =>
                  /\ q.marker \in Places => kwargs[q.name].place \in {q.marker, "default"}
                  /\ Plain(q) /\ q.ann # "tasks" /\ InPath(decl, q) => kwargs[q.name].place = "path"

\* What a parameter promises of its argument.  Nothing looks at the members of a JSON
\* body, at JSON as a whole or at a file, except a model, which JSON is validated for.
Kept(p, arg) ==
    CASE arg \in {Default, Tasks} -> TRUE
      [] arg = Whole -> p.ann = "model" => request.body.sound /\ request.body.text = "ok"
      [] arg.place = "body" /\ arg # Whole /\ payload = "json" ->
             p.ann = "model" => request.body.items[arg.item].text = "ok"
      [] arg.place = "body" /\ arg # Whole /\ payload = "form" /\ arg.item \in Files -> TRUE
      [] OTHER -> LET text == Items(arg.place)[arg.item].text
                  IN  ~(p.ann = "int" /\ text = "bad") /\ ~(p.bounded /\ text # "ok")

\* Nothing where the code looks for it.
Lacks(p) == p.required /\ Offered(p) = {}

\* A handler is never called with an argument that breaks its parameter's promise, and
\* 422 always has a reason in the request: a required parameter that it lacks at the
\* place where parse_parameter_spec looks for it, a value that breaks a promise, or a
\* body that cannot be read (resolve_parameter_value, apply_body_and_validation).  The
\* place of a parameter with neither annotation nor Param class is the query
\* (params.rs:181): to the echo(data) of README.md:79-98, which is sent a body, 422 is
\* the answer this explains, against that text.
RefusalExplained ==
    /\ stage = "called" => \A p \in ToSet(Params) : p.name \in DOMAIN kwargs => Kept(p, kwargs[p.name])
    /\ status = 422 =>
          \/ Bodies # <<>> /\ (~request.body.sound \/ (payload = "json" /\ ~request.body.object))
          \/ \E p \in ToSet(Params) : Lacks(p) \/ \E arg \in Offered(p) : ~Kept(p, arg)

\* The last parameter of the body that answers to a name.
Claimant(key) == Bodies[SelectLastInSeq(Bodies, LAMBDA p : key \in {p.external, p.name})]

\* A part of a multipart body that becomes an argument is within the limit for what the
\* parameter it was sent for is, a file or a text, under whichever of that parameter's
\* names; where two answer to one name that is the last of them, for both: a text under
\* the name of a file, too, may be as long as a file.  One of a urlencoded body is
\* within the limit for texts, and the body within its own (extract_payload,
\* multipart_constraints).
LimitsHold ==
    stage = "called" /\ Bodies # <<>> =>
        /\ ~Over(BodySize, config.body)
        /\ \A p \in ToSet(Bodies) :
              payload = "form" /\ kwargs[p.name].place = "body" =>
                  LET f == request.body.items[kwargs[p.name].item]
                  IN  ~Over(f.size, IF request.body.type = "urlencoded"
                                      THEN config.field
                                      ELSE LimitOf(Claimant(f.key)))

=============================================================================
