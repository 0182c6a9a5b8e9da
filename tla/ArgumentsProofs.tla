--------------------------- MODULE ArgumentsProofs ---------------------------
(***************************************************************************)
(* Proofs of Binding and of Dependencies: which arguments a handler is     *)
(* called with, those that its request has and those that its dependencies *)
(* return.                                                                 *)
(***************************************************************************)
EXTENDS Binding, Dependencies, SelectionProofs

-----------------------------------------------------------------------------
(* Binding: signatures.  What a request's arguments are is proved from     *)
(* BindInv below: the two loops of apply_request_data leave behind them    *)
(* only parameters whose argument is right.                                *)

\* What is selected, as a set, and no more of it than there was.
LEMMA OnlySet ==
    ASSUME NEW S, NEW s \in Seq(S), NEW T
    PROVE  /\ Only(s, T) \in Seq(S) /\ Len(Only(s, T)) \in Nat /\ Len(Only(s, T)) <= Len(s)
           /\ ToSet(Only(s, T)) = {e \in ToSet(s) : e \in T}
<1> DEFINE r == Only(s, T)
<1>0. r \in Seq(S)
  BY OnlyType
<1>1. r \in Seq(S) /\ Len(r) \in Nat
  <2> HIDE DEF r
  <2> QED BY <1>0
<1>2. \A i \in 1 .. Len(s) : s[i] \in T => Count(s, T, i) \in 1 .. Len(r) /\ r[Count(s, T, i)] = s[i]
  BY OnlyHas
<1>3. \A k \in 1 .. Len(r) : \E i \in 1 .. Len(s) : s[i] \in T /\ r[k] = s[i]
  BY OnlyHasNoMore
<1>4. Len(r) <= Len(s)
  <2> DEFINE them == {j \in 1 .. Len(s) : s[j] \in T}
  <2>1. Len(s) \in 0 .. Len(s) /\ Len(r) = Count(s, T, Len(s))
    BY CountFacts
  <2>2. Len(r) = Cardinality(them)
    BY <2>1, CountIsCardinality
  <2>3. IsFiniteSet(1 .. Len(s)) /\ Cardinality(1 .. Len(s)) = Len(s)
    <3>1. Len(s) \in Nat
      OBVIOUS
    <3> HIDE DEF r, them
    <3> QED BY <3>1, FS_Interval
  <2>4. them \subseteq 1 .. Len(s)
    OBVIOUS
  <2> HIDE DEF them, r
  <2>5. Cardinality(them) <= Cardinality(1 .. Len(s))
    BY <2>3, <2>4, FS_Subset
  <2> QED BY <2>2, <2>3, <2>5
<1> HIDE DEF r
<1>5. DOMAIN s = 1 .. Len(s) /\ DOMAIN r = 1 .. Len(r)
  BY <1>1
<1>6. ToSet(r) = {e \in ToSet(s) : e \in T}
  <2>1. \A i \in 1 .. Len(s) : s[i] \in T => s[i] \in ToSet(r)
    BY <1>2, <1>5 DEF ToSet
  <2>2. \A k \in 1 .. Len(r) : r[k] \in ToSet(s) /\ r[k] \in T
    BY <1>3, <1>5 DEF ToSet
  <2> QED BY <1>5, <2>1, <2>2 DEF ToSet
<1> QED BY <1>1, <1>4, <1>6 DEF r

\* Names that are distinct stay so.
NamesDiffer(s) == \A i, j \in DOMAIN s : s[i].name = s[j].name => i = j

LEMMA OnlyDiffer ==
    ASSUME NEW S, NEW s \in Seq(S), NEW T, NamesDiffer(s)
    PROVE  NamesDiffer(Only(s, T))
<1> DEFINE r == Only(s, T)
<1>1. r \in Seq(S)
  BY OnlyType
<1>2. \A k \in 1 .. Len(r) : \E i \in 1 .. Len(s) : Count(s, T, i) = k /\ r[k] = s[i]
  BY OnlyHasNoMore
<1> HIDE DEF r
<1>3. DOMAIN s = 1 .. Len(s) /\ DOMAIN r = 1 .. Len(r)
  BY <1>1
<1>4. ASSUME NEW k \in 1 .. Len(r), NEW l \in 1 .. Len(r), r[k].name = r[l].name PROVE k = l
  <2>1. PICK i \in 1 .. Len(s) : Count(s, T, i) = k /\ r[k] = s[i]
    BY <1>2
  <2>2. PICK j \in 1 .. Len(s) : Count(s, T, j) = l /\ r[l] = s[j]
    BY <1>2
  <2>3. i = j
    BY <1>3, <1>4, <2>1, <2>2 DEF NamesDiffer
  <2> QED BY <2>1, <2>2, <2>3
<1>5. NamesDiffer(r)
  BY <1>3, <1>4 DEF NamesDiffer
<1> QED BY <1>5 DEF r

LEMMA SignatureFacts ==
    ASSUME NEW d \in Declarations
    PROVE  /\ Signature(d) \in Seq({Parse(d, q) : q \in ToSet(d.params)})
           /\ ToSet(Signature(d)) = {Parse(d, q) : q \in {q \in ToSet(d.params) : ~Skipped(d, q)}}
           /\ NamesDiffer(Signature(d))
<1> DEFINE S == ToSet(d.params)
           T == {q \in S : ~Skipped(d, q)}
           own == Own(d)
           sig == Signature(d)
<1>1. d.params \in Seq(Parameter) /\ NamesDiffer(d.params)
  BY BindingAssumption DEF Declaration, NamesDiffer
<1>2. d.params \in Seq(S)
  BY <1>1 DEF ToSet
<1>3. own = Only(d.params, T)
  BY DEF Own
<1> HIDE DEF T, own
<1>4. /\ own \in Seq(S) /\ Len(own) \in Nat /\ ToSet(own) = {e \in S : e \in T}
      /\ NamesDiffer(own)
  <2>1. Only(d.params, T) \in Seq(S) /\ ToSet(Only(d.params, T)) = {e \in ToSet(d.params) : e \in T}
    BY <1>2, OnlySet
  <2>2. NamesDiffer(Only(d.params, T))
    BY <1>1, <1>2, OnlyDiffer
  <2> HIDE DEF S
  <2>3. own \in Seq(S) /\ ToSet(own) = {e \in S : e \in T} /\ NamesDiffer(own)
    BY <1>3, <2>1, <2>2 DEF S
  <2> QED BY <2>3
<1>5. sig = [i \in DOMAIN own |-> Parse(d, own[i])] /\ DOMAIN own = 1 .. Len(own)
  BY <1>4 DEF Signature, own
<1> HIDE DEF S, sig
<1>6. DOMAIN sig = 1 .. Len(own) /\ \A i \in 1 .. Len(own) : sig[i] = Parse(d, own[i]) /\ own[i] \in S
  BY <1>4, <1>5
<1>7. sig \in Seq({Parse(d, q) : q \in S})
  BY <1>4, <1>5, <1>6
<1>8. ToSet(sig) = {Parse(d, q) : q \in T}
  <2>1. ToSet(sig) = {sig[i] : i \in 1 .. Len(own)}
    BY <1>6 DEF ToSet
  <2>2. {own[i] : i \in 1 .. Len(own)} = T
    BY <1>4, <1>5 DEF ToSet, T
  <2> QED BY <1>6, <2>1, <2>2
<1>9. \A q : Parse(d, q).name = q.name
  BY DEF Parse
<1>10. NamesDiffer(sig)
  BY <1>4, <1>5, <1>6, <1>9 DEF NamesDiffer
<1> QED BY <1>7, <1>8, <1>10 DEF S, T, sig

\* The parameters of the handler that is called.
LEMMA ParamsFacts ==
    ASSUME decl \in Declarations
    PROVE  /\ DOMAIN Params = 1 .. Len(Params) /\ Len(Params) \in Nat
           /\ ToSet(Params) = {Parse(decl, q) : q \in {q \in ToSet(decl.params) : ~Skipped(decl, q)}}
           /\ NamesDiffer(Params)
           /\ \A p, q \in ToSet(Params) : p.name = q.name => p = q
<1>1. /\ Params \in Seq({Parse(decl, q) : q \in ToSet(decl.params)})
      /\ ToSet(Params) = {Parse(decl, q) : q \in {q \in ToSet(decl.params) : ~Skipped(decl, q)}}
      /\ NamesDiffer(Params)
  BY SignatureFacts DEF Params
<1>2. DOMAIN Params = 1 .. Len(Params) /\ Len(Params) \in Nat
  BY <1>1
<1>3. \A p, q \in ToSet(Params) : p.name = q.name => p = q
  BY <1>1 DEF ToSet, NamesDiffer
<1> QED BY <1>1, <1>2, <1>3

LEMMA BodiesFacts ==
    ASSUME decl \in Declarations
    PROVE  /\ DOMAIN Bodies = 1 .. Len(Bodies) /\ Len(Bodies) \in Nat /\ Len(Bodies) <= Len(Params)
           /\ ToSet(Bodies) = {p \in ToSet(Params) : IsBody(p)}
           /\ NamesDiffer(Bodies)
           /\ Bodies = <<>> <=> Len(Bodies) = 0
<1> DEFINE S == {Parse(decl, q) : q \in ToSet(decl.params)}
           T == {p \in ToSet(Params) : IsBody(p)}
<1>1. Params \in Seq(S) /\ NamesDiffer(Params)
  BY SignatureFacts DEF Params
<1> HIDE DEF S, T
<1>2. /\ Only(Params, T) \in Seq(S) /\ Len(Only(Params, T)) \in Nat
      /\ Len(Only(Params, T)) <= Len(Params)
      /\ ToSet(Only(Params, T)) = {e \in ToSet(Params) : e \in T}
      /\ NamesDiffer(Only(Params, T))
  BY <1>1, OnlySet, OnlyDiffer
<1>3. Bodies = Only(Params, T)
  BY DEF Bodies, T
<1>4. /\ Bodies \in Seq(S) /\ Len(Bodies) \in Nat /\ Len(Bodies) <= Len(Params)
      /\ ToSet(Bodies) = {e \in ToSet(Params) : e \in T} /\ NamesDiffer(Bodies)
  BY <1>2, <1>3
<1>5. DOMAIN Bodies = 1 .. Len(Bodies) /\ (Bodies = <<>> <=> Len(Bodies) = 0)
  BY <1>4
<1> QED BY <1>4, <1>5 DEF T

\* One of them.  A parameter that may be absent has a default, unless it is the one
\* BackgroundTasks are given to.
LEMMA ParamFacts ==
    ASSUME decl \in Declarations, NEW p \in ToSet(Params)
    PROVE  /\ p.source \in Places \union {"tasks", "body"}
           /\ p.name \in Names /\ p.external \in Names
           /\ p.source = "tasks" => p.ann = "tasks"
           /\ ~p.required /\ p.source # "tasks" => p.hasDefault
<1>1. PICK q \in ToSet(decl.params) : ~Skipped(decl, q) /\ p = Parse(decl, q)
  BY ParamsFacts
<1>2. decl.params \in Seq(Parameter)
  BY BindingAssumption DEF Declaration
<1>3. q \in Parameter
  BY <1>1, <1>2 DEF ToSet
<1>4. /\ p.source = Source(decl, q) /\ p.name = q.name /\ p.external = External(q)
      /\ p.ann = q.ann /\ p.required = Required(decl, q) /\ p.hasDefault = HasDefault(q)
  BY <1>1 DEF Parse
<1>5. /\ q.name \in Names /\ q.alias \in Names \union {NoName}
      /\ q.ann \in {"str", "int", "model", "upload", "upload?", "tasks"}
      /\ q.marker \in {"none", "plain", "depends", "query", "path", "header", "cookie",
                       "body", "form", "file"}
  BY <1>3 DEF Parameter
<1>6. External(q) \in Names
  BY <1>5, BindingAssumption DEF External
<1>7. /\ ByAnnotation(decl, q) \in {"tasks", "path", "body", "query"}
      /\ ByAnnotation(decl, q) = "tasks" => q.ann = "tasks"
      /\ InPath(decl, q) => ByAnnotation(decl, q) \in {"tasks", "path"}
  BY <1>5 DEF ByAnnotation
<1>8. CASE Plain(q)
  <2>1. Source(decl, q) = ByAnnotation(decl, q)
    BY <1>8 DEF Source, Plain
  <2>2. ~Required(decl, q) /\ Source(decl, q) # "tasks" => HasDefault(q)
    BY <1>7, <1>8, <2>1 DEF Required
  <2> QED BY <1>4, <1>5, <1>6, <1>7, <2>1, <2>2 DEF Places
<1>9. CASE ~Plain(q)
  <2>1. /\ Source(decl, q) \in Places \union {"body"} /\ q.marker # "none"
    BY <1>5, <1>9 DEF Source, Places, Plain
  <2>2. ~Required(decl, q) => HasDefault(q)
    BY <2>1 DEF Required
  <2> QED BY <1>4, <1>5, <1>6, <2>1, <2>2 DEF Places
<1> QED BY <1>8, <1>9

-----------------------------------------------------------------------------
(* Searches.                                                               *)

LEMMA FirstFacts ==
    ASSUME NEW S, NEW items \in Seq(S), NEW key
    PROVE  LET i == First(items, key)
           IN  /\ i # 0 => i \in DOMAIN items /\ items[i].key = key
               /\ i = 0 => \A j \in DOMAIN items : items[j].key # key
<1> DEFINE I == {i \in 1 .. Len(items) : items[i].key = key}
<1>1. First(items, key) = IF I # {} THEN Min(I) ELSE 0
  BY DEF First, SelectInSeq
<1>2. CASE I # {}
  <2>1. I \subseteq Nat
    OBVIOUS
  <2>2. \E x \in I : \A y \in I : x <= y
    <3> HIDE DEF I
    <3> QED BY <1>2, <2>1, Least
  <2>3. Min(I) \in I
    <3> HIDE DEF I
    <3> QED BY <2>2 DEF Min
  <2> QED BY <1>1, <1>2, <2>3
<1>3. CASE I = {}
  BY <1>1, <1>3
<1> QED BY <1>2, <1>3

LEMMA LatestFacts ==
    ASSUME NEW S, NEW items \in Seq(S), NEW key
    PROVE  LET i == Latest(items, key)
           IN  /\ i # 0 => i \in DOMAIN items /\ items[i].key = key
               /\ i = 0 => \A j \in DOMAIN items : items[j].key # key
<1> DEFINE I == {i \in 1 .. Len(items) : items[i].key = key}
<1>1. Latest(items, key) = IF I # {} THEN Max(I) ELSE 0
  BY DEF Latest, SelectLastInSeq
<1>2. CASE I # {}
  <2>1. I \subseteq 0 .. Len(items) /\ Len(items) \in Nat
    OBVIOUS
  <2>2. \E x \in I : \A y \in I : y <= x
    <3> HIDE DEF I
    <3> QED BY <1>2, <2>1, Greatest
  <2>3. \E x \in I : \A y \in I : x >= y
    BY <2>2
  <2>4. Max(I) \in I
    <3> HIDE DEF I
    <3> QED BY <2>3 DEF Max
  <2> QED BY <1>1, <1>2, <2>4
<1>3. CASE I = {}
  BY <1>1, <1>3
<1> QED BY <1>2, <1>3

\* What the request has for a parameter, by place and name.
Named(p) == {j \in DOMAIN Items(p.source) : Items(p.source)[j].key \in {p.external, p.name}}

LEMMA ItemsType ==
    ASSUME request \in Requests, NEW place \in Places \union {"body"}
    PROVE  Items(place) \in Seq(Item \union Field)
<1>1. request \in Request
  BY BindingAssumption
<1>2. /\ request.path \in Seq(Item) /\ request.query \in Seq(Item)
      /\ request.header \in Seq(Item) /\ request.cookie \in Seq(Item)
      /\ request.body \in Body
  BY <1>1 DEF Request
<1>3. request.body.items \in Seq(Field)
  BY <1>2 DEF Body
<1>4. CASE place \in Places
  <2>1. Items(place) = request[place] /\ request[place] \in Seq(Item)
    BY <1>2, <1>4 DEF Items, Places
  <2> QED BY <2>1
<1>5. CASE place = "body"
  <2>1. Items(place) = request.body.items
    BY <1>5 DEF Items
  <2> QED BY <1>3, <2>1
<1> QED BY <1>4, <1>5

LEMMA FindFacts ==
    ASSUME request \in Requests, NEW p, p.source \in Places \union {"body"}
    PROVE  /\ Find(p) # 0 => Find(p) \in Named(p)
           /\ Find(p) = 0 => Named(p) = {}
<1> DEFINE items == Items(p.source)
           i == First(items, p.external)
           j == First(items, p.name)
<1>1. items \in Seq(Item \union Field)
  BY ItemsType
<1> HIDE DEF items
<1>2. /\ i # 0 => i \in DOMAIN items /\ items[i].key = p.external
      /\ i = 0 => \A k \in DOMAIN items : items[k].key # p.external
  BY <1>1, FirstFacts
<1>3. /\ j # 0 => j \in DOMAIN items /\ items[j].key = p.name
      /\ j = 0 => \A k \in DOMAIN items : items[k].key # p.name
  BY <1>1, FirstFacts
<1>4. Find(p) = IF i # 0 THEN i ELSE j
  BY DEF Find, OrElse, items
<1>5. Named(p) = {k \in DOMAIN items : items[k].key \in {p.external, p.name}}
  BY DEF Named, items
<1> HIDE DEF i, j
<1> QED BY <1>2, <1>3, <1>4, <1>5

LEMMA FindFieldFacts ==
    ASSUME request \in Requests, NEW p, p.source = "body"
    PROVE  /\ FindField(p) # 0 => FindField(p) \in Named(p)
           /\ FindField(p) = 0 => Named(p) = {}
<1> DEFINE items == Items("body")
           i == Latest(items, p.external)
           j == Latest(items, p.name)
<1>1. items \in Seq(Item \union Field)
  BY ItemsType
<1> HIDE DEF items
<1>2. /\ i # 0 => i \in DOMAIN items /\ items[i].key = p.external
      /\ i = 0 => \A k \in DOMAIN items : items[k].key # p.external
  BY <1>1, LatestFacts
<1>3. /\ j # 0 => j \in DOMAIN items /\ items[j].key = p.name
      /\ j = 0 => \A k \in DOMAIN items : items[k].key # p.name
  BY <1>1, LatestFacts
<1>4. FindField(p) = IF i # 0 THEN i ELSE j
  BY DEF FindField, OrElse, items
<1>5. Named(p) = {k \in DOMAIN items : items[k].key \in {p.external, p.name}}
  BY DEF Named, items
<1> HIDE DEF i, j
<1> QED BY <1>2, <1>3, <1>4, <1>5

\* What that makes of the arguments a parameter may have.
ByName(p) == p.source \in Places \/ (p.source = "body" /\ (payload = "form" \/ (payload = "json" /\ ~Single)))

LEMMA OfferedFacts ==
    ASSUME NEW p
    PROVE  /\ ByName(p) => Offered(p) = {Arg(p.source, i) : i \in Named(p)}
           /\ p.source = "body" /\ payload = "json" /\ Single => Offered(p) = {Whole}
           /\ p.source = "body" /\ payload = "none" => Offered(p) = {}
           /\ p.source = "tasks" => Offered(p) = {}
<1>1. ByName(p) => Offered(p) = {Arg(p.source, i) : i \in Named(p)}
  BY DEF ByName, Offered, Named, Places
<1>2. p.source = "body" /\ payload = "json" /\ Single => Offered(p) = {Whole}
  BY DEF Offered, Places
<1>3. (p.source = "body" /\ payload = "none") \/ p.source = "tasks" => Offered(p) = {}
  BY DEF Offered, Places
<1> QED BY <1>1, <1>2, <1>3

\* What is promised of each kind of argument.
LEMMA KeptFacts ==
    ASSUME NEW p
    PROVE  /\ Kept(p, Default) /\ Kept(p, Tasks)
           /\ Kept(p, Whole) <=> (p.ann = "model" => request.body.sound /\ request.body.text = "ok")
           /\ payload = "json" =>
                 \A i : i # 0 => (Kept(p, Arg("body", i)) <=>
                                    (p.ann = "model" => request.body.items[i].text = "ok"))
           /\ payload = "form" => \A i : i # 0 /\ i \in Files => Kept(p, Arg("body", i))
           /\ payload = "form" => \A i : i # 0 /\ i \notin Files =>
                 (Kept(p, Arg("body", i)) <=> Accepts(p, Items("body")[i].text))
           /\ \A place \in Places : \A i :
                 Kept(p, Arg(place, i)) <=> Accepts(p, Items(place)[i].text)
<1> USE DEF Default, Tasks, Whole, Arg
<1>1. Kept(p, Default) /\ Kept(p, Tasks)
  BY DEF Kept
<1>2. Kept(p, Whole) <=> (p.ann = "model" => request.body.sound /\ request.body.text = "ok")
  BY DEF Kept
<1>3. ASSUME payload = "json", NEW i, i # 0
      PROVE  Kept(p, Arg("body", i)) <=> (p.ann = "model" => request.body.items[i].text = "ok")
  BY <1>3 DEF Kept
<1>4. ASSUME payload = "form", NEW i, i # 0, i \in Files PROVE Kept(p, Arg("body", i))
  BY <1>4 DEF Kept
<1>5. ASSUME payload = "form", NEW i, i # 0, i \notin Files
      PROVE  Kept(p, Arg("body", i)) <=> Accepts(p, Items("body")[i].text)
  BY <1>5 DEF Kept, Accepts
<1>6. ASSUME NEW place \in Places, NEW i
      PROVE  Kept(p, Arg(place, i)) <=> Accepts(p, Items(place)[i].text)
  BY <1>6 DEF Kept, Accepts, Places
<1> QED BY <1>1, <1>2, <1>3, <1>4, <1>5, <1>6

-----------------------------------------------------------------------------
(* The invariant.                                                          *)

\* An argument that a parameter may have.
Suits(p, arg) ==
    /\ \/ arg \in Offered(p)
       \/ arg = Default /\ p.hasDefault /\ Offered(p) = {}
       \/ arg = Tasks /\ p.source = "tasks"
    /\ Kept(p, arg)

Right(p) == p.name \in DOMAIN kwargs /\ Suits(p, kwargs[p.name])

\* A request comes with the parameters of its path.
Received ==
    /\ decl \in Declarations /\ config \in Configs
    /\ stage \in {"idle", "extracting", "binding", "body", "called", "refused"}
    /\ stage # "idle" =>
          request \in Requests /\ {it.key : it \in ToSet(request.path)} = decl.path
    /\ stage = "idle" => request = NoRequest
    /\ payload \in {"none", "json", "form"}
    /\ at \in 1 .. Len(Params) + 1
    /\ DOMAIN kwargs \subseteq {p.name : p \in ToSet(Params)}

\* How far apply_request_data has come.
Progress ==
    /\ stage = "extracting" => at = 1
    /\ stage = "binding" =>
          \A q \in {Params[i] : i \in 1 .. at - 1} : ~IsBody(q) => Right(q)
    /\ stage = "body" =>
          /\ at <= Len(Bodies) + 1
          /\ \A q \in ToSet(Params) : ~IsBody(q) => Right(q)
          /\ \A q \in {Bodies[i] : i \in 1 .. at - 1} : Right(q)
    /\ stage = "called" => \A q \in ToSet(Params) : Right(q)

\* What extract_payload has let through.
Sized ==
    LET items == request.body.items
    IN  Bodies # <<>> =>
          /\ ~Over(BodySize, config.body)
          /\ payload = "form" =>
                \/ /\ request.body.type = "urlencoded"
                   /\ \A i \in DOMAIN items : ~Over(items[i].size, config.field)
                \/ request.body.type = "multipart" /\ \A i \in DOMAIN items : ~TooLong(items[i])

Within ==
    /\ stage \in {"extracting", "body"} => Bodies # <<>>
    /\ stage \in {"binding", "body", "called"} => Sized

\* Why a request is refused.
Lacking(p) == Lacks(p) \/ \E arg \in Offered(p) : ~Kept(p, arg)

Explained ==
    \/ Bodies # <<>> /\ (~request.body.sound \/ (payload = "json" /\ ~request.body.object))
    \/ \E p \in ToSet(Params) : Lacking(p)

Refusals ==
    /\ stage = "refused" <=> status \in {400, 413, 422}
    /\ stage # "refused" => status = 0
    /\ status = 422 => Explained

BindInv == Received /\ Progress /\ Within /\ Refusals

\* Nothing of it depends on anything but these.
LEMMA SameLimits ==
    ASSUME UNCHANGED <<decl, config>>
    PROVE  Params' = Params /\ Bodies' = Bodies /\ \A f : TooLong(f)' <=> TooLong(f)
<1>1. Params' = Params
  BY DEF Params
<1>2. Bodies' = Bodies
  BY <1>1 DEF Bodies
<1>3. PerField' = PerField /\ \A p : LimitOf(p)' = LimitOf(p)
  BY DEF PerField, LimitOf
<1>4. \A key : FieldLimit(key)' = FieldLimit(key)
  BY <1>2, <1>3 DEF FieldLimit, SelectLastInSeq
<1>5. \A f : TooLong(f)' <=> TooLong(f)
  BY <1>3, <1>4 DEF TooLong
<1> QED BY <1>1, <1>2, <1>5

LEMMA SameMeaning ==
    ASSUME UNCHANGED <<decl, config, request, payload>>
    PROVE  /\ Params' = Params /\ Bodies' = Bodies /\ Single' = Single
           /\ SingleModel' = SingleModel
           /\ \A p, arg : Suits(p, arg)' <=> Suits(p, arg)
           /\ Sized' <=> Sized
           /\ Explained' <=> Explained
<1>1. Params' = Params /\ Bodies' = Bodies /\ \A f : TooLong(f)' <=> TooLong(f)
  BY SameLimits
<1>3. Single' = Single /\ SingleModel' = SingleModel
  BY <1>1 DEF Single, SingleModel
<1>4. /\ \A place : Items(place)' = Items(place)
      /\ Files' = Files
  BY DEF Items, Files
<1>5. \A p : Offered(p)' = Offered(p)
  BY <1>3, <1>4 DEF Offered
<1>6. \A p, arg : Kept(p, arg)' <=> Kept(p, arg)
  BY <1>4 DEF Kept
<1>7. \A p, arg : Suits(p, arg)' <=> Suits(p, arg)
  BY <1>5, <1>6 DEF Suits
<1>8. \A p : Lacking(p)' <=> Lacking(p)
  BY <1>5, <1>6 DEF Lacking, Lacks
<1>9. Explained' <=> Explained
  BY <1>1, <1>8 DEF Explained
<1>10. Sized' <=> Sized
  BY <1>1 DEF Sized, BodySize
<1> QED BY <1>1, <1>3, <1>7, <1>9, <1>10

-----------------------------------------------------------------------------
(* What a step does to one parameter.                                      *)

\* It gets an argument that suits it, or the request is refused for what it lacks.
Gets(p) ==
    /\ UNCHANGED <<decl, config, request, payload>>
    /\ \E arg : Give(p, arg) /\ Suits(p, arg)

Turned(p) == Refuse(422) /\ Lacking(p)

LEMMA GiveFacts ==
    ASSUME decl \in Declarations, NEW p \in ToSet(Params), Gets(p)
    PROVE  /\ DOMAIN kwargs' = DOMAIN kwargs \union {p.name}
           /\ Right(p)' /\ \A q \in ToSet(Params) : Right(q) => Right(q)'
<1>1. PICK arg : Give(p, arg) /\ Suits(p, arg)
  BY DEF Gets
<1>2. \A q, a : Suits(q, a)' <=> Suits(q, a)
  BY SameMeaning DEF Gets
<1>3. /\ DOMAIN kwargs' = DOMAIN kwargs \union {p.name} /\ kwargs'[p.name] = arg
      /\ \A n \in DOMAIN kwargs : n # p.name => kwargs'[n] = kwargs[n]
  BY <1>1 DEF Give, With
<1>4. Right(p)'
  BY <1>1, <1>2, <1>3 DEF Right
<1>5. ASSUME NEW q \in ToSet(Params), Right(q) PROVE Right(q)'
  <2>1. CASE q.name = p.name
    <3>1. q = p
      BY <2>1, ParamsFacts
    <3> QED BY <1>4, <3>1
  <2>2. CASE q.name # p.name
    BY <1>2, <1>3, <1>5, <2>2 DEF Right
  <2> QED BY <2>1, <2>2
<1> QED BY <1>3, <1>4, <1>5

LEMMA AbsentEffect ==
    ASSUME decl \in Declarations, NEW p \in ToSet(Params), p.source # "tasks",
           Offered(p) = {}, Absent(p)
    PROVE  \/ Turned(p)
           \/ Gets(p) /\ Move /\ UNCHANGED <<stage, status>>
<1>1. CASE p.required
  BY <1>1 DEF Absent, Turned, Lacking, Lacks
<1>2. CASE ~p.required
  <2>1. p.hasDefault
    BY <1>2, ParamFacts
  <2>2. Give(p, Default) /\ Move /\ UNCHANGED <<decl, config, request, stage, payload, status>>
    BY <1>2, <2>1 DEF Absent, Give
  <2>3. Suits(p, Default)
    BY <2>1, KeptFacts DEF Suits
  <2> QED BY <2>2, <2>3 DEF Gets
<1> QED BY <1>1, <1>2

\* A text is what the request has under its name, and is looked at.
LEMMA ResolveEffect ==
    ASSUME decl \in Declarations, request \in Requests, NEW p \in ToSet(Params), NEW i,
           p.source \in Places \/ (p.source = "body" /\ payload = "form" /\ i \notin Files),
           i # 0 => i \in Named(p), i = 0 => Named(p) = {},
           Resolve(p, i)
    PROVE  \/ Turned(p)
           \/ Gets(p) /\ Move /\ UNCHANGED <<stage, status>>
<1>0. Offered(p) = {Arg(p.source, j) : j \in Named(p)}
  BY OfferedFacts DEF ByName
<1>1. i # 0 => (Kept(p, Arg(p.source, i)) <=> Accepts(p, Items(p.source)[i].text))
  BY KeptFacts
<1>2. i # 0 => Arg(p.source, i) \in Offered(p)
  BY <1>0
<1>3. CASE i # 0 /\ Accepts(p, Items(p.source)[i].text)
  <2>1. Give(p, Arg(p.source, i)) /\ Move
        /\ UNCHANGED <<decl, config, request, stage, payload, status>>
    BY <1>3 DEF Resolve
  <2>2. Suits(p, Arg(p.source, i))
    BY <1>1, <1>2, <1>3 DEF Suits
  <2> QED BY <2>1, <2>2 DEF Gets
<1>4. CASE i # 0 /\ ~Accepts(p, Items(p.source)[i].text)
  BY <1>1, <1>2, <1>4 DEF Resolve, Turned, Lacking, Lacks
<1>5. CASE i = 0
  <2>1. Offered(p) = {} /\ Absent(p)
    BY <1>0, <1>5 DEF Resolve
  <2>2. p.source # "tasks"
    BY DEF Places
  <2> QED BY <2>1, <2>2, AbsentEffect
<1> QED BY <1>3, <1>4, <1>5

-----------------------------------------------------------------------------
(* The steps.                                                              *)

LEMMA InitBinding == BindingInit => BindInv
<1> SUFFICES ASSUME BindingInit PROVE BindInv
  OBVIOUS
<1>1. /\ decl \in Declarations /\ config \in Configs /\ request = NoRequest /\ stage = "idle"
      /\ payload = "none" /\ at = 1 /\ DOMAIN kwargs = {} /\ status = 0
  BY DEF BindingInit
<1>2. Len(Params) \in Nat
  BY <1>1, ParamsFacts
<1> QED BY <1>1, <1>2 DEF BindInv, Received, Progress, Within, Refusals

LEMMA RefuseKeeps ==
    ASSUME BindInv, stage # "idle", NEW code \in {400, 413, 422}, Refuse(code),
           code = 422 => Explained
    PROVE  BindInv'
<1>1. /\ UNCHANGED <<decl, config, request, payload, at, kwargs>>
      /\ stage' = "refused" /\ status' = code
  BY DEF Refuse
<1>2. Params' = Params /\ (Explained' <=> Explained)
  BY <1>1, SameMeaning
<1>3. Received'
  BY <1>1, <1>2 DEF BindInv, Received
<1> QED BY <1>1, <1>2, <1>3 DEF BindInv, Progress, Within, Refusals

LEMMA TurnedKeeps ==
    ASSUME BindInv, stage # "idle", NEW p \in ToSet(Params), Turned(p)
    PROVE  BindInv'
<1>1. Explained
  BY DEF Turned, Explained
<1> QED BY <1>1, RefuseKeeps DEF Turned

\* The handler is called, or the loop goes on.
LEMMA ReceiveKeeps == BindInv /\ Receive => BindInv'
<1> SUFFICES ASSUME BindInv, Receive PROVE BindInv'
  OBVIOUS
<1>1. /\ decl' = decl /\ config' = config /\ request' \in Requests
      /\ {it.key : it \in ToSet(request'.path)} = decl.path
      /\ stage' = IF Bodies = <<>> THEN "binding" ELSE "extracting"
      /\ payload' = "none" /\ at' = 1 /\ DOMAIN kwargs' = {} /\ status' = 0
  BY DEF Receive
<1>2. decl \in Declarations /\ config \in Configs
  BY DEF BindInv, Received
<1>3. Params' = Params /\ Bodies' = Bodies
  BY <1>1 DEF Params, Bodies, IsBody
<1>4. Len(Params) \in Nat
  BY <1>2, ParamsFacts
<1>5. Received'
  BY <1>1, <1>2, <1>3, <1>4 DEF Received
<1>6. Progress' /\ Refusals'
  BY <1>1 DEF Progress, Refusals
<1>7. Within'
  BY <1>1, <1>3 DEF Within, Sized
<1> QED BY <1>5, <1>6, <1>7 DEF BindInv

\* A multipart body is read to its end only if no part of it is too long.
LEMMA StoppedFacts ==
    ASSUME request \in Requests, Stopped = 0
    PROVE  \A i \in DOMAIN request.body.items : ~TooLong(request.body.items[i])
<1> DEFINE items == request.body.items
           I == {i \in 1 .. Len(items) : Unknown(items[i]) \/ TooLong(items[i])}
<1>1. items \in Seq(Item \union Field)
  BY ItemsType DEF Items
<1>2. Stopped = IF I # {} THEN Min(I) ELSE 0
  BY DEF Stopped, SelectInSeq
<1>3. CASE I # {}
  <2>1. I \subseteq Nat /\ 0 \notin I
    OBVIOUS
  <2> HIDE DEF I
  <2>2. \E x \in I : \A y \in I : x <= y
    BY <1>3, <2>1, Least
  <2>3. Min(I) \in I
    BY <2>2 DEF Min
  <2> QED BY <1>2, <1>3, <2>1, <2>3
<1>4. CASE I = {}
  BY <1>1, <1>4
<1> QED BY <1>3, <1>4

LEMMA ExtractedKeeps ==
    ASSUME BindInv, stage = "extracting", ~Over(BodySize, config.body),
           NEW kind \in {"none", "json", "form"}, Extracted(kind),
           kind = "form" =>
              \/ /\ request.body.type = "urlencoded"
                 /\ \A f \in ToSet(request.body.items) : ~Over(f.size, config.field)
              \/ request.body.type = "multipart" /\ Stopped = 0
    PROVE  BindInv'
<1>1. /\ UNCHANGED <<decl, config, request, at, kwargs, status>>
      /\ stage' = "binding" /\ payload' = kind
  BY DEF Extracted
<1>2. Params' = Params /\ Bodies' = Bodies /\ \A f : TooLong(f)' <=> TooLong(f)
  BY <1>1, SameLimits
<1>3. request \in Requests /\ at = 1 /\ status = 0
  BY DEF BindInv, Received, Progress, Refusals
<1>4. Received'
  BY <1>1, <1>2 DEF BindInv, Received
<1>5. Progress' /\ Refusals'
  BY <1>1, <1>3 DEF Progress, Refusals
<1>6. Sized'
  <2>1. kind = "form" =>
           \/ /\ request.body.type = "urlencoded"
              /\ \A i \in DOMAIN request.body.items : ~Over(request.body.items[i].size, config.field)
           \/ /\ request.body.type = "multipart"
              /\ \A i \in DOMAIN request.body.items : ~TooLong(request.body.items[i])
    BY <1>3, StoppedFacts DEF ToSet
  <2> QED BY <1>1, <1>2, <2>1 DEF Sized, BodySize
<1>7. Within'
  BY <1>1, <1>6 DEF Within
<1> QED BY <1>4, <1>5, <1>7 DEF BindInv

LEMMA ExtractKeeps == BindInv /\ Extract => BindInv'
<1> SUFFICES ASSUME BindInv, Extract PROVE BindInv'
  OBVIOUS
<1>1. stage = "extracting" /\ Bodies # <<>>
  BY DEF Extract, BindInv, Within
<1>2. ASSUME NEW code \in {400, 413}, Refuse(code) PROVE BindInv'
  BY <1>1, <1>2, RefuseKeeps
<1>3. ASSUME ~request.body.sound, Refuse(422) PROVE BindInv'
  <2>1. Explained
    BY <1>1, <1>3 DEF Explained
  <2> QED BY <1>1, <1>3, <2>1, RefuseKeeps
<1>4. CASE Over(BodySize, config.body)
  BY <1>2, <1>4 DEF Extract
<1>5. CASE ~Over(BodySize, config.body)
  <2>1. CASE ExtractEmpty
    BY <1>1, <1>5, <2>1, ExtractedKeeps DEF ExtractEmpty
  <2>2. CASE ExtractUrlencoded
    BY <1>1, <1>2, <1>3, <1>5, <2>2, ExtractedKeeps DEF ExtractUrlencoded
  <2>3. CASE ExtractMultipart
    BY <1>1, <1>2, <1>5, <2>3, ExtractedKeeps DEF ExtractMultipart
  <2>4. CASE ExtractJson
    BY <1>1, <1>3, <1>5, <2>4, ExtractedKeeps DEF ExtractJson
  <2> QED BY <1>5, <2>1, <2>2, <2>3, <2>4 DEF Extract
<1> QED BY <1>4, <1>5

\* The first loop has one parameter more.
LEMMA BindingGoesOn ==
    ASSUME BindInv, stage = "binding", at <= Len(Params), NEW p, p = Params[at], Move,
           UNCHANGED <<decl, config, request, payload, stage, status>>,
           DOMAIN kwargs' \subseteq DOMAIN kwargs \union {p.name},
           \A q \in ToSet(Params) : Right(q) => Right(q)',
           ~IsBody(p) => Right(p)'
    PROVE  BindInv'
<1>1. decl \in Declarations /\ at \in 1 .. Len(Params) + 1
  BY DEF BindInv, Received
<1>2. DOMAIN Params = 1 .. Len(Params) /\ Len(Params) \in Nat
  BY <1>1, ParamsFacts
<1>3. /\ Params' = Params /\ Bodies' = Bodies /\ (Sized' <=> Sized) /\ (Explained' <=> Explained)
  BY SameMeaning
<1>4. at \in 1 .. Len(Params) /\ at' = at + 1 /\ at' \in 1 .. Len(Params) + 1
  BY <1>1, <1>2 DEF Move
<1>5. \A i \in 1 .. Len(Params) : Params[i] \in ToSet(Params)
  BY <1>2 DEF ToSet
<1>6. Received'
  BY <1>3, <1>4, <1>5 DEF BindInv, Received
<1>7. ASSUME NEW q \in {Params[i] : i \in 1 .. at' - 1}, ~IsBody(q) PROVE Right(q)'
  <2>1. PICK i \in 1 .. at : q = Params[i]
    BY <1>4
  <2>2. CASE i = at
    BY <1>7, <2>1, <2>2
  <2>3. CASE i # at
    <3>1. i \in 1 .. at - 1 /\ i \in 1 .. Len(Params)
      BY <1>4, <2>3
    <3>2. Right(q)
      BY <1>7, <2>1, <3>1 DEF BindInv, Progress
    <3> QED BY <1>5, <2>1, <3>1, <3>2
  <2> QED BY <2>2, <2>3
<1>8. Progress'
  BY <1>3, <1>7 DEF Progress, IsBody
<1>9. Within' /\ Refusals'
  BY <1>3 DEF BindInv, Within, Refusals
<1> QED BY <1>6, <1>8, <1>9 DEF BindInv

LEMMA BindKeeps == BindInv /\ Bind => BindInv'
<1> SUFFICES ASSUME BindInv, Bind PROVE BindInv'
  OBVIOUS
<1>1. stage = "binding" /\ at <= Len(Params)
  BY DEF Bind
<1>2. decl \in Declarations /\ request \in Requests /\ at \in 1 .. Len(Params) + 1
  BY <1>1 DEF BindInv, Received
<1>3. PICK p \in ToSet(Params) : p = Params[at]
  BY <1>1, <1>2, ParamsFacts DEF ToSet
<1>4. ASSUME Gets(p), Move, UNCHANGED <<stage, status>> PROVE BindInv'
  <2>1. /\ DOMAIN kwargs' = DOMAIN kwargs \union {p.name}
        /\ Right(p)' /\ \A q \in ToSet(Params) : Right(q) => Right(q)'
    BY <1>2, <1>3, <1>4, GiveFacts
  <2> QED BY <1>1, <1>3, <1>4, <2>1, BindingGoesOn DEF Gets
<1>5. CASE IsBody(p) /\ Move /\ UNCHANGED <<decl, config, request, stage, payload, kwargs, status>>
  <2>1. \A q \in ToSet(Params) : Right(q) => Right(q)'
    BY <1>5, SameMeaning DEF Right
  <2> QED BY <1>1, <1>3, <1>5, <2>1, BindingGoesOn
<1>6. CASE /\ p.source = "tasks" /\ Give(p, Tasks) /\ Move
           /\ UNCHANGED <<decl, config, request, stage, payload, status>>
  <2>1. Suits(p, Tasks)
    BY <1>6, KeptFacts DEF Suits
  <2> QED BY <1>4, <1>6, <2>1 DEF Gets
<1>7. CASE p.source \in Places /\ Resolve(p, Find(p))
  <2>1. (Find(p) # 0 => Find(p) \in Named(p)) /\ (Find(p) = 0 => Named(p) = {})
    BY <1>2, <1>7, FindFacts
  <2>2. Turned(p) \/ (Gets(p) /\ Move /\ UNCHANGED <<stage, status>>)
    BY <1>2, <1>3, <1>7, <2>1, ResolveEffect
  <2> QED BY <1>1, <1>3, <1>4, <2>2, TurnedKeeps
<1> QED BY <1>3, <1>5, <1>6, <1>7 DEF Bind

\* The second loop begins, or has nothing to do.
LEMMA BoundKeeps == BindInv /\ Bound => BindInv'
<1> SUFFICES ASSUME BindInv, Bound PROVE BindInv'
  OBVIOUS
<1>1. /\ stage = "binding" /\ at > Len(Params) /\ at' = 1
      /\ stage' = IF Bodies = <<>> THEN "called" ELSE "body"
      /\ UNCHANGED <<decl, config, request, payload, kwargs, status>>
  BY DEF Bound
<1>2. decl \in Declarations /\ at \in 1 .. Len(Params) + 1
  BY <1>1 DEF BindInv, Received
<1>3. /\ DOMAIN Params = 1 .. Len(Params) /\ Len(Params) \in Nat /\ Len(Bodies) \in Nat
      /\ ToSet(Bodies) = {p \in ToSet(Params) : IsBody(p)}
      /\ DOMAIN Bodies = 1 .. Len(Bodies) /\ (Bodies = <<>> <=> Len(Bodies) = 0)
  BY <1>2, ParamsFacts, BodiesFacts
<1>4. /\ Params' = Params /\ Bodies' = Bodies /\ (Sized' <=> Sized) /\ (Explained' <=> Explained)
      /\ \A q : Right(q) => Right(q)'
  BY <1>1, SameMeaning DEF Right
<1>5. \A q \in ToSet(Params) : ~IsBody(q) => Right(q)
  <2>1. at - 1 = Len(Params)
    BY <1>1, <1>2, <1>3
  <2>2. ToSet(Params) = {Params[i] : i \in 1 .. at - 1}
    BY <1>3, <2>1 DEF ToSet
  <2> QED BY <1>1, <2>2 DEF BindInv, Progress
<1>6. Bodies = <<>> => \A q \in ToSet(Params) : ~IsBody(q)
  BY <1>3 DEF ToSet
<1>7. Received'
  BY <1>1, <1>3, <1>4 DEF BindInv, Received
<1>8. Progress'
  BY <1>1, <1>3, <1>4, <1>5, <1>6 DEF Progress, IsBody
<1>9. Within' /\ Refusals'
  BY <1>1, <1>4 DEF BindInv, Within, Refusals
<1> QED BY <1>7, <1>8, <1>9 DEF BindInv

\* The handler is called once the second loop has had its turn.
LEMMA CalledKeeps ==
    ASSUME BindInv, stage = "body", Called,
           DOMAIN kwargs' \subseteq {p.name : p \in ToSet(Params)},
           \A q \in ToSet(Params) : Right(q)'
    PROVE  BindInv'
<1>1. UNCHANGED <<decl, config, request, payload, at, status>> /\ stage' = "called"
  BY DEF Called
<1>2. Params' = Params /\ Bodies' = Bodies /\ (Sized' <=> Sized) /\ (Explained' <=> Explained)
  BY <1>1, SameMeaning
<1>3. Received' /\ Progress'
  BY <1>1, <1>2 DEF BindInv, Received, Progress
<1>4. Within' /\ Refusals'
  BY <1>1, <1>2 DEF BindInv, Within, Refusals
<1> QED BY <1>3, <1>4 DEF BindInv

LEMMA BindNoBodyKeeps == BindInv /\ BindNoBody => BindInv'
<1> SUFFICES ASSUME BindInv, BindNoBody PROVE BindInv'
  OBVIOUS
<1>1. stage = "body" /\ payload = "none"
  BY DEF BindNoBody
<1>2. decl \in Declarations /\ DOMAIN kwargs \subseteq {p.name : p \in ToSet(Params)}
  BY DEF BindInv, Received
<1>3. ToSet(Bodies) = {p \in ToSet(Params) : IsBody(p)}
  BY <1>2, BodiesFacts
<1>4. \A p \in ToSet(Bodies) : p \in ToSet(Params) /\ p.source = "body" /\ Offered(p) = {}
  BY <1>1, <1>3, OfferedFacts DEF IsBody
<1>5. ASSUME NEW p \in ToSet(Bodies), p.required, Refuse(422) PROVE BindInv'
  <2>1. Turned(p) /\ p \in ToSet(Params)
    BY <1>4, <1>5 DEF Turned, Lacking, Lacks
  <2> QED BY <1>1, <2>1, TurnedKeeps
<1>6. ASSUME \A p \in ToSet(Bodies) : ~p.required, Called,
             kwargs' = With({p.name : p \in {q \in ToSet(Bodies) : q.hasDefault}}, Default)
      PROVE  BindInv'
  <2> DEFINE ns == {p.name : p \in {q \in ToSet(Bodies) : q.hasDefault}}
  <2>1. \A p \in ToSet(Bodies) : p.hasDefault
    BY <1>2, <1>4, <1>6, ParamFacts
  <2>2. ns = {p.name : p \in ToSet(Bodies)}
    BY <2>1
  <2>3. /\ DOMAIN kwargs' = ns \union DOMAIN kwargs
        /\ \A n \in ns \union DOMAIN kwargs : kwargs'[n] = IF n \in ns THEN Default ELSE kwargs[n]
    BY <1>6 DEF With
  <2> HIDE DEF ns
  <2>4. \A q, a : Suits(q, a)' <=> Suits(q, a)
    BY <1>6, SameMeaning DEF Called
  <2>5. ASSUME NEW q \in ToSet(Params), IsBody(q) PROVE Right(q)'
    <3>1. q \in ToSet(Bodies) /\ q.name \in ns
      BY <1>3, <2>2, <2>5
    <3>2. Suits(q, Default)
      BY <1>4, <2>1, <3>1, KeptFacts DEF Suits
    <3> QED BY <2>3, <2>4, <3>1, <3>2 DEF Right
  <2>6. ASSUME NEW q \in ToSet(Params), ~IsBody(q) PROVE Right(q)'
    <3>1. Right(q)
      BY <1>1, <2>6 DEF BindInv, Progress
    <3>2. q.name \notin ns
      <4> SUFFICES ASSUME NEW p \in ToSet(Bodies), q.name = p.name PROVE FALSE
        BY <2>2
      <4>1. q = p
        BY <1>2, <1>4, ParamsFacts
      <4> QED BY <1>3, <2>6, <4>1
    <3> QED BY <2>3, <2>4, <3>1, <3>2 DEF Right
  <2>7. DOMAIN kwargs' \subseteq {p.name : p \in ToSet(Params)}
    BY <1>2, <1>4, <2>2, <2>3
  <2> QED BY <1>1, <1>6, <2>5, <2>6, <2>7, CalledKeeps
<1> QED BY <1>5, <1>6 DEF BindNoBody

\* What the loops have to do for the others is done.
LEMMA LastOne ==
    ASSUME BindInv, stage = "body", NEW p \in ToSet(Bodies), ToSet(Bodies) = {p}, Gets(p), Called
    PROVE  BindInv'
<1>1. decl \in Declarations /\ DOMAIN kwargs \subseteq {q.name : q \in ToSet(Params)}
  BY DEF BindInv, Received
<1>2. ToSet(Bodies) = {q \in ToSet(Params) : IsBody(q)}
  BY <1>1, BodiesFacts
<1>3. /\ DOMAIN kwargs' = DOMAIN kwargs \union {p.name}
      /\ Right(p)' /\ \A q \in ToSet(Params) : Right(q) => Right(q)'
  BY <1>1, <1>2, GiveFacts
<1>4. \A q \in ToSet(Params) : q = p \/ Right(q)
  BY <1>2 DEF BindInv, Progress
<1> QED BY <1>1, <1>2, <1>3, <1>4, CalledKeeps

LEMMA BindWholeKeeps == BindInv /\ BindWhole => BindInv'
<1> SUFFICES ASSUME BindInv, BindWhole PROVE BindInv'
  OBVIOUS
<1>1. stage = "body" /\ payload = "json" /\ Single
  BY DEF BindWhole
<1>2. decl \in Declarations
  BY DEF BindInv, Received
<1>3. PICK p : p = Bodies[1] /\ ToSet(Bodies) = {p}
  BY <1>1, <1>2, BodiesFacts DEF Single, ToSet
<1>4. p \in ToSet(Params) /\ p.source = "body" /\ p \in ToSet(Bodies)
  BY <1>2, <1>3, BodiesFacts DEF IsBody
<1>5. /\ Offered(p) = {Whole}
      /\ Kept(p, Whole) <=> (p.ann = "model" => request.body.sound /\ request.body.text = "ok")
  BY <1>1, <1>4, OfferedFacts, KeptFacts
<1>6. SingleModel <=> p.ann = "model"
  BY <1>1, <1>3 DEF SingleModel
<1>7. CASE /\ ~SingleModel \/ (request.body.sound /\ request.body.text = "ok")
           /\ Give(Bodies[1], Whole) /\ Called
  <2>1. Gets(p)
    BY <1>3, <1>5, <1>6, <1>7 DEF Gets, Suits, Called
  <2> QED BY <1>1, <1>3, <1>4, <1>7, <2>1, LastOne
<1>8. CASE SingleModel /\ ~(request.body.sound /\ request.body.text = "ok") /\ Refuse(422)
  <2>1. Turned(p)
    BY <1>5, <1>6, <1>8 DEF Turned, Lacking, Lacks
  <2> QED BY <1>1, <1>4, <2>1, TurnedKeeps
<1> QED BY <1>7, <1>8 DEF BindWhole

LEMMA BindNoObjectKeeps == BindInv /\ BindNoObject => BindInv'
<1> SUFFICES ASSUME BindInv, BindNoObject PROVE BindInv'
  OBVIOUS
<1>1. Explained /\ stage = "body" /\ Refuse(422)
  BY DEF BindNoObject, BindInv, Within, Explained
<1> QED BY <1>1, RefuseKeeps

LEMMA NextBody ==
    ASSUME decl \in Declarations, at \in 1 .. Len(Params) + 1, at <= Len(Bodies)
    PROVE  at \in 1 .. Len(Bodies) /\ Bodies[at] \in ToSet(Params) /\ Bodies[at].source = "body"
<1>1. /\ DOMAIN Bodies = 1 .. Len(Bodies) /\ Len(Bodies) \in Nat /\ Len(Params) \in Nat
      /\ ToSet(Bodies) = {q \in ToSet(Params) : IsBody(q)}
  BY BodiesFacts, ParamsFacts
<1>2. at \in 1 .. Len(Bodies)
  BY <1>1
<1>3. Bodies[at] \in ToSet(Bodies)
  BY <1>1, <1>2 DEF ToSet
<1> QED BY <1>1, <1>2, <1>3 DEF IsBody

\* The second loop has one parameter more.
LEMMA BodyGoesOn ==
    ASSUME BindInv, stage = "body", at <= Len(Bodies), NEW p, p = Bodies[at], Gets(p), Move,
           UNCHANGED <<stage, status>>
    PROVE  BindInv'
<1>1. decl \in Declarations /\ at \in 1 .. Len(Params) + 1
  BY DEF BindInv, Received
<1>2. /\ DOMAIN Bodies = 1 .. Len(Bodies) /\ Len(Bodies) \in Nat /\ Len(Bodies) <= Len(Params)
      /\ Len(Params) \in Nat /\ ToSet(Bodies) = {q \in ToSet(Params) : IsBody(q)}
  BY <1>1, BodiesFacts, ParamsFacts
<1>3. p \in ToSet(Params) /\ at \in 1 .. Len(Bodies) /\ at' = at + 1 /\ at' \in 1 .. Len(Params) + 1
  <2>1. at \in 1 .. Len(Bodies) /\ at' = at + 1 /\ at' \in 1 .. Len(Params) + 1
    BY <1>1, <1>2 DEF Move
  <2> QED BY <1>1, <2>1, NextBody
<1>4. /\ DOMAIN kwargs' = DOMAIN kwargs \union {p.name}
      /\ Right(p)' /\ \A q \in ToSet(Params) : Right(q) => Right(q)'
  BY <1>1, <1>3, GiveFacts
<1>5. /\ Params' = Params /\ Bodies' = Bodies /\ (Sized' <=> Sized) /\ (Explained' <=> Explained)
      /\ UNCHANGED <<decl, config, request, payload>>
  BY SameMeaning DEF Gets
<1>6. Received'
  BY <1>3, <1>4, <1>5 DEF BindInv, Received
<1>7. ASSUME NEW q \in {Bodies[i] : i \in 1 .. at' - 1} PROVE Right(q)'
  <2>1. PICK i \in 1 .. at : q = Bodies[i]
    BY <1>3
  <2>2. CASE i = at
    BY <1>4, <2>1, <2>2
  <2>3. CASE i # at
    <3>1. i \in 1 .. at - 1 /\ i \in 1 .. Len(Bodies)
      BY <1>3, <2>3
    <3>2. Right(q) /\ q \in ToSet(Params)
      BY <1>2, <2>1, <3>1 DEF BindInv, Progress, ToSet
    <3> QED BY <1>4, <3>2
  <2> QED BY <2>2, <2>3
<1>8. \A q \in ToSet(Params) : ~IsBody(q) => Right(q)'
  BY <1>4 DEF BindInv, Progress
<1>9. Progress'
  BY <1>2, <1>3, <1>5, <1>7, <1>8 DEF Progress, IsBody
<1>10. Within' /\ Refusals'
  BY <1>5 DEF BindInv, Within, Refusals
<1> QED BY <1>6, <1>9, <1>10 DEF BindInv

LEMMA BindMemberKeeps == BindInv /\ BindMember => BindInv'
<1> SUFFICES ASSUME BindInv, BindMember PROVE BindInv'
  OBVIOUS
<1>1. stage = "body" /\ payload = "json" /\ ~Single /\ at <= Len(Bodies)
  BY DEF BindMember, Fields
<1>2. decl \in Declarations /\ request \in Requests /\ at \in 1 .. Len(Params) + 1
  BY <1>1 DEF BindInv, Received
<1>3. PICK p \in ToSet(Params) : p = Bodies[at] /\ p.source = "body"
  BY <1>1, <1>2, NextBody
<1>4. (Find(p) # 0 => Find(p) \in Named(p)) /\ (Find(p) = 0 => Named(p) = {})
  BY <1>2, <1>3, FindFacts
<1>5. Offered(p) = {Arg("body", i) : i \in Named(p)}
  BY <1>1, <1>3, OfferedFacts DEF ByName
<1>6. \A i : i # 0 => (Kept(p, Arg("body", i)) <=>
                         (p.ann = "model" => request.body.items[i].text = "ok"))
  BY <1>1, KeptFacts
<1>7. PICK i : i = Find(p)
  OBVIOUS
<1>8. ASSUME Gets(p), Move, UNCHANGED <<stage, status>> PROVE BindInv'
  BY <1>1, <1>3, <1>8, BodyGoesOn
<1>9. CASE /\ i # 0 /\ (p.ann = "model" => request.body.items[i].text = "ok")
           /\ Give(p, Arg("body", i)) /\ Move
           /\ UNCHANGED <<decl, config, request, stage, payload, status>>
  <2>1. Suits(p, Arg("body", i))
    BY <1>4, <1>5, <1>6, <1>7, <1>9 DEF Suits
  <2> QED BY <1>8, <1>9, <2>1 DEF Gets
<1>10. CASE i # 0 /\ p.ann = "model" /\ request.body.items[i].text # "ok" /\ Refuse(422)
  <2>1. Turned(p)
    BY <1>4, <1>5, <1>6, <1>7, <1>10 DEF Turned, Lacking, Lacks
  <2> QED BY <1>1, <2>1, TurnedKeeps
<1>11. CASE i = 0 /\ Absent(p)
  <2>1. Offered(p) = {} /\ p.source # "tasks"
    BY <1>3, <1>4, <1>5, <1>7, <1>11
  <2>2. Turned(p) \/ (Gets(p) /\ Move /\ UNCHANGED <<stage, status>>)
    BY <1>2, <1>11, <2>1, AbsentEffect
  <2> QED BY <1>1, <1>8, <2>2, TurnedKeeps
<1> QED BY <1>3, <1>7, <1>9, <1>10, <1>11 DEF BindMember

LEMMA BindFieldKeeps == BindInv /\ BindField => BindInv'
<1> SUFFICES ASSUME BindInv, BindField PROVE BindInv'
  OBVIOUS
<1>1. stage = "body" /\ payload = "form" /\ at <= Len(Bodies)
  BY DEF BindField, Fields
<1>2. decl \in Declarations /\ request \in Requests /\ at \in 1 .. Len(Params) + 1
  BY <1>1 DEF BindInv, Received
<1>3. PICK p \in ToSet(Params) : p = Bodies[at] /\ p.source = "body"
  BY <1>1, <1>2, NextBody
<1>4. (FindField(p) # 0 => FindField(p) \in Named(p)) /\ (FindField(p) = 0 => Named(p) = {})
  BY <1>2, <1>3, FindFieldFacts
<1>5. Offered(p) = {Arg("body", i) : i \in Named(p)}
  BY <1>1, <1>3, OfferedFacts DEF ByName
<1>6. PICK i : i = FindField(p)
  OBVIOUS
<1>7. ASSUME Gets(p), Move, UNCHANGED <<stage, status>> PROVE BindInv'
  BY <1>1, <1>3, <1>7, BodyGoesOn
<1>8. CASE /\ i \in Files
           /\ Give(p, Arg("body", i)) /\ Move
           /\ UNCHANGED <<decl, config, request, stage, payload, status>>
  <2>1. i # 0
    <3>1. Items("body") \in Seq(Item \union Field)
      BY <1>2, ItemsType
    <3> QED BY <1>8, <3>1 DEF Files, Items
  <2>2. Kept(p, Arg("body", i))
    BY <1>1, <1>8, <2>1, KeptFacts
  <2>3. Suits(p, Arg("body", i))
    BY <1>4, <1>5, <1>6, <2>1, <2>2 DEF Suits
  <2> QED BY <1>7, <1>8, <2>3 DEF Gets
<1>9. CASE i \notin Files /\ Resolve(p, i)
  <2>1. Turned(p) \/ (Gets(p) /\ Move /\ UNCHANGED <<stage, status>>)
    BY <1>1, <1>2, <1>3, <1>4, <1>6, <1>9, ResolveEffect
  <2> QED BY <1>1, <1>7, <2>1, TurnedKeeps
<1> QED BY <1>3, <1>6, <1>8, <1>9 DEF BindField

LEMMA BodyBoundKeeps == BindInv /\ BodyBound => BindInv'
<1> SUFFICES ASSUME BindInv, BodyBound PROVE BindInv'
  OBVIOUS
<1>1. stage = "body" /\ at > Len(Bodies) /\ Called /\ kwargs' = kwargs
  BY DEF BodyBound, Fields
<1>2. decl \in Declarations /\ at \in 1 .. Len(Params) + 1 /\ at <= Len(Bodies) + 1
      /\ DOMAIN kwargs \subseteq {p.name : p \in ToSet(Params)}
  BY <1>1 DEF BindInv, Received, Progress
<1>3. /\ DOMAIN Bodies = 1 .. Len(Bodies) /\ Len(Bodies) \in Nat /\ Len(Params) \in Nat
      /\ ToSet(Bodies) = {q \in ToSet(Params) : IsBody(q)}
  BY <1>2, BodiesFacts, ParamsFacts
<1>4. at - 1 = Len(Bodies)
  BY <1>1, <1>2, <1>3
<1>5. ToSet(Bodies) = {Bodies[i] : i \in 1 .. at - 1}
  BY <1>3, <1>4 DEF ToSet
<1>6. \A q \in ToSet(Params) : Right(q)
  BY <1>1, <1>3, <1>5 DEF BindInv, Progress
<1>7. \A q : Right(q) => Right(q)'
  BY <1>1, SameMeaning DEF Right, Called
<1> QED BY <1>1, <1>2, <1>6, <1>7, CalledKeeps

LEMMA FinishKeeps == BindInv /\ Finish => BindInv'
<1> SUFFICES ASSUME BindInv, Finish PROVE BindInv'
  OBVIOUS
<1>1. /\ stage' = "idle" /\ DOMAIN kwargs' = {} /\ payload' = "none" /\ at' = 1 /\ status' = 0
      /\ request' = NoRequest /\ UNCHANGED <<decl, config>>
  BY DEF Finish
<1>2. decl \in Declarations /\ config \in Configs
  BY DEF BindInv, Received
<1>3. Params' = Params /\ Len(Params) \in Nat
  BY <1>1, <1>2, SameLimits, ParamsFacts
<1>4. Received'
  BY <1>1, <1>2, <1>3 DEF Received
<1> QED BY <1>1, <1>4 DEF BindInv, Progress, Within, Refusals

LEMMA StutterBinding == BindInv /\ UNCHANGED bindingVars => BindInv'
<1> SUFFICES ASSUME BindInv, UNCHANGED bindingVars PROVE BindInv'
  OBVIOUS
<1>1. UNCHANGED <<decl, config, request, stage, payload, at, kwargs, status>>
  BY DEF bindingVars
<1>2. /\ Params' = Params /\ Bodies' = Bodies /\ (Sized' <=> Sized) /\ (Explained' <=> Explained)
      /\ \A q : Right(q) => Right(q)'
  BY <1>1, SameMeaning DEF Right
<1>3. Received' /\ Within' /\ Refusals'
  BY <1>1, <1>2 DEF BindInv, Received, Within, Refusals
<1>4. Progress'
  BY <1>1, <1>2 DEF BindInv, Progress, IsBody
<1> QED BY <1>3, <1>4 DEF BindInv

LEMMA BindingStep == BindInv /\ [BindingNext]_bindingVars => BindInv'
BY ReceiveKeeps, ExtractKeeps, BindKeeps, BoundKeeps, BindNoBodyKeeps, BindWholeKeeps,
   BindNoObjectKeeps, BindMemberKeeps, BindFieldKeeps, BodyBoundKeeps, FinishKeeps,
   StutterBinding DEF BindingNext

\* At every moment of a request, what apply_request_data has bound so far suits its
\* parameters, what extract_payload has let through is within its limits, and a refusal
\* has its reason.
THEOREM BindingInvariance == BindingSpec => []BindInv
<1>1. BindingInit => BindInv
  BY InitBinding
<1>2. BindInv /\ [BindingNext]_bindingVars => BindInv'
  BY BindingStep
<1> QED BY <1>1, <1>2, PTL DEF BindingSpec

-----------------------------------------------------------------------------
(* What follows from it.                                                   *)

\* The variables of a request have their types: there is a request unless the server
\* is idle, a status only when it is refused, and kwargs has names of parameters only.
THEOREM BindingTypesAreRight == BindingSpec => []BindingTypeOK
<1>1. BindInv => BindingTypeOK
  <2> SUFFICES ASSUME BindInv PROVE BindingTypeOK
    OBVIOUS
  <2>1. NoRequest \notin Requests
    <3>1. \A r \in Request : DOMAIN r = {"path", "query", "header", "cookie", "body"}
      BY DEF Request
    <3>2. DOMAIN NoRequest = {"type"}
      BY DEF NoRequest
    <3> QED BY <3>1, <3>2, BindingAssumption
  <2> QED BY <2>1 DEF BindInv, Received, Refusals, BindingTypeOK
<1> QED BY <1>1, BindingInvariance, PTL

\* A parameter as it is written, and what is bound to it.
LEMMA BoundAsWritten ==
    ASSUME BindInv, stage = "called", NEW q \in ToSet(decl.params), ~Skipped(decl, q)
    PROVE  /\ Parse(decl, q) \in ToSet(Params)
           /\ Parse(decl, q).name = q.name /\ Parse(decl, q).source = Source(decl, q)
           /\ Parse(decl, q).external = External(q)
           /\ Right(Parse(decl, q))
<1>1. decl \in Declarations
  BY DEF BindInv, Received
<1>2. Parse(decl, q) \in ToSet(Params)
  BY <1>1, ParamsFacts
<1>3. Right(Parse(decl, q))
  BY <1>2 DEF BindInv, Progress
<1> QED BY <1>2, <1>3 DEF Parse

\* Where an argument can have been taken from.
LEMMA PlaceOfArgument ==
    ASSUME NEW p, Right(p), ByName(p)
    PROVE  \/ \E i \in Named(p) : kwargs[p.name] = Arg(p.source, i)
           \/ kwargs[p.name] = Default /\ Named(p) = {}
<1>1. Offered(p) = {Arg(p.source, i) : i \in Named(p)}
  BY OfferedFacts
<1>2. p.source # "tasks"
  BY DEF ByName, Places
<1> QED BY <1>1, <1>2 DEF Right, Suits

\* A handler is called with an argument for each parameter that is not a dependency's:
\* one that the request has for it, at its place and under one of its names; the
\* default only if there is none; a Param class decides the place, and a parameter of
\* the path comes from the path (parse_parameter_spec, apply_request_data).
THEOREM EveryArgumentIsRight == BindingSpec => []ArgumentsAreRight
<1>1. BindInv => ArgumentsAreRight
  <2> SUFFICES ASSUME BindInv, stage = "called" PROVE ArgumentsAreRight
    BY DEF ArgumentsAreRight
  <2>1. /\ decl \in Declarations /\ request \in Requests
        /\ {it.key : it \in ToSet(request.path)} = decl.path
    BY DEF BindInv, Received
  <2>2. ASSUME NEW p \in ToSet(Params)
        PROVE  /\ p.name \in DOMAIN kwargs
               /\ \/ kwargs[p.name] \in Offered(p)
                  \/ kwargs[p.name] = Default /\ p.hasDefault /\ Offered(p) = {}
                  \/ kwargs[p.name] = Tasks /\ p.ann = "tasks"
    <3>1. Right(p) /\ (p.source = "tasks" => p.ann = "tasks")
      BY <2>1, ParamFacts DEF BindInv, Progress
    <3> QED BY <3>1 DEF Right, Suits
  <2>3. ASSUME NEW q \in ToSet(decl.params), ~Skipped(decl, q), q.marker \in Places
        PROVE  kwargs[q.name].place \in {q.marker, "default"}
    <3>1. Source(decl, q) = q.marker
      BY <2>3 DEF Source, Places, Plain
    <3>2. PICK p : p.name = q.name /\ p.source = q.marker /\ Right(p)
      BY <2>3, <3>1, BoundAsWritten
    <3>3. \/ \E i \in Named(p) : kwargs[p.name] = Arg(p.source, i)
          \/ kwargs[p.name] = Default
      BY <2>3, <3>2, PlaceOfArgument DEF ByName
    <3>4. ASSUME NEW i, kwargs[p.name] = Arg(p.source, i) PROVE kwargs[q.name].place = q.marker
      BY <3>2, <3>4 DEF Arg
    <3>5. kwargs[p.name] = Default => kwargs[q.name].place = "default"
      BY <3>2 DEF Arg, Default
    <3> QED BY <3>3, <3>4, <3>5
  <2>4. ASSUME NEW q \in ToSet(decl.params), ~Skipped(decl, q),
               Plain(q), q.ann # "tasks", InPath(decl, q)
        PROVE  kwargs[q.name].place = "path"
    <3>1. Source(decl, q) = "path" /\ External(q) = q.name
      BY <2>4 DEF Source, ByAnnotation, External, Plain
    <3>2. PICK p : /\ p.name = q.name /\ p.external = q.name /\ p.source = "path" /\ Right(p)
      BY <2>4, <3>1, BoundAsWritten
    <3>3. PICK it \in ToSet(request.path) : it.key = q.name
      BY <2>1, <2>4 DEF InPath
    <3>4. Items("path") = request.path
      BY DEF Items
    <3>5. Named(p) # {}
      <4>1. PICK i \in DOMAIN request.path : request.path[i] = it
        BY <3>3 DEF ToSet
      <4> QED BY <3>2, <3>3, <3>4, <4>1 DEF Named
    <3>6. PICK i \in Named(p) : kwargs[p.name] = Arg(p.source, i)
      BY <3>2, <3>5, PlaceOfArgument DEF ByName, Places
    <3> QED BY <3>2, <3>6 DEF Arg
  <2> QED BY <2>2, <2>3, <2>4 DEF ArgumentsAreRight
<1> QED BY <1>1, BindingInvariance, PTL

\* A handler is never called with an argument that breaks what its parameter promises,
\* and 422 is answered only if the request lacks a required argument, has one that
\* breaks a promise, or has a body that cannot be read (resolve_parameter_value,
\* apply_body_and_validation).
THEOREM EveryRefusalIsExplained == BindingSpec => []RefusalExplained
<1>1. BindInv => RefusalExplained
  <2> SUFFICES ASSUME BindInv PROVE RefusalExplained
    OBVIOUS
  <2>1. stage = "called" => \A p \in ToSet(Params) : Kept(p, kwargs[p.name])
    BY DEF BindInv, Progress, Right, Suits
  <2>2. status = 422 => Explained
    BY DEF BindInv, Refusals
  <2> QED BY <2>1, <2>2 DEF RefusalExplained, Explained, Lacking, Lacks
<1> QED BY <1>1, BindingInvariance, PTL

LEMMA LargestFacts ==
    ASSUME NEW n \in Nat, NEW I \in SUBSET (1 .. n), I # {}
    PROVE  Max(I) \in I /\ \A y \in I : y <= Max(I)
<1>1. I \subseteq 0 .. n
  OBVIOUS
<1>2. \E x \in I : \A y \in I : y <= x
  BY <1>1, Greatest
<1>3. \E x \in I : \A y \in I : x >= y
  BY <1>2
<1>4. Max(I) \in I /\ \A y \in I : Max(I) >= y
  BY <1>3 DEF Max
<1> QED BY <1>4

\* Multer's limit for a field is that of the last parameter that answers to its name.
LEMMA LimitOfClaimant ==
    ASSUME decl \in Declarations, NEW p \in ToSet(Bodies), NEW key \in {p.external, p.name},
           LimitOf(Claimant(key)) # NoLimit
    PROVE  FieldLimit(key) = LimitOf(Claimant(key))
<1> DEFINE J == {i \in 1 .. Len(Bodies) : key \in {Bodies[i].external, Bodies[i].name}}
           I == {i \in 1 .. Len(Bodies) :
                    LimitOf(Bodies[i]) # NoLimit /\ key \in {Bodies[i].external, Bodies[i].name}}
<1>1. DOMAIN Bodies = 1 .. Len(Bodies) /\ Len(Bodies) \in Nat
  BY BodiesFacts
<1>2. J # {} /\ J \in SUBSET (1 .. Len(Bodies)) /\ I \in SUBSET (1 .. Len(Bodies))
  BY <1>1 DEF ToSet
<1>3. SelectLastInSeq(Bodies, LAMBDA b : key \in {b.external, b.name})
        = IF J # {} THEN Max(J) ELSE 0
  BY DEF SelectLastInSeq
<1>4. SelectLastInSeq(Bodies, LAMBDA b : LimitOf(b) # NoLimit /\ key \in {b.external, b.name})
        = IF I # {} THEN Max(I) ELSE 0
  BY DEF SelectLastInSeq
<1>5. Max(J) \in J /\ \A y \in J : y <= Max(J)
  <2> HIDE DEF I, J
  <2> QED BY <1>1, <1>2, LargestFacts
<1>6. Claimant(key) = Bodies[Max(J)]
  <2> HIDE DEF I, J
  <2> QED BY <1>2, <1>3 DEF Claimant
<1>7. Max(J) \in I
  <2>1. LimitOf(Bodies[Max(J)]) # NoLimit
    <3> HIDE DEF I, J
    <3> QED BY <1>6
  <2> QED BY <1>5, <2>1
<1>8. Max(I) \in I /\ \A y \in I : y <= Max(I)
  <2> HIDE DEF I, J
  <2> QED BY <1>1, <1>2, <1>7, LargestFacts
<1>9. Max(I) \in J
  BY <1>8
<1>10. Max(I) = Max(J)
  <2> HIDE DEF I, J
  <2>1. Max(I) <= Max(J) /\ Max(J) <= Max(I) /\ Max(I) \in Nat /\ Max(J) \in Nat
    BY <1>1, <1>2, <1>5, <1>7, <1>8, <1>9
  <2> QED BY <2>1
<1>11. FieldLimit(key) = LimitOf(Bodies[Max(I)])
  <2>1. Max(I) # 0 /\ I # {}
    <3> HIDE DEF I, J
    <3> QED BY <1>2, <1>7, <1>8
  <2> HIDE DEF I, J
  <2> QED BY <1>4, <2>1 DEF FieldLimit
<1> HIDE DEF I, J
<1> QED BY <1>6, <1>10, <1>11

\* A part of a body that becomes an argument is within the limit for the parameter it
\* was sent for, the last one that answers to its name, and the body within its own
\* (extract_payload, multipart_constraints).
THEOREM LimitsAreKept == BindingSpec => []LimitsHold
<1>1. BindInv => LimitsHold
  <2> SUFFICES ASSUME BindInv, stage = "called", Bodies # <<>> PROVE LimitsHold
    BY DEF LimitsHold
  <2> DEFINE items == request.body.items
  <2>1. decl \in Declarations /\ request \in Requests /\ Sized
    BY DEF BindInv, Received, Within
  <2>2. ~Over(BodySize, config.body)
    BY <2>1 DEF Sized
  <2>3. ASSUME NEW p \in ToSet(Bodies), payload = "form", kwargs[p.name].place = "body",
               NEW f, f = items[kwargs[p.name].item]
        PROVE  /\ request.body.type = "urlencoded" => ~Over(f.size, config.field)
               /\ request.body.type # "urlencoded" => ~Over(f.size, LimitOf(Claimant(f.key)))
    <3>1. p \in ToSet(Params) /\ p.source = "body"
      BY <2>1, BodiesFacts DEF IsBody
    <3>2. Right(p) /\ ByName(p)
      BY <2>3, <3>1 DEF BindInv, Progress, ByName
    <3>3. PICK i \in Named(p) : kwargs[p.name] = Arg("body", i)
      <4>1. kwargs[p.name] # Default
        BY <2>3 DEF Default, Arg
      <4> QED BY <3>1, <3>2, <4>1, PlaceOfArgument
    <3>4. i \in DOMAIN items /\ f = items[i] /\ f.key \in {p.external, p.name}
      BY <2>3, <3>1, <3>3 DEF Named, Items, Arg
    <3>5. CASE request.body.type = "urlencoded"
      BY <2>1, <2>3, <3>4, <3>5 DEF Sized
    <3>6. CASE request.body.type # "urlencoded"
      <4>1. ~TooLong(f)
        BY <2>1, <2>3, <3>4, <3>6 DEF Sized
      <4>2. f.key # NoName
        BY <2>1, <3>1, <3>4, ParamFacts, BindingAssumption
      <4>3. ~Over(f.size, FieldLimit(f.key))
        BY <4>1, <4>2 DEF TooLong
      <4>4. LET limit == LimitOf(Claimant(f.key)) IN limit # NoLimit => FieldLimit(f.key) = limit
        BY <2>1, <3>4, LimitOfClaimant
      <4> QED BY <3>6, <4>3, <4>4 DEF Over
    <3> QED BY <3>5, <3>6
  <2> HIDE DEF items
  <2> QED BY <2>2, <2>3 DEF LimitsHold, items
<1> QED BY <1>1, BindingInvariance, PTL

-----------------------------------------------------------------------------
(* Dependencies: the plan is right for every graph.  The argument of       *)
(* CachedDependenciesAreShared: a function that is met again while it is   *)
(* being visited is never further through its parameters than the visit    *)
(* above it (Nested), so it never returns, and a function that returns is  *)
(* not being visited any more; hence a cached one gets one node.           *)

Phases == {"parsing", "crashed", "ready", "running", "called", "failed"}

\* The types, by the sequences' lengths and elements.
Types ==
    /\ graph \in Graphs
    /\ stack \in Seq(Frame) /\ Len(stack) \in 1 .. MaxDepth
    /\ plan \in Seq(Node)
    /\ visited \in [Funcs -> Nat]
    /\ phase \in Phases

\* A call that has not returned waits in its caller's next parameter.
Links ==
    \A i \in 2 .. Len(stack) :
        LET caller == stack[i - 1]
            use == graph[caller.func][Len(caller.subs) + 1]
        IN  /\ Len(caller.subs) + 1 <= Len(graph[caller.func])
            /\ stack[i].func = use.func /\ stack[i].cache = use.cache
            /\ stack[i].param # 0

\* What a call has collected.
SubsRight ==
    \A i \in 1 .. Len(stack) :
        /\ Len(stack[i].subs) <= Len(graph[stack[i].func])
        /\ \A k \in 1 .. Len(stack[i].subs) :
              /\ stack[i].subs[k] \in 1 .. Len(plan)
              /\ plan[stack[i].subs[k]].func = graph[stack[i].func][k].func

VisitedRight ==
    \A f \in Funcs : visited[f] # 0 =>
        visited[f] \in 1 .. Len(plan) /\ plan[visited[f]].func = f

Remembered ==
    \A i \in 1 .. Len(plan) : plan[i].cache => visited[plan[i].func] = i

Unvisited ==
    \A i \in 1 .. Len(stack) : stack[i].cache => visited[stack[i].func] = 0

Nested ==
    \A i, j \in 1 .. Len(stack) :
        i < j /\ stack[i].func = stack[j].func => Len(stack[j].subs) <= Len(stack[i].subs)

PlanInv ==
    /\ Types /\ Links /\ SubsRight /\ InjectionsRight
    /\ VisitedRight /\ Remembered /\ Unvisited /\ Nested

-----------------------------------------------------------------------------

LEMMA InitPlan == Init => PlanInv
<1> SUFFICES ASSUME Init PROVE PlanInv
  OBVIOUS
<1> USE DependenciesAssumption DEF Init, Call
<1>1. /\ Len(stack) = 1 /\ Len(plan) = 0
      /\ stack[1] = [func |-> Handler, cache |-> TRUE, top |-> TRUE, param |-> 0, subs |-> <<>>]
  OBVIOUS
<1>2. Types
  BY <1>1 DEF Types, Frame, Node, Phases
<1>3. graph[Handler] \in Seq(Use)
  OBVIOUS
<1>4. Links /\ SubsRight /\ InjectionsRight /\ VisitedRight /\ Remembered /\ Unvisited /\ Nested
  BY <1>1, <1>3 DEF Links, SubsRight, InjectionsRight, VisitedRight, Remembered, Unvisited, Nested
<1> QED BY <1>2, <1>4 DEF PlanInv

\* What the guard of a step of the walk says of the call on top.
LEMMA TopFacts ==
    ASSUME PlanInv
    PROVE  /\ Len(stack) \in 1 .. MaxDepth
           /\ Top \in Frame /\ Top = stack[Len(stack)]
           /\ graph \in [Funcs -> Seq(Use)]
           /\ Top.func \in Funcs /\ Top.subs \in Seq(Nat)
           /\ graph[Top.func] \in Seq(Use)
           /\ Position \in Nat \ {0} /\ Position = Len(Top.subs) + 1
           /\ Walking => Next_ \in Use /\ Next_ = graph[Top.func][Len(Top.subs) + 1]
<1>1. Types
  BY DEF PlanInv
<1>2. stack \in Seq(Frame) /\ Len(stack) \in 1 .. MaxDepth /\ graph \in [Funcs -> Seq(Use)]
  BY <1>1, DependenciesAssumption DEF Types
<1>3. Top \in Frame /\ Top = stack[Len(stack)]
  BY <1>2, DependenciesAssumption DEF Top
<1>4. Top.func \in Funcs /\ Top.subs \in Seq(Nat)
  BY <1>3 DEF Frame
<1>5. graph[Top.func] \in Seq(Use)
  BY <1>2, <1>4
<1>6. Position \in Nat \ {0} /\ Position = Len(Top.subs) + 1
  BY <1>4 DEF Position
<1>7. Walking => Next_ \in Use /\ Next_ = graph[Top.func][Len(Top.subs) + 1]
  BY <1>5, <1>6 DEF Walking, Next_
<1> QED BY <1>2, <1>3, <1>4, <1>5, <1>6, <1>7

\* The calls of the stack, one by one.
LEMMA FrameFacts ==
    ASSUME PlanInv, NEW i \in 1 .. Len(stack)
    PROVE  /\ stack[i] \in Frame
           /\ stack[i].func \in Funcs /\ stack[i].cache \in BOOLEAN
           /\ stack[i].param \in Nat /\ stack[i].subs \in Seq(Nat)
           /\ Len(stack[i].subs) \in Nat
           /\ graph[stack[i].func] \in Seq(Use) /\ Len(graph[stack[i].func]) \in Nat
<1>1. stack \in Seq(Frame) /\ graph \in [Funcs -> Seq(Use)]
  BY DependenciesAssumption DEF PlanInv, Types
<1>2. stack[i] \in Frame
  BY <1>1
<1>3. /\ stack[i].func \in Funcs /\ stack[i].cache \in BOOLEAN
      /\ stack[i].param \in Nat /\ stack[i].subs \in Seq(Nat)
  BY <1>2 DEF Frame
<1> QED BY <1>1, <1>2, <1>3

\* A call is made for the next parameter of the call on top.
Descended(n) ==
    /\ Len(stack) = n
    /\ UNCHANGED <<graph, plan, visited, phase>>
    /\ Len(stack[n].subs) + 1 <= Len(graph[stack[n].func])
    /\ stack' \in Seq(Frame) /\ Len(stack') = n + 1
    /\ \A i \in 1 .. n : stack'[i] = stack[i]
    /\ stack'[n + 1].func = graph[stack[n].func][Len(stack[n].subs) + 1].func
    /\ stack'[n + 1].cache = graph[stack[n].func][Len(stack[n].subs) + 1].cache
    /\ stack'[n + 1].cache => visited[stack'[n + 1].func] = 0
    /\ stack'[n + 1].top <=> stack[n].top /\ stack[n].param = 0
    /\ stack'[n + 1].param = Len(stack[n].subs) + 1
    /\ stack'[n + 1].subs = <<>>

LEMMA DescendEffect == PlanInv /\ Descend => \E n \in Nat \ {0} : Descended(n)
<1> SUFFICES ASSUME PlanInv, Descend PROVE \E n \in Nat \ {0} : Descended(n)
  OBVIOUS
<1> DEFINE n == Len(stack)
           use == graph[Top.func][Len(Top.subs) + 1]
           top == Top.top /\ Top.param = 0
           new == Call(use.func, use.cache, top, Position)
<1>1. Types
  BY DEF PlanInv
<1>2. n \in Nat \ {0} /\ n < MaxDepth /\ stack \in Seq(Frame) /\ Top = stack[n] /\ Top \in Frame
  BY <1>1, TopFacts DEF Types, Descend
<1>3. UNCHANGED <<graph, plan, visited, phase>>
  BY DEF Descend
<1>4. /\ use = Next_ /\ use \in Use /\ Position \in Nat \ {0} /\ Position = Len(Top.subs) + 1
      /\ Len(Top.subs) + 1 <= Len(graph[Top.func])
      /\ use.cache => visited[use.func] = 0
  BY TopFacts DEF Descend, Walking, Known
<1>5. stack' = Append(stack, new)
  BY <1>4 DEF Descend
<1>6. /\ new \in Frame /\ new.func = use.func /\ new.cache = use.cache
      /\ new.top = top /\ new.param = Position /\ new.subs = <<>>
  BY <1>2, <1>4 DEF Call, Use, Frame
<1> HIDE DEF new, use, top
<1>7. stack' \in Seq(Frame) /\ Len(stack') = n + 1 /\ stack'[n + 1] = new
  BY <1>2, <1>5, <1>6
<1>8. \A i \in 1 .. n : stack'[i] = stack[i]
  BY <1>2, <1>5, <1>6
<1>9. /\ new.func = graph[Top.func][Len(Top.subs) + 1].func
      /\ new.cache = graph[Top.func][Len(Top.subs) + 1].cache
      /\ new.cache => visited[new.func] = 0
      /\ new.top <=> Top.top /\ Top.param = 0
  BY <1>4, <1>6 DEF use, top
<1>10. Descended(n)
  BY <1>2, <1>3, <1>4, <1>6, <1>7, <1>8, <1>9 DEF Descended
<1> HIDE DEF n
<1> QED BY <1>2, <1>10

LEMMA DescendKeepsPlan == PlanInv /\ Descend => PlanInv'
<1> SUFFICES ASSUME PlanInv, Descend PROVE PlanInv'
  OBVIOUS
<1>1. /\ Types /\ Links /\ SubsRight /\ InjectionsRight
      /\ VisitedRight /\ Remembered /\ Unvisited /\ Nested
  BY DEF PlanInv
<1> PICK n \in Nat \ {0} : Descended(n) /\ Len(stack) = n
  BY DescendEffect DEF Descended
<1> DEFINE use == graph[Top.func][Len(Top.subs) + 1]
           new == stack'[n + 1]
<1>2. n < MaxDepth /\ stack \in Seq(Frame) /\ Top = stack[n] /\ Top \in Frame
  BY <1>1, TopFacts DEF Types, Descend
<1>3. graph' = graph /\ plan' = plan /\ visited' = visited /\ phase' = phase
  BY DEF Descended
<1>4. /\ use \in Use /\ Len(Top.subs) + 1 <= Len(graph[Top.func])
      /\ new.cache => visited[new.func] = 0
  BY <1>2, TopFacts DEF Descended, Descend
<1>6. /\ new.func = use.func /\ new.cache = use.cache
      /\ new.param # 0 /\ new.subs = <<>>
  <2>1. Len(stack[n].subs) + 1 # 0
    BY FrameFacts
  <2> QED BY <1>2, <2>1 DEF Descended
<1> HIDE DEF new, use
<1>7. stack' \in Seq(Frame) /\ Len(stack') = n + 1 /\ stack'[n + 1] = new
  BY DEF Descended, new
<1>8. \A i \in 1 .. n : stack'[i] = stack[i]
  BY DEF Descended
<1>9. Types'
  BY <1>1, <1>2, <1>3, <1>7, DependenciesAssumption DEF Types
<1>10. Links'
  <2> SUFFICES ASSUME NEW i \in 2 .. n + 1
               PROVE  /\ Len(stack'[i - 1].subs) + 1 <= Len(graph[stack'[i - 1].func])
                      /\ stack'[i].func = graph[stack'[i - 1].func][Len(stack'[i - 1].subs) + 1].func
                      /\ stack'[i].cache = graph[stack'[i - 1].func][Len(stack'[i - 1].subs) + 1].cache
                      /\ stack'[i].param # 0
    BY <1>3, <1>7 DEF Links
  <2>1. CASE i # n + 1
    <3>1. i \in 2 .. n /\ stack'[i] = stack[i] /\ stack'[i - 1] = stack[i - 1]
      BY <2>1, <1>2, <1>8
    <3> QED BY <3>1, <1>1 DEF Links
  <2>2. CASE i = n + 1
    <3>1. stack'[i] = new /\ stack'[i - 1] = Top
      BY <2>2, <1>2, <1>7, <1>8
    <3> QED BY <3>1, <1>4, <1>6 DEF use
  <2> QED BY <2>1, <2>2
<1>11. SubsRight'
  <2> SUFFICES ASSUME NEW i \in 1 .. n + 1
               PROVE  /\ Len(stack'[i].subs) <= Len(graph[stack'[i].func])
                      /\ \A k \in 1 .. Len(stack'[i].subs) :
                            /\ stack'[i].subs[k] \in 1 .. Len(plan)
                            /\ plan[stack'[i].subs[k]].func = graph[stack'[i].func][k].func
    BY <1>3, <1>7 DEF SubsRight
  <2>1. CASE i # n + 1
    <3>1. i \in 1 .. n /\ stack'[i] = stack[i]
      BY <2>1, <1>2, <1>8
    <3> QED BY <3>1, <1>1 DEF SubsRight
  <2>2. CASE i = n + 1
    <3>1. stack'[i].subs = <<>> /\ Len(graph[stack'[i].func]) \in Nat
      BY <2>2, <1>1, <1>4, <1>6, <1>7, DependenciesAssumption DEF Types, Use
    <3> QED BY <3>1
  <2> QED BY <2>1, <2>2
<1>12. Nested'
  <2> SUFFICES ASSUME NEW i \in 1 .. n + 1, NEW j \in 1 .. n + 1, i < j,
                      stack'[i].func = stack'[j].func
               PROVE  Len(stack'[j].subs) <= Len(stack'[i].subs)
    BY <1>7 DEF Nested
  <2>1. i \in 1 .. n /\ stack'[i] = stack[i] /\ Len(stack[i].subs) \in Nat
    BY <1>2, <1>8, FrameFacts
  <2>2. CASE j # n + 1
    <3>1. j \in 1 .. n /\ stack'[j] = stack[j]
      BY <2>2, <1>2, <1>8
    <3> QED BY <3>1, <2>1, <1>1 DEF Nested
  <2>3. CASE j = n + 1
    BY <2>3, <2>1, <1>6, <1>7
  <2> QED BY <2>2, <2>3
<1>13. Unvisited'
  <2> SUFFICES ASSUME NEW i \in 1 .. n + 1, stack'[i].cache
               PROVE  visited[stack'[i].func] = 0
    BY <1>3, <1>7 DEF Unvisited
  <2>1. CASE i # n + 1
    <3>1. i \in 1 .. n /\ stack'[i] = stack[i]
      BY <2>1, <1>2, <1>8
    <3> QED BY <3>1, <1>1 DEF Unvisited
  <2>2. CASE i = n + 1
    BY <2>2, <1>4, <1>6, <1>7
  <2> QED BY <2>1, <2>2
<1>14. InjectionsRight' /\ VisitedRight' /\ Remembered'
  BY <1>1, <1>3 DEF InjectionsRight, VisitedRight, Remembered
<1> QED BY <1>9, <1>10, <1>11, <1>12, <1>13, <1>14 DEF PlanInv

\* One result more at the end of the results of a call.
LEMMA LongerSubs ==
    ASSUME NEW s \in Seq(Nat), NEW k \in Nat
    PROVE  /\ Append(s, k) \in Seq(Nat)
           /\ Len(Append(s, k)) = Len(s) + 1
           /\ \A i \in 1 .. Len(s) : Append(s, k)[i] = s[i]
           /\ Append(s, k)[Len(s) + 1] = k
  OBVIOUS

\* A call with other results is a call.
LEMMA LongerFrame ==
    ASSUME NEW c \in Frame, NEW s \in Seq(Nat)
    PROVE  /\ [func |-> c.func, cache |-> c.cache, top |-> c.top, param |-> c.param, subs |-> s] \in Frame
           /\ [c EXCEPT !.subs = s]
                = [func |-> c.func, cache |-> c.cache, top |-> c.top, param |-> c.param, subs |-> s]
<1>1. c = [func |-> c.func, cache |-> c.cache, top |-> c.top, param |-> c.param, subs |-> c.subs]
  BY DEF Frame
<1>2. [c EXCEPT !.subs = s]
        = [func |-> c.func, cache |-> c.cache, top |-> c.top, param |-> c.param, subs |-> s]
  BY <1>1
<1>3. /\ c.func \in Funcs /\ c.cache \in BOOLEAN /\ c.top \in BOOLEAN /\ c.param \in Nat
  BY DEF Frame
<1>4. [func |-> c.func, cache |-> c.cache, top |-> c.top, param |-> c.param, subs |-> s] \in Frame
  BY <1>3 DEF Frame
<1> QED BY <1>2, <1>4

\* The first n calls are left, and the last of them has one result more, x.
Grown(n, x) ==
    /\ stack' \in Seq(Frame) /\ Len(stack') = n
    /\ \A i \in 1 .. n : i # n => stack'[i] = stack[i]
    /\ stack'[n].func = stack[n].func /\ stack'[n].cache = stack[n].cache
    /\ stack'[n].top = stack[n].top /\ stack'[n].param = stack[n].param
    /\ Len(stack'[n].subs) = Len(stack[n].subs) + 1
    /\ \A k \in 1 .. Len(stack[n].subs) : stack'[n].subs[k] = stack[n].subs[k]
    /\ stack'[n].subs[Len(stack[n].subs) + 1] = x

\* A parameter is given the node its function has.
Reused(n, x) ==
    /\ Len(stack) = n
    /\ UNCHANGED <<graph, plan, visited, phase>>
    /\ Len(stack[n].subs) + 1 <= Len(graph[stack[n].func])
    /\ graph[stack[n].func][Len(stack[n].subs) + 1].cache
    /\ graph[stack[n].func][Len(stack[n].subs) + 1].func \in Funcs
    /\ visited[graph[stack[n].func][Len(stack[n].subs) + 1].func] = x
    /\ Grown(n, x)

LEMMA ReuseEffect == PlanInv /\ Reuse => \E n, x \in Nat \ {0} : Reused(n, x)
<1> SUFFICES ASSUME PlanInv, Reuse PROVE \E n, x \in Nat \ {0} : Reused(n, x)
  OBVIOUS
<1> DEFINE n == Len(stack)
           use == graph[Top.func][Len(Top.subs) + 1]
           x == visited[use.func]
           longer == [func |-> Top.func, cache |-> Top.cache, top |-> Top.top,
                      param |-> Top.param, subs |-> Append(Top.subs, x)]
<1>1. Types /\ VisitedRight
  BY DEF PlanInv
<1>2. /\ n \in Nat \ {0} /\ n <= MaxDepth /\ stack \in Seq(Frame)
      /\ Top = stack[n] /\ Top \in Frame
      /\ Top.func \in Funcs /\ Top.subs \in Seq(Nat) /\ Len(Top.subs) \in Nat
  BY <1>1, TopFacts, DependenciesAssumption DEF Types
<1>3. graph' = graph /\ plan' = plan /\ visited' = visited /\ phase' = phase
  BY DEF Reuse
<1>4. /\ use = Next_ /\ use \in Use /\ use.func \in Funcs
      /\ Len(Top.subs) + 1 <= Len(graph[Top.func])
      /\ use.cache /\ x # 0
  BY TopFacts DEF Reuse, Walking, Known, Use
<1>5. x \in 1 .. Len(plan) /\ plan[x].func = use.func /\ x \in Nat
  BY <1>1, <1>4 DEF VisitedRight, Types
<1>6. Append(Top.subs, x) \in Seq(Nat)
  BY <1>2, <1>5, LongerSubs
<1>7. longer \in Frame /\ [Top EXCEPT !.subs = Append(@, x)] = longer
  BY <1>2, <1>6, LongerFrame
<1>8. stack' = [stack EXCEPT ![n] = longer]
  BY <1>2, <1>4, <1>7 DEF Reuse
<1>9. /\ longer.func = Top.func /\ longer.cache = Top.cache
      /\ longer.top = Top.top /\ longer.param = Top.param /\ longer.subs = Append(Top.subs, x)
  OBVIOUS
<1> HIDE DEF longer, use, x
<1>10. stack' \in Seq(Frame) /\ Len(stack') = n /\ stack'[n] = longer
  BY <1>2, <1>7, <1>8
<1>11. \A i \in 1 .. n : i # n => stack'[i] = stack[i]
  BY <1>2, <1>8
<1>13. /\ Len(longer.subs) = Len(Top.subs) + 1
       /\ \A k \in 1 .. Len(Top.subs) : longer.subs[k] = Top.subs[k]
       /\ longer.subs[Len(Top.subs) + 1] = x
  BY <1>2, <1>5, <1>9, LongerSubs
<1>14. /\ Len(stack) = n /\ Len(Top.subs) + 1 <= Len(graph[Top.func])
       /\ graph[Top.func][Len(Top.subs) + 1].cache
       /\ graph[Top.func][Len(Top.subs) + 1].func \in Funcs
       /\ visited[graph[Top.func][Len(Top.subs) + 1].func] = x
  BY <1>4 DEF use, x
<1>15. Grown(n, x)
  BY <1>2, <1>9, <1>10, <1>11, <1>13 DEF Grown
<1>16. Reused(n, x)
  BY <1>2, <1>3, <1>14, <1>15 DEF Reused
<1>17. n \in Nat \ {0} /\ x \in Nat \ {0}
  BY <1>2, <1>4, <1>5
<1> HIDE DEF n
<1> QED BY <1>16, <1>17

LEMMA ReuseKeepsPlan == PlanInv /\ Reuse => PlanInv'
<1> SUFFICES ASSUME PlanInv, Reuse PROVE PlanInv'
  OBVIOUS
<1>1. /\ Types /\ Links /\ SubsRight /\ InjectionsRight
      /\ VisitedRight /\ Remembered /\ Unvisited /\ Nested
  BY DEF PlanInv
<1> PICK n \in Nat \ {0}, x \in Nat \ {0} : Reused(n, x) /\ Len(stack) = n
  BY ReuseEffect DEF Reused
<1> DEFINE use == graph[Top.func][Len(Top.subs) + 1]
           longer == stack'[n]
<1>2. /\ n <= MaxDepth /\ stack \in Seq(Frame)
      /\ Top = stack[n] /\ Top \in Frame
      /\ Top.func \in Funcs /\ Top.subs \in Seq(Nat) /\ Len(Top.subs) \in Nat
  BY <1>1, TopFacts, DependenciesAssumption DEF Types
<1>3. graph' = graph /\ plan' = plan /\ visited' = visited /\ phase' = phase
  BY DEF Reused
<1>4. /\ use.func \in Funcs
      /\ Len(Top.subs) + 1 <= Len(graph[Top.func])
      /\ use.cache /\ visited[use.func] = x
  BY <1>2 DEF Reused
<1>5. x \in 1 .. Len(plan) /\ plan[x].func = use.func
  BY <1>1, <1>4 DEF VisitedRight
<1>9. longer.func = Top.func
  BY <1>2 DEF Reused, Grown
<1> HIDE DEF use
<1>10. stack' \in Seq(Frame) /\ Len(stack') = n /\ stack'[n] = longer
  BY DEF Reused, Grown
<1>11. \A i \in 1 .. n : i # n => stack'[i] = stack[i]
  BY DEF Reused, Grown
<1>12. \A i \in 1 .. n : stack'[i].func = stack[i].func /\ stack'[i].cache = stack[i].cache
                        /\ stack'[i].param = stack[i].param
  BY DEF Reused, Grown
<1>13. /\ Len(longer.subs) = Len(Top.subs) + 1
       /\ \A k \in 1 .. Len(Top.subs) : longer.subs[k] = Top.subs[k]
       /\ longer.subs[Len(Top.subs) + 1] = x
  BY <1>2 DEF Reused, Grown
<1> HIDE DEF longer
<1>14. Types'
  BY <1>1, <1>2, <1>3, <1>10, DependenciesAssumption DEF Types
<1>15. Links'
  <2> SUFFICES ASSUME NEW i \in 2 .. n
               PROVE  /\ Len(stack'[i - 1].subs) + 1 <= Len(graph[stack'[i - 1].func])
                      /\ stack'[i].func = graph[stack'[i - 1].func][Len(stack'[i - 1].subs) + 1].func
                      /\ stack'[i].cache = graph[stack'[i - 1].func][Len(stack'[i - 1].subs) + 1].cache
                      /\ stack'[i].param # 0
    BY <1>3, <1>10 DEF Links
  <2>1. i - 1 \in 1 .. n /\ i - 1 # n /\ i \in 1 .. n
    BY <1>2
  <2> QED BY <2>1, <1>1, <1>11, <1>12 DEF Links
<1>16. SubsRight'
  <2> SUFFICES ASSUME NEW i \in 1 .. n
               PROVE  /\ Len(stack'[i].subs) <= Len(graph[stack'[i].func])
                      /\ \A k \in 1 .. Len(stack'[i].subs) :
                            /\ stack'[i].subs[k] \in 1 .. Len(plan)
                            /\ plan[stack'[i].subs[k]].func = graph[stack'[i].func][k].func
    BY <1>3, <1>10 DEF SubsRight
  <2>1. CASE i # n
    <3>1. stack'[i] = stack[i]
      BY <2>1, <1>11
    <3>2. /\ Len(stack[i].subs) <= Len(graph[stack[i].func])
          /\ \A k \in 1 .. Len(stack[i].subs) :
                /\ stack[i].subs[k] \in 1 .. Len(plan)
                /\ plan[stack[i].subs[k]].func = graph[stack[i].func][k].func
      BY <1>1 DEF SubsRight
    <3> QED BY <3>1, <3>2
  <2>2. CASE i = n
    <3>1. \A k \in 1 .. Len(Top.subs) : Top.subs[k] \in 1 .. Len(plan)
                                        /\ plan[Top.subs[k]].func = graph[Top.func][k].func
      BY <1>1, <1>2 DEF SubsRight
    <3>2. stack'[i] = longer /\ longer.func = Top.func
      BY <2>2, <1>9, <1>10
    <3>3. \A k \in 1 .. Len(longer.subs) : k \in 1 .. Len(Top.subs) \/ k = Len(Top.subs) + 1
      BY <1>2, <1>13
    <3>4. \A k \in 1 .. Len(Top.subs) : longer.subs[k] \in 1 .. Len(plan)
                                        /\ plan[longer.subs[k]].func = graph[Top.func][k].func
      BY <3>1, <1>13
    <3>5. /\ longer.subs[Len(Top.subs) + 1] \in 1 .. Len(plan)
          /\ plan[longer.subs[Len(Top.subs) + 1]].func
               = graph[Top.func][Len(Top.subs) + 1].func
      BY <1>5, <1>13 DEF use
    <3>6. Len(longer.subs) <= Len(graph[Top.func])
      BY <1>4, <1>13
    <3> QED BY <3>2, <3>3, <3>4, <3>5, <3>6
  <2> QED BY <2>1, <2>2
<1>17. Nested'
  \* A call above with as many results waits for the use that is known: it is in
  \* the stack, and would not have been visited.
  <2> SUFFICES ASSUME NEW i \in 1 .. n, NEW j \in 1 .. n, i < j,
                      stack'[i].func = stack'[j].func
               PROVE  Len(stack'[j].subs) <= Len(stack'[i].subs)
    BY <1>10 DEF Nested
  <2>1. stack[i].func = stack[j].func /\ Len(stack[j].subs) <= Len(stack[i].subs)
    BY <1>1, <1>12 DEF Nested
  <2>2. i # n /\ stack'[i] = stack[i] /\ i + 1 \in 2 .. n /\ i + 1 \in 1 .. n
    BY <1>2, <1>11
  <2>3. CASE j # n
    BY <2>1, <2>2, <2>3, <1>11
  <2>4. CASE j = n
    <3>1. stack[i].func = Top.func /\ Len(Top.subs) <= Len(stack[i].subs)
      BY <2>1, <2>4, <1>2
    <3>2. Len(Top.subs) # Len(stack[i].subs)
      <4> SUFFICES ASSUME Len(Top.subs) = Len(stack[i].subs) PROVE FALSE
        OBVIOUS
      <4>1. stack[i + 1].func = use.func /\ stack[i + 1].cache = use.cache
        <5>1. i + 1 \in 2 .. Len(stack) /\ (i + 1) - 1 = i
          BY <2>2
        <5> QED BY <5>1, <3>1, <1>1 DEF Links, use
      <4>2. visited[use.func] = 0
        BY <2>2, <4>1, <1>1, <1>4 DEF Unvisited
      <4> QED BY <4>2, <1>4
    <3>3. Len(stack[i].subs) \in Nat
      BY FrameFacts
    <3>4. Len(Top.subs) + 1 <= Len(stack[i].subs)
      BY <3>1, <3>2, <3>3, <1>2
    <3> QED BY <2>2, <2>4, <3>4, <1>10, <1>13
  <2> QED BY <2>3, <2>4
<1>18. Unvisited'
  BY <1>1, <1>3, <1>10, <1>12 DEF Unvisited
<1>19. InjectionsRight' /\ VisitedRight' /\ Remembered'
  BY <1>1, <1>3 DEF InjectionsRight, VisitedRight, Remembered
<1> QED BY <1>14, <1>15, <1>16, <1>17, <1>18, <1>19 DEF PlanInv

\* What a call that returns leaves: c calls and a plan of m nodes.
Returned(c, m) ==
    /\ Len(stack) = c + 1 /\ Len(plan) = m - 1
    /\ graph' = graph /\ phase' = phase
    /\ plan' \in Seq(Node) /\ Len(plan') = m /\ plan'[m] = stack[c + 1]
    /\ \A i \in 1 .. Len(plan) : plan'[i] = plan[i]
    /\ Grown(c, m)

LEMMA ReturnEffect == PlanInv /\ Return => \E c, m \in Nat \ {0} : Returned(c, m)
<1> SUFFICES ASSUME PlanInv, Return PROVE \E c, m \in Nat \ {0} : Returned(c, m)
  OBVIOUS
<1>1. Types /\ Links
  BY DEF PlanInv
<1>0. \E c \in Nat \ {0} : Len(stack) = c + 1
  <2>1. Len(stack) \in Nat /\ Len(stack) - 1 > 0
    <3>1. Len(stack) \in 1 .. MaxDepth /\ MaxDepth \in Nat
      BY <1>1, DependenciesAssumption DEF Types
    <3>2. Caller > 0
      BY DEF Return
    <3> QED BY <3>1, <3>2 DEF Caller
  <2>2. Len(stack) - 1 \in Nat \ {0} /\ Len(stack) = (Len(stack) - 1) + 1
    BY <2>1
  <2> QED BY <2>2
<1> PICK c \in Nat \ {0} : Len(stack) = c + 1
  BY <1>0
<1> PICK m \in Nat \ {0} : Len(plan) = m - 1
  <2>1. Len(plan) \in Nat
    BY <1>1 DEF Types
  <2> WITNESS Len(plan) + 1 \in Nat \ {0}
  <2> QED BY <2>1
<1> DEFINE n == c + 1
           caller == stack[c]
           longer == [func |-> caller.func, cache |-> caller.cache, top |-> caller.top,
                      param |-> caller.param, subs |-> Append(caller.subs, m)]
<1>2. n \in Nat /\ c < n /\ Len(stack) = n /\ Caller = c /\ Len(plan) + 1 = m /\ Len(plan) \in Nat
  BY DEF Caller
<1>2a. /\ stack \in Seq(Frame) /\ plan \in Seq(Node) /\ visited \in [Funcs -> Nat]
       /\ Top = stack[n] /\ Top \in Frame
  BY <1>1, <1>2, TopFacts, DependenciesAssumption DEF Types
<1>3. graph' = graph /\ plan' = Append(plan, Top) /\ phase' = phase
  BY DEF Return
<1>5. Top.param # 0
  <2>1. n \in 2 .. Len(stack)
    BY <1>2
  <2> QED BY <2>1, <1>1, <1>2, <1>2a DEF Links
<1>6. caller \in Frame /\ caller.subs \in Seq(Nat) /\ Len(caller.subs) \in Nat
  <2>1. c \in 1 .. Len(stack)
    BY <1>2
  <2> QED BY <2>1, FrameFacts
<1>7. Append(caller.subs, m) \in Seq(Nat)
  BY <1>6, LongerSubs
<1>8. longer \in Frame /\ [caller EXCEPT !.subs = Append(@, m)] = longer
  BY <1>6, <1>7, LongerFrame
<1>9. /\ longer.func = caller.func /\ longer.cache = caller.cache
      /\ longer.top = caller.top /\ longer.param = caller.param /\ longer.subs = Append(caller.subs, m)
  OBVIOUS
<1>10. SubSeq(stack, 1, c) \in Seq(Frame) /\ Len(SubSeq(stack, 1, c)) = c
       /\ \A i \in 1 .. c : SubSeq(stack, 1, c)[i] = stack[i]
  BY <1>2, <1>2a
<1>11. stack' = [SubSeq(stack, 1, c) EXCEPT ![c] = longer]
  <2>1. stack' = [SubSeq(stack, 1, c) EXCEPT ![c].subs = Append(@, m)]
    BY <1>2 DEF Return
  <2>2. SubSeq(stack, 1, c)[c] = caller
    BY <1>10
  <2> QED BY <2>1, <2>2, <1>8
<1> HIDE DEF longer
<1>12. stack' \in Seq(Frame) /\ Len(stack') = c /\ stack'[c] = longer
  BY <1>8, <1>10, <1>11
<1>13. \A i \in 1 .. c : i # c => stack'[i] = stack[i]
  <2> DEFINE kept == SubSeq(stack, 1, c)
  <2>1. kept \in Seq(Frame) /\ Len(kept) = c /\ \A i \in 1 .. c : kept[i] = stack[i]
    BY <1>10
  <2>2. stack' = [kept EXCEPT ![c] = longer]
    BY <1>11
  <2> HIDE DEF kept
  <2> QED BY <2>1, <2>2
<1>15. /\ Len(longer.subs) = Len(caller.subs) + 1
       /\ \A k \in 1 .. Len(caller.subs) : longer.subs[k] = caller.subs[k]
       /\ longer.subs[Len(caller.subs) + 1] = m
  BY <1>6, <1>9, LongerSubs
<1>16. Top \in Node
  BY <1>2, <1>2a, <1>5 DEF Frame, Node
<1>17. /\ plan' \in Seq(Node) /\ Len(plan') = m /\ plan'[m] = Top
       /\ \A i \in 1 .. Len(plan) : plan'[i] = plan[i]
  BY <1>2, <1>2a, <1>3, <1>16
<1> QED BY <1>2, <1>3, <1>2a, <1>9, <1>12, <1>13, <1>15, <1>17 DEF Returned, Grown

LEMMA ReturnKeepsPlan == PlanInv /\ Return => PlanInv'
<1> SUFFICES ASSUME PlanInv, Return PROVE PlanInv'
  OBVIOUS
<1>1. /\ Types /\ Links /\ SubsRight /\ InjectionsRight
      /\ VisitedRight /\ Remembered /\ Unvisited /\ Nested
  BY DEF PlanInv
<1> PICK c \in Nat \ {0}, m \in Nat \ {0} :
            Returned(c, m) /\ Len(stack) = c + 1 /\ Len(plan) = m - 1
  BY ReturnEffect DEF Returned, Grown
<1> DEFINE n == c + 1
           caller == stack[c]
           longer == stack'[c]
<1>2. n \in Nat /\ c < n /\ Len(stack) = n /\ Len(plan) + 1 = m /\ Len(plan) \in Nat
  BY DEF Returned, Grown
<1>2a. /\ stack \in Seq(Frame) /\ plan \in Seq(Node) /\ visited \in [Funcs -> Nat]
       /\ Top = stack[n] /\ Top \in Frame
       /\ Top.func \in Funcs /\ Top.subs \in Seq(Nat) /\ Len(Top.subs) \in Nat
  BY <1>1, <1>2, TopFacts, DependenciesAssumption DEF Types
<1>3. graph' = graph /\ phase' = phase
  BY DEF Returned, Grown
<1>4. Len(Top.subs) = Len(graph[Top.func])
  <2>1. n \in 1 .. Len(stack)
    BY <1>2
  <2>2. Len(graph[Top.func]) \in Nat /\ Len(Top.subs) <= Len(graph[Top.func])
    BY <2>1, <1>1, <1>2, <1>2a, FrameFacts DEF SubsRight
  <2>3. Len(Top.subs) + 1 > Len(graph[Top.func])
    BY DEF Return, Complete, Position
  <2> QED BY <2>2, <2>3, <1>2a
<1>5. /\ Len(caller.subs) + 1 <= Len(graph[caller.func])
      /\ Top.func = graph[caller.func][Len(caller.subs) + 1].func
  <2>1. n \in 2 .. Len(stack)
    BY <1>2
  <2> QED BY <2>1, <1>1, <1>2, <1>2a DEF Links
<1>6. caller \in Frame /\ caller.subs \in Seq(Nat) /\ Len(caller.subs) \in Nat
  <2>1. c \in 1 .. Len(stack)
    BY <1>2
  <2> QED BY <2>1, FrameFacts
<1>9. /\ longer.func = caller.func /\ longer.cache = caller.cache
      /\ longer.param = caller.param
  BY DEF Returned, Grown
<1>12. stack' \in Seq(Frame) /\ Len(stack') = c /\ stack'[c] = longer
  BY DEF Returned, Grown
<1>13. \A i \in 1 .. c : i # c => stack'[i] = stack[i]
  BY DEF Returned, Grown
<1>14. \A i \in 1 .. c : stack'[i].func = stack[i].func /\ stack'[i].cache = stack[i].cache
                        /\ stack'[i].param = stack[i].param
  BY <1>9, <1>12, <1>13
<1>15. /\ Len(longer.subs) = Len(caller.subs) + 1
       /\ \A k \in 1 .. Len(caller.subs) : longer.subs[k] = caller.subs[k]
       /\ longer.subs[Len(caller.subs) + 1] = m
  BY DEF Returned, Grown
<1>17. /\ plan' \in Seq(Node) /\ Len(plan') = m /\ plan'[m] = Top
       /\ \A i \in 1 .. Len(plan) : plan'[i] = plan[i]
  BY <1>2a DEF Returned, Grown
<1> HIDE DEF longer
<1>18. \* What returns is visited nowhere else in the stack.
       \A i \in 1 .. c : stack[i].func # Top.func
  <2> SUFFICES ASSUME NEW i \in 1 .. c, stack[i].func = Top.func PROVE FALSE
    OBVIOUS
  <2>1. i \in 1 .. n /\ n \in 1 .. n /\ i < n /\ i + 1 \in 2 .. n
    BY <1>2
  <2>2. Len(Top.subs) <= Len(stack[i].subs)
    BY <2>1, <1>1, <1>2, <1>2a DEF Nested
  <2>3. Len(stack[i].subs) + 1 <= Len(graph[Top.func])
    <3>1. i + 1 \in 2 .. Len(stack) /\ (i + 1) - 1 = i
      BY <2>1, <1>2
    <3> QED BY <3>1, <1>1 DEF Links
  <2>4. Len(stack[i].subs) \in Nat
    BY <2>1, FrameFacts
  <2> QED BY <2>2, <2>3, <2>4, <1>2, <1>2a, <1>4
<1>19. /\ visited' \in [Funcs -> Nat]
       /\ \A f \in Funcs : f # Top.func \/ ~Top.cache => visited'[f] = visited[f]
       /\ Top.cache => visited'[Top.func] = m /\ visited[Top.func] = 0
  <2>1. Top.cache => visited[Top.func] = 0
    BY <1>1, <1>2, <1>2a DEF Unvisited
  <2>2. CASE Top.cache
    BY <2>1, <2>2, <1>2, <1>2a DEF Return
  <2>3. CASE ~Top.cache
    BY <2>3, <1>2, <1>2a DEF Return
  <2> QED BY <2>2, <2>3
<1>20. Types'
  BY <1>1, <1>2, <1>2a, <1>3, <1>12, <1>17, <1>19, DependenciesAssumption DEF Types
<1>21. Links'
  <2> SUFFICES ASSUME NEW i \in 2 .. c
               PROVE  /\ Len(stack'[i - 1].subs) + 1 <= Len(graph[stack'[i - 1].func])
                      /\ stack'[i].func = graph[stack'[i - 1].func][Len(stack'[i - 1].subs) + 1].func
                      /\ stack'[i].cache = graph[stack'[i - 1].func][Len(stack'[i - 1].subs) + 1].cache
                      /\ stack'[i].param # 0
    BY <1>3, <1>12 DEF Links
  <2>1. i - 1 \in 1 .. c /\ i - 1 # c /\ i \in 1 .. c /\ i \in 2 .. n
    BY <1>2
  <2> QED BY <2>1, <1>1, <1>13, <1>14 DEF Links
<1>22. SubsRight'
  <2> SUFFICES ASSUME NEW i \in 1 .. c
               PROVE  /\ Len(stack'[i].subs) <= Len(graph[stack'[i].func])
                      /\ \A k \in 1 .. Len(stack'[i].subs) :
                            /\ stack'[i].subs[k] \in 1 .. m
                            /\ plan'[stack'[i].subs[k]].func = graph[stack'[i].func][k].func
    BY <1>3, <1>12, <1>17 DEF SubsRight
  <2>1. i \in 1 .. n
    BY <1>2
  <2>2. /\ Len(stack[i].subs) <= Len(graph[stack[i].func])
        /\ \A k \in 1 .. Len(stack[i].subs) :
              /\ stack[i].subs[k] \in 1 .. m
              /\ plan'[stack[i].subs[k]].func = graph[stack[i].func][k].func
    <3>1. /\ Len(stack[i].subs) <= Len(graph[stack[i].func])
          /\ \A k \in 1 .. Len(stack[i].subs) :
                /\ stack[i].subs[k] \in 1 .. Len(plan)
                /\ plan[stack[i].subs[k]].func = graph[stack[i].func][k].func
      BY <2>1, <1>1, <1>2 DEF SubsRight
    <3>2. 1 .. Len(plan) \subseteq 1 .. m
      BY <1>2
    <3> QED BY <3>1, <3>2, <1>17
  <2>3. CASE i # c
    BY <2>2, <2>3, <1>13
  <2>4. CASE i = c
    <3>1. stack'[i] = longer /\ longer.func = caller.func /\ Len(caller.subs) \in Nat
      BY <2>4, <1>6, <1>9, <1>12
    <3>2. \A k \in 1 .. Len(longer.subs) :
             k \in 1 .. Len(caller.subs) \/ k = Len(caller.subs) + 1
      BY <3>1, <1>15
    <3>3. m \in 1 .. m /\ plan'[m].func = graph[caller.func][Len(caller.subs) + 1].func
      BY <1>5, <1>17
    <3>4. Len(longer.subs) <= Len(graph[caller.func])
      BY <1>5, <1>15
    <3>5. \A k \in 1 .. Len(caller.subs) :
             longer.subs[k] \in 1 .. m /\ plan'[longer.subs[k]].func = graph[caller.func][k].func
      BY <2>2, <2>4, <1>15
    <3> QED BY <3>1, <3>2, <3>3, <3>4, <3>5, <1>15
  <2> QED BY <2>3, <2>4
<1>23. InjectionsRight'
  <2> SUFFICES ASSUME NEW i \in 1 .. m
               PROVE  /\ Len(plan'[i].subs) = Len(graph[plan'[i].func])
                      /\ \A k \in 1 .. Len(graph[plan'[i].func]) :
                            /\ plan'[i].subs[k] \in 1 .. i - 1
                            /\ plan'[plan'[i].subs[k]].func = graph[plan'[i].func][k].func
    <3>1. graph' = graph /\ 1 .. Len(plan') = 1 .. m
      BY <1>3, <1>17
    <3> QED BY <3>1 DEF InjectionsRight
  <2>1. CASE i \in 1 .. Len(plan)
    <3>1. \A k \in 1 .. i - 1 : k \in 1 .. Len(plan)
      BY <2>1, <1>2
    <3>2. plan'[i] = plan[i] /\ Len(plan[i].subs) = Len(graph[plan[i].func])
      BY <2>1, <1>1, <1>17 DEF InjectionsRight
    <3>3. \A k \in 1 .. Len(graph[plan[i].func]) :
             plan[i].subs[k] \in 1 .. i - 1 /\ plan[plan[i].subs[k]].func = graph[plan[i].func][k].func
      BY <2>1, <1>1 DEF InjectionsRight
    <3>4. \A k \in 1 .. Len(graph[plan[i].func]) :
             plan'[plan[i].subs[k]] = plan[plan[i].subs[k]]
      BY <3>1, <3>3, <1>17
    <3> QED BY <3>2, <3>3, <3>4
  <2>2. CASE i = m
    <3>1. \A k \in 1 .. Len(Top.subs) : Top.subs[k] \in 1 .. Len(plan)
                                        /\ plan[Top.subs[k]].func = graph[Top.func][k].func
      <4>1. n \in 1 .. Len(stack) /\ Top = stack[n]
        BY <1>2, <1>2a
      <4> QED BY <4>1, <1>1 DEF SubsRight
    <3>2. plan'[i] = Top /\ i - 1 = Len(plan)
      BY <2>2, <1>2, <1>17
    <3>3. \A k \in 1 .. Len(Top.subs) : Top.subs[k] \in 1 .. i - 1
                                        /\ plan'[Top.subs[k]].func = graph[Top.func][k].func
      BY <3>1, <3>2, <1>17
    <3> QED BY <3>2, <3>3, <1>4
  <2>3. i \in 1 .. Len(plan) \/ i = m
    BY <1>2
  <2> QED BY <2>1, <2>2, <2>3
<1>24. VisitedRight'
  <2> SUFFICES ASSUME NEW f \in Funcs, visited'[f] # 0
               PROVE  visited'[f] \in 1 .. m /\ plan'[visited'[f]].func = f
    BY <1>17 DEF VisitedRight
  <2>1. CASE f # Top.func \/ ~Top.cache
    <3>1. visited'[f] = visited[f] /\ visited[f] \in 1 .. Len(plan) /\ plan[visited[f]].func = f
      BY <2>1, <1>1, <1>19 DEF VisitedRight
    <3> QED BY <3>1, <1>2, <1>2a, <1>17
  <2>2. CASE f = Top.func /\ Top.cache
    BY <2>2, <1>2, <1>2a, <1>17, <1>19
  <2> QED BY <2>1, <2>2
<1>25. Remembered'
  <2> SUFFICES ASSUME NEW i \in 1 .. m, plan'[i].cache
               PROVE  visited'[plan'[i].func] = i
    BY <1>17 DEF Remembered
  <2>1. CASE i \in 1 .. Len(plan)
    <3>1. plan'[i] = plan[i] /\ visited[plan[i].func] = i /\ plan[i].func \in Funcs
      <4>1. plan[i] \in Node
        BY <2>1, <1>2a
      <4>2. plan'[i] = plan[i] /\ visited[plan[i].func] = i
        BY <2>1, <1>1, <1>17 DEF Remembered
      <4> QED BY <4>1, <4>2 DEF Node
    <3>2. plan[i].func # Top.func \/ ~Top.cache
      BY <3>1, <2>1, <1>19
    <3> QED BY <3>1, <3>2, <1>19
  <2>2. CASE i = m
    BY <2>2, <1>17, <1>19
  <2>3. i \in 1 .. Len(plan) \/ i = m
    BY <1>2
  <2> QED BY <2>1, <2>2, <2>3
<1>26. Unvisited'
  <2> SUFFICES ASSUME NEW i \in 1 .. c, stack'[i].cache
               PROVE  visited'[stack'[i].func] = 0
    BY <1>12 DEF Unvisited
  <2>1. i \in 1 .. n
    BY <1>2
  <2>2. stack[i].func \in Funcs
    BY <2>1, FrameFacts
  <2>3. visited'[stack[i].func] = visited[stack[i].func]
    BY <2>2, <1>18, <1>19
  <2> QED BY <2>1, <2>3, <1>1, <1>14 DEF Unvisited
<1>27. Nested'
  <2> SUFFICES ASSUME NEW i \in 1 .. c, NEW j \in 1 .. c, i < j,
                      stack'[i].func = stack'[j].func
               PROVE  Len(stack'[j].subs) <= Len(stack'[i].subs)
    BY <1>12 DEF Nested
  <2>1. i \in 1 .. n /\ j \in 1 .. n /\ i # c /\ i + 1 \in 2 .. n /\ i + 1 \in 1 .. c
    BY <1>2
  <2>2. stack[i].func = stack[j].func /\ Len(stack[j].subs) <= Len(stack[i].subs)
    BY <2>1, <1>1, <1>14 DEF Nested
  <2>3. stack'[i] = stack[i] /\ Len(stack[i].subs) \in Nat
    BY <2>1, <1>13, FrameFacts
  <2>4. CASE j # c
    BY <2>2, <2>3, <2>4, <1>13
  <2>5. CASE j = c
    <3>1. stack[i].func = caller.func /\ Len(caller.subs) <= Len(stack[i].subs)
      BY <2>2, <2>5
    <3>2. Len(caller.subs) # Len(stack[i].subs)
      <4> SUFFICES ASSUME Len(caller.subs) = Len(stack[i].subs) PROVE FALSE
        OBVIOUS
      <4>0. /\ i + 1 \in 2 .. Len(stack) /\ (i + 1) - 1 = i
            /\ stack[i].func = caller.func /\ Len(stack[i].subs) = Len(caller.subs)
        BY <1>2, <2>1, <3>1
      <4>1. stack[i + 1].func = graph[caller.func][Len(caller.subs) + 1].func
        BY <1>1, <4>0 DEF Links
      <4>2. stack[i + 1].func = Top.func
        BY <1>5, <4>1
      <4> QED BY <4>2, <2>1, <1>18
    <3>3. Len(caller.subs) + 1 <= Len(stack[i].subs)
      BY <2>3, <3>1, <3>2, <1>6
    <3>4. Len(stack'[j].subs) = Len(caller.subs) + 1
      BY <2>5, <1>12, <1>15
    <3> QED BY <2>3, <3>3, <3>4
  <2> QED BY <2>4, <2>5
<1> QED BY <1>20, <1>21, <1>22, <1>23, <1>24, <1>25, <1>26, <1>27 DEF PlanInv

\* The plan is right, and so is what the walk has collected for the rest of it,
\* in every state: extract_and_flatten and execute_dependencies keep it.
THEOREM PlanInvariance == Spec => []PlanInv
<1>1. PlanInv /\ [Next]_vars => PlanInv'
  <2> SUFFICES ASSUME PlanInv, [Next]_vars PROVE PlanInv'
    OBVIOUS
  <2>1. ASSUME graph' = graph, stack' = stack, plan' = plan, visited' = visited, phase' \in Phases
        PROVE  PlanInv'
    <3>1. Types' /\ Links' /\ SubsRight'
      BY <2>1 DEF PlanInv, Types, Links, SubsRight
    <3>2. InjectionsRight'
      BY <2>1 DEF PlanInv, InjectionsRight
    <3>3. VisitedRight' /\ Remembered'
      BY <2>1 DEF PlanInv, VisitedRight, Remembered
    <3>4. Unvisited' /\ Nested'
      BY <2>1 DEF PlanInv, Unvisited, Nested
    <3> QED BY <3>1, <3>2, <3>3, <3>4 DEF PlanInv
  <2>2. phase \in Phases
    BY DEF PlanInv, Types
  <2>3. CASE Overflow
    BY <2>1, <2>3 DEF Overflow, parseVars, Phases
  <2>4. CASE Parsed
    BY <2>1, <2>4 DEF Parsed, parseVars, Phases
  <2>5. CASE Start
    BY <2>1, <2>5 DEF Start, parseVars, Phases
  <2>6. CASE CallHandler
    BY <2>1, <2>6 DEF CallHandler, parseVars, Phases
  <2>7. ASSUME NEW ok \in BOOLEAN, Execute(ok) PROVE PlanInv'
    BY <2>1, <2>2, <2>7 DEF Execute, parseVars, Phases
  <2>8. CASE UNCHANGED vars
    BY <2>1, <2>2, <2>8 DEF vars, parseVars
  <2> QED BY <2>3, <2>4, <2>5, <2>6, <2>7, <2>8, ReuseKeepsPlan, DescendKeepsPlan,
             ReturnKeepsPlan DEF Next
<1> QED BY InitPlan, <1>1, PTL DEF Spec

\* Every value injected into a dependency is that of the callable its parameter
\* names, and its node comes before the node that uses it (dependencies.rs:263).
THEOREM InjectionsAreRight == Spec => []InjectionsRight
<1>1. PlanInv => InjectionsRight
  BY DEF PlanInv
<1> QED BY <1>1, PlanInvariance, PTL

\* A cached dependency has one node in the plan of a route, whatever the graph:
\* it is called once for a request (dependencies.rs:187 and :288).
THEOREM CachedDependenciesAreShared == Spec => []SharedOnce
<1>1. PlanInv => SharedOnce
  BY DEF PlanInv, Remembered, SharedOnce
<1> QED BY <1>1, PlanInvariance, PTL

-----------------------------------------------------------------------------
(* Who uses a node: a node of the plan, or a call that has not returned.   *)

Holders == ({"plan"} \X (1 .. Len(plan))) \union ({"stack"} \X (1 .. Len(stack)))
Holder(h) == IF h[1] = "plan" THEN plan[h[2]] ELSE stack[h[2]]
Subs(h) == Holder(h).subs

\* What is remembered is a cached node.
VisitedCached == \A f \in Funcs : visited[f] # 0 => plan[visited[f]].cache

\* A node is cached if the parameter it was made or found for is.
CachedAsUsed ==
    \A h \in Holders : \A k \in 1 .. Len(Subs(h)) :
        plan[Subs(h)[k]].cache = graph[Holder(h).func][k].cache

\* A node that is not cached is used in one place.
Exclusive ==
    \A g, h \in Holders : \A k \in 1 .. Len(Subs(g)), l \in 1 .. Len(Subs(h)) :
        Subs(g)[k] = Subs(h)[l] /\ ~plan[Subs(g)[k]].cache => g = h /\ k = l

FreshInv == VisitedCached /\ CachedAsUsed /\ Exclusive

\* The results of a node or of a call are nodes of the plan.
LEMMA HolderFacts ==
    ASSUME PlanInv, NEW h \in Holders
    PROVE  /\ Subs(h) \in Seq(Nat) /\ Len(Subs(h)) \in Nat
           /\ \A k \in 1 .. Len(Subs(h)) : Subs(h)[k] \in 1 .. Len(plan)
<1>1. CASE h \in {"plan"} \X (1 .. Len(plan))
  <2>1. PICK i \in 1 .. Len(plan) : h = <<"plan", i>>
    BY <1>1
  <2>2. Subs(h) = plan[i].subs /\ plan[i] \in Node
    BY <2>1 DEF Subs, Holder, PlanInv, Types
  <2>3. plan[i].subs \in Seq(Nat)
    BY <2>2 DEF Node
  <2>4. \A k \in 1 .. Len(plan[i].subs) : plan[i].subs[k] \in 1 .. i - 1
    BY DEF PlanInv, InjectionsRight
  <2>5. 1 .. i - 1 \subseteq 1 .. Len(plan)
    OBVIOUS
  <2> QED BY <2>2, <2>3, <2>4, <2>5
<1>2. CASE h \in {"stack"} \X (1 .. Len(stack))
  <2>1. PICK i \in 1 .. Len(stack) : h = <<"stack", i>>
    BY <1>2
  <2>2. Subs(h) = stack[i].subs
    BY <2>1 DEF Subs, Holder
  <2>3. stack[i].subs \in Seq(Nat)
    BY FrameFacts
  <2>4. \A k \in 1 .. Len(stack[i].subs) : stack[i].subs[k] \in 1 .. Len(plan)
    BY DEF PlanInv, SubsRight
  <2> QED BY <2>2, <2>3, <2>4
<1> QED BY <1>1, <1>2 DEF Holders

\* One more use, x, by w: of a cached node, or of one that nothing used.  old says
\* what a holder was before the step.
OneMore(old, w, x) ==
    /\ graph' = graph
    /\ old \in [Holders' -> Holders] /\ w \in Holders'
    /\ \A g, h \in Holders' : old[g] = old[h] => g = h
    /\ \A h \in Holders' : Holder(h)'.func = Holder(old[h]).func
    /\ \A h \in Holders' : \A k \in 1 .. Len(Subs(h)') :
          \/ k \in 1 .. Len(Subs(old[h])) /\ Subs(h)'[k] = Subs(old[h])[k]
          \/ h = w /\ k = Len(Subs(old[w])) + 1 /\ Subs(h)'[k] = x
    /\ \A i \in 1 .. Len(plan) : plan'[i].cache = plan[i].cache
    /\ plan'[x].cache \/ x \notin 1 .. Len(plan)
    /\ plan'[x].cache = graph[Holder(old[w]).func][Len(Subs(old[w])) + 1].cache

LEMMA OneMoreUse ==
    ASSUME PlanInv, FreshInv, NEW old, NEW w, NEW x, OneMore(old, w, x)
    PROVE  CachedAsUsed' /\ Exclusive'
<1>0. CachedAsUsed /\ Exclusive
  BY DEF FreshInv
<1> USE <1>0 DEF OneMore
<1>1. \A h \in Holders : \A k \in 1 .. Len(Subs(h)) : Subs(h)[k] \in 1 .. Len(plan)
  BY HolderFacts
<1>2. ASSUME NEW h \in Holders', NEW k \in 1 .. Len(Subs(h)')
      PROVE  plan'[Subs(h)'[k]].cache = graph'[Holder(h)'.func][k].cache
  <2>1. CASE k \in 1 .. Len(Subs(old[h])) /\ Subs(h)'[k] = Subs(old[h])[k]
    <3>1. /\ plan[Subs(old[h])[k]].cache = graph[Holder(old[h]).func][k].cache
          /\ Subs(old[h])[k] \in 1 .. Len(plan)
      BY <1>1, <2>1 DEF CachedAsUsed
    <3> QED BY <2>1, <3>1
  <2>2. CASE h = w /\ k = Len(Subs(old[w])) + 1 /\ Subs(h)'[k] = x
    BY <2>2
  <2> QED BY <2>1, <2>2
<1>3. ASSUME NEW g \in Holders', NEW h \in Holders',
             NEW k \in 1 .. Len(Subs(g)'), NEW l \in 1 .. Len(Subs(h)'),
             Subs(g)'[k] = Subs(h)'[l], ~plan'[Subs(g)'[k]].cache
      PROVE  g = h /\ k = l
  <2>1. CASE /\ k \in 1 .. Len(Subs(old[g])) /\ Subs(g)'[k] = Subs(old[g])[k]
             /\ l \in 1 .. Len(Subs(old[h])) /\ Subs(h)'[l] = Subs(old[h])[l]
    <3>1. Subs(old[g])[k] \in 1 .. Len(plan) /\ ~plan[Subs(old[g])[k]].cache
      BY <1>1, <1>3, <2>1
    <3>2. old[g] \in Holders /\ old[h] \in Holders /\ Subs(old[g])[k] = Subs(old[h])[l]
      BY <1>3, <2>1
    <3>3. old[g] = old[h] /\ k = l
      BY <2>1, <3>1, <3>2 DEF Exclusive
    <3> QED BY <3>3
  <2>2. CASE /\ g = w /\ k = Len(Subs(old[w])) + 1 /\ Subs(g)'[k] = x
             /\ h = w /\ l = Len(Subs(old[w])) + 1 /\ Subs(h)'[l] = x
    BY <2>2
  <2>3. CASE /\ k \in 1 .. Len(Subs(old[g])) /\ Subs(g)'[k] = Subs(old[g])[k]
             /\ Subs(h)'[l] = x
    <3>1. old[g] \in Holders /\ Subs(old[g])[k] = x /\ Subs(g)'[k] = x
      BY <1>3, <2>3
    <3>2. x \in 1 .. Len(plan)
      BY <1>1, <2>3, <3>1
    <3>3. ~plan'[x].cache
      BY <1>3, <3>1
    <3> QED BY <3>2, <3>3
  <2>4. CASE /\ l \in 1 .. Len(Subs(old[h])) /\ Subs(h)'[l] = Subs(old[h])[l]
             /\ Subs(g)'[k] = x
    <3>1. old[h] \in Holders /\ Subs(old[h])[l] = x /\ Subs(g)'[k] = x
      BY <1>3, <2>4
    <3>2. x \in 1 .. Len(plan)
      BY <1>1, <2>4, <3>1
    <3>3. ~plan'[x].cache
      BY <1>3, <3>1
    <3> QED BY <3>2, <3>3
  <2> QED BY <2>1, <2>2, <2>3, <2>4
<1> QED BY <1>2, <1>3 DEF CachedAsUsed, Exclusive

LEMMA DescendKeepsFresh == PlanInv /\ FreshInv /\ Descend => FreshInv'
<1> SUFFICES ASSUME PlanInv, FreshInv, Descend PROVE FreshInv'
  OBVIOUS
<1> PICK n \in Nat \ {0} : Descended(n)
  BY DescendEffect
<1>1. UNCHANGED <<graph, plan, visited>>
  BY DEF Descended
<1>2. ASSUME NEW h \in Holders'
      PROVE  \/ h \in Holders /\ Holder(h)' = Holder(h) /\ Subs(h)' = Subs(h)
             \/ Subs(h)' = <<>>
  <2>1. CASE h \in {"plan"} \X (1 .. Len(plan))
    BY <1>1, <2>1 DEF Holders, Holder, Subs
  <2>2. ASSUME NEW i \in 1 .. n, h = <<"stack", i>>
        PROVE  h \in Holders /\ Holder(h)' = Holder(h) /\ Subs(h)' = Subs(h)
    <3>1. h[1] = "stack" /\ h[2] = i /\ "stack" # "plan"
      BY <2>2
    <3>2. stack'[i] = stack[i] /\ Len(stack) = n
      BY DEF Descended
    <3> QED BY <2>2, <3>1, <3>2 DEF Holders, Holder, Subs
  <2>3. CASE h = <<"stack", n + 1>>
    <3>1. h[1] = "stack" /\ h[2] = n + 1 /\ "stack" # "plan"
      BY <2>3
    <3>2. stack'[n + 1].subs = <<>>
      BY DEF Descended
    <3> QED BY <3>1, <3>2 DEF Holder, Subs
  <2>4. \/ h \in {"plan"} \X (1 .. Len(plan))
        \/ \E i \in 1 .. n + 1 : h = <<"stack", i>>
    BY <1>1 DEF Holders, Descended
  <2>5. \A i \in 1 .. n + 1 : i \in 1 .. n \/ i = n + 1
    OBVIOUS
  <2> QED BY <2>1, <2>2, <2>3, <2>4, <2>5
<1>3. ASSUME NEW h \in Holders', NEW k \in 1 .. Len(Subs(h)')
      PROVE  h \in Holders /\ Holder(h)' = Holder(h) /\ Subs(h)' = Subs(h)
  BY <1>2
<1>4. CachedAsUsed'
  BY <1>1, <1>3 DEF FreshInv, CachedAsUsed
<1>5. Exclusive'
  BY <1>1, <1>3 DEF FreshInv, Exclusive
<1>6. VisitedCached'
  BY <1>1 DEF FreshInv, VisitedCached
<1> QED BY <1>4, <1>5, <1>6 DEF FreshInv

LEMMA ReuseKeepsFresh == PlanInv /\ FreshInv /\ Reuse => FreshInv'
<1> SUFFICES ASSUME PlanInv, FreshInv, Reuse PROVE FreshInv'
  OBVIOUS
<1>0. PICK n \in Nat \ {0}, x \in Nat \ {0} : Reused(n, x)
  BY ReuseEffect
<1> DEFINE old == [h \in Holders' |-> h]
           w == <<"stack", n>>
           use == graph[stack[n].func][Len(stack[n].subs) + 1]
<1>1. UNCHANGED <<graph, plan, visited>> /\ Len(stack) = n /\ Len(stack') = n /\ Grown(n, x)
  BY <1>0 DEF Reused, Grown
<1>2. Holders' = Holders /\ w \in Holders
  BY <1>1 DEF Holders
<1>3. plan[x].cache /\ use.cache = plan[x].cache
  <2>1. use.cache /\ use.func \in Funcs /\ visited[use.func] = x
    BY <1>0 DEF Reused
  <2>2. plan[x].cache
    BY <2>1 DEF FreshInv, VisitedCached
  <2>3. x \in 1 .. Len(plan)
    BY <2>1 DEF PlanInv, VisitedRight
  <2>4. plan[x] \in Node
    BY <2>3 DEF PlanInv, Types
  <2>5. plan[x].cache \in BOOLEAN /\ use.cache \in BOOLEAN
    <3>1. n \in 1 .. Len(stack) /\ Len(stack[n].subs) + 1 <= Len(graph[stack[n].func])
      BY <1>0, <1>1 DEF Reused
    <3>2. graph[stack[n].func] \in Seq(Use) /\ Len(stack[n].subs) \in Nat
      BY <3>1, FrameFacts
    <3>3. use \in Use
      BY <3>1, <3>2
    <3> QED BY <2>4, <3>3 DEF Node, Use
  <2> QED BY <2>1, <2>2, <2>5
<1>4. Holder(w) = stack[n] /\ Holder(w)' = stack'[n]
  BY DEF Holder
<1>5. ASSUME NEW h \in Holders', h # w
      PROVE  Holder(h)' = Holder(h) /\ Subs(h)' = Subs(h)
  <2>1. CASE h \in {"plan"} \X (1 .. Len(plan))
    BY <1>1, <2>1 DEF Holder, Subs
  <2>2. ASSUME NEW i \in 1 .. n, h = <<"stack", i>>
        PROVE  Holder(h)' = Holder(h) /\ Subs(h)' = Subs(h)
    <3>1. h[1] = "stack" /\ h[2] = i /\ "stack" # "plan" /\ i # n
      BY <1>5, <2>2
    <3>2. stack'[i] = stack[i]
      BY <1>1, <3>1 DEF Grown
    <3> QED BY <3>1, <3>2 DEF Holder, Subs
  <2> QED BY <1>1, <1>2, <2>1, <2>2 DEF Holders
<1>6. Subs(w) = stack[n].subs /\ Subs(w)' = stack'[n].subs
  BY <1>4 DEF Subs
<1>7. \A h \in Holders' : Holder(h)'.func = Holder(h).func
  BY <1>1, <1>4, <1>5 DEF Grown
<1>8. /\ Len(Subs(w)') = Len(Subs(w)) + 1 /\ Len(Subs(w)) \in Nat
      /\ \A k \in 1 .. Len(Subs(w)) : Subs(w)'[k] = Subs(w)[k]
      /\ Subs(w)'[Len(Subs(w)) + 1] = x
  BY <1>1, <1>2, <1>6, HolderFacts DEF Grown
<1> HIDE DEF w
<1>9. \A h \in Holders' : \A k \in 1 .. Len(Subs(h)') :
         \/ k \in 1 .. Len(Subs(h)) /\ Subs(h)'[k] = Subs(h)[k]
         \/ h = w /\ k = Len(Subs(w)) + 1 /\ Subs(h)'[k] = x
  BY <1>5, <1>8
<1>10. /\ old \in [Holders' -> Holders] /\ \A h \in Holders' : old[h] = h
       /\ w \in Holders' /\ \A g, h \in Holders' : old[g] = old[h] => g = h
  BY <1>2
<1> HIDE DEF old
<1>11. plan'[x].cache = graph[Holder(old[w]).func][Len(Subs(old[w])) + 1].cache
  BY <1>1, <1>3, <1>4, <1>6, <1>10
<1>12. plan'[x].cache
  BY <1>1, <1>3
<1>13. /\ \A h \in Holders' : Holder(h)'.func = Holder(old[h]).func
       /\ \A h \in Holders' : \A k \in 1 .. Len(Subs(h)') :
             \/ k \in 1 .. Len(Subs(old[h])) /\ Subs(h)'[k] = Subs(old[h])[k]
             \/ h = w /\ k = Len(Subs(old[w])) + 1 /\ Subs(h)'[k] = x
       /\ \A i \in 1 .. Len(plan) : plan'[i].cache = plan[i].cache
  BY <1>1, <1>7, <1>9, <1>10
<1>14. CachedAsUsed' /\ Exclusive'
  <2>1. OneMore(old, w, x)
    BY <1>1, <1>10, <1>11, <1>12, <1>13 DEF OneMore
  <2> QED BY <2>1, OneMoreUse
<1>15. VisitedCached'
  BY <1>1 DEF FreshInv, VisitedCached
<1> QED BY <1>14, <1>15 DEF FreshInv

\* The call that returns hands its uses to its node.
LEMMA ReturnKeepsFresh == PlanInv /\ FreshInv /\ Return => FreshInv'
<1> SUFFICES ASSUME PlanInv, FreshInv, Return PROVE FreshInv'
  OBVIOUS
<1>0. PICK c \in Nat \ {0}, m \in Nat \ {0} : Returned(c, m)
  BY ReturnEffect
<1> DEFINE node == <<"plan", m>>
           top == <<"stack", c + 1>>
           w == <<"stack", c>>
           old == [h \in Holders' |-> IF h = node THEN top ELSE h]
<1>1. /\ graph' = graph /\ Len(stack) = c + 1 /\ Len(stack') = c
      /\ Len(plan) = m - 1 /\ Len(plan') = m /\ Grown(c, m)
      /\ plan'[m] = stack[c + 1] /\ \A i \in 1 .. Len(plan) : plan'[i] = plan[i]
  BY <1>0 DEF Returned, Grown
<1>2. /\ top \in Holders /\ w \in Holders /\ w \in Holders' /\ node \in Holders'
      /\ node # w /\ top # w /\ top \notin Holders'
  BY <1>1 DEF Holders
<1>3. \A h \in Holders' : h # node => h \in Holders
  BY <1>1 DEF Holders
<1>4. /\ Holder(node)' = stack[c + 1] /\ Holder(top) = stack[c + 1]
      /\ Holder(w) = stack[c] /\ Holder(w)' = stack'[c]
  BY <1>1 DEF Holder
<1>5. ASSUME NEW h \in Holders', h # node, h # w
      PROVE  Holder(h)' = Holder(h) /\ Subs(h)' = Subs(h)
  <2>1. ASSUME NEW i \in 1 .. m, h = <<"plan", i>>
        PROVE  Holder(h)' = Holder(h) /\ Subs(h)' = Subs(h)
    <3>1. h[1] = "plan" /\ h[2] = i /\ i # m
      BY <1>5, <2>1
    <3>2. i \in 1 .. Len(plan)
      BY <1>1, <3>1
    <3> QED BY <1>1, <3>1, <3>2 DEF Holder, Subs
  <2>2. ASSUME NEW i \in 1 .. c, h = <<"stack", i>>
        PROVE  Holder(h)' = Holder(h) /\ Subs(h)' = Subs(h)
    <3>1. h[1] = "stack" /\ h[2] = i /\ "stack" # "plan" /\ i # c
      BY <1>5, <2>2
    <3>2. stack'[i] = stack[i]
      BY <1>1, <3>1 DEF Grown
    <3> QED BY <3>1, <3>2 DEF Holder, Subs
  <2> QED BY <1>1, <2>1, <2>2 DEF Holders
<1>6. Subs(w) = stack[c].subs /\ Subs(w)' = stack'[c].subs /\ Subs(node)' = Subs(top)
  BY <1>4 DEF Subs
<1> HIDE DEF w, node, top
<1>7. /\ Len(Subs(w)') = Len(Subs(w)) + 1 /\ Len(Subs(w)) \in Nat
      /\ \A k \in 1 .. Len(Subs(w)) : Subs(w)'[k] = Subs(w)[k]
      /\ Subs(w)'[Len(Subs(w)) + 1] = m
  BY <1>1, <1>2, <1>6, HolderFacts DEF Grown
<1>8. /\ old \in [Holders' -> Holders] /\ old[node] = top /\ old[w] = w
      /\ \A h \in Holders' : h # node => old[h] = h
      /\ \A g, h \in Holders' : old[g] = old[h] => g = h
  <2>1. \A h \in Holders' : IF h = node THEN top \in Holders ELSE h \in Holders
    BY <1>2, <1>3
  <2>2. old \in [Holders' -> Holders]
    BY <2>1
  <2>3. \A h \in Holders' : old[h] = IF h = node THEN top ELSE h
    OBVIOUS
  <2> HIDE DEF old
  <2> QED BY <1>2, <2>2, <2>3
<1> HIDE DEF old
<1>9. \A h \in Holders' : Holder(h)'.func = Holder(old[h]).func
  <2>1. Holder(w)'.func = Holder(w).func
    BY <1>1, <1>4 DEF Grown
  <2>2. Holder(node)'.func = Holder(top).func
    BY <1>4
  <2> QED BY <1>5, <1>8, <2>1, <2>2
<1>10. ASSUME NEW h \in Holders', NEW k \in 1 .. Len(Subs(h)')
       PROVE  \/ k \in 1 .. Len(Subs(old[h])) /\ Subs(h)'[k] = Subs(old[h])[k]
              \/ h = w /\ k = Len(Subs(old[w])) + 1 /\ Subs(h)'[k] = m
  <2>1. CASE h = w
    BY <1>7, <1>8, <2>1
  <2>2. CASE h # w
    <3>1. Subs(h)' = Subs(old[h])
      BY <1>5, <1>6, <1>8, <2>2
    <3> QED BY <3>1
  <2> QED BY <2>1, <2>2
<1>11. plan'[m].cache = graph[Holder(old[w]).func][Len(Subs(old[w])) + 1].cache
  <2>1. c + 1 \in 2 .. Len(stack) /\ (c + 1) - 1 = c
    BY <1>1
  <2>2. stack[c + 1].cache = graph[stack[c].func][Len(stack[c].subs) + 1].cache
    BY <2>1 DEF PlanInv, Links
  <2> QED BY <1>1, <1>4, <1>6, <1>8, <2>2
<1>12. m \notin 1 .. Len(plan) /\ \A i \in 1 .. Len(plan) : plan'[i].cache = plan[i].cache
  BY <1>1
<1>13. CachedAsUsed' /\ Exclusive'
  <2>1. OneMore(old, w, m)
    BY <1>1, <1>2, <1>8, <1>9, <1>10, <1>11, <1>12 DEF OneMore
  <2> QED BY <2>1, OneMoreUse
<1>14. VisitedCached'
  <2> SUFFICES ASSUME NEW f \in Funcs, visited'[f] # 0 PROVE plan'[visited'[f]].cache
    BY DEF VisitedCached
  <2>1. /\ Top = stack[c + 1] /\ visited \in [Funcs -> Nat] /\ Len(plan) + 1 = m
        /\ visited' = IF Top.cache THEN [visited EXCEPT ![Top.func] = Len(plan) + 1] ELSE visited
    BY <1>1, TopFacts DEF Return, PlanInv, Types
  <2>2. CASE Top.cache /\ f = Top.func
    <3>1. visited'[f] = m
      BY <2>1, <2>2
    <3> QED BY <1>1, <2>1, <2>2, <3>1
  <2>3. CASE ~(Top.cache /\ f = Top.func)
    <3>1. visited'[f] = visited[f]
      BY <2>1, <2>3
    <3>2. visited[f] \in 1 .. Len(plan) /\ plan[visited[f]].cache
      BY <3>1 DEF PlanInv, VisitedRight, FreshInv, VisitedCached
    <3> QED BY <1>1, <3>1, <3>2
  <2> QED BY <2>2, <2>3
<1> QED BY <1>13, <1>14 DEF FreshInv

\* A parameter with use_cache=False has a node of its own in every plan: no other
\* parameter, of whatever callable, is given its value (dependencies.rs:187).
THEOREM UncachedAreFresh == Spec => []FreshPerUse
<1>1. Init => FreshInv
  <2> SUFFICES ASSUME Init PROVE FreshInv
    OBVIOUS
  <2>1. Len(plan) = 0 /\ Len(stack) = 1 /\ stack[1].subs = <<>> /\ \A f \in Funcs : visited[f] = 0
    BY DEF Init, Call
  <2>2. Holders = {<<"stack", 1>>}
    BY <2>1 DEF Holders
  <2>3. \A h \in Holders : Subs(h) = <<>>
    BY <2>1, <2>2 DEF Subs, Holder
  <2>4. \A h \in Holders : 1 .. Len(Subs(h)) = {}
    BY <2>3
  <2> HIDE DEF Subs
  <2> QED BY <2>1, <2>4 DEF FreshInv, VisitedCached, CachedAsUsed, Exclusive
<1>2. PlanInv /\ FreshInv /\ [Next]_vars => FreshInv'
  <2> SUFFICES ASSUME PlanInv, FreshInv, [Next]_vars PROVE FreshInv'
    OBVIOUS
  <2>1. ASSUME UNCHANGED <<graph, stack, plan, visited>> PROVE FreshInv'
    <3>1. /\ Holders' = Holders
          /\ \A h \in Holders : Holder(h)' = Holder(h) /\ Subs(h)' = Subs(h)
      BY <2>1 DEF Holders, Holder, Subs
    <3>2. CachedAsUsed' /\ Exclusive'
      BY <2>1, <3>1 DEF FreshInv, CachedAsUsed, Exclusive
    <3> QED BY <2>1, <3>2 DEF FreshInv, VisitedCached
  <2>2. CASE Overflow \/ Parsed \/ Start \/ CallHandler \/ UNCHANGED vars
    BY <2>1, <2>2 DEF Overflow, Parsed, Start, CallHandler, vars, parseVars
  <2>3. ASSUME NEW ok \in BOOLEAN, Execute(ok) PROVE FreshInv'
    BY <2>1, <2>3 DEF Execute, parseVars
  <2> QED BY <2>2, <2>3, ReuseKeepsFresh, DescendKeepsFresh, ReturnKeepsFresh DEF Next
<1>3. PlanInv /\ FreshInv => FreshPerUse
  <2> SUFFICES ASSUME PlanInv, FreshInv, NEW i \in 1 .. Len(plan), NEW j \in 1 .. Len(plan),
                      NEW k \in DOMAIN plan[i].subs, NEW l \in DOMAIN plan[j].subs,
                      ~graph[plan[i].func][k].cache, plan[i].subs[k] = plan[j].subs[l]
               PROVE  i = j /\ k = l
    BY DEF FreshPerUse
  <2> DEFINE g == <<"plan", i>>
             h == <<"plan", j>>
  <2>1. /\ g \in Holders /\ h \in Holders /\ Holder(g) = plan[i] /\ Holder(h) = plan[j]
        /\ Subs(g) = plan[i].subs /\ Subs(h) = plan[j].subs
    BY DEF Holders, Holder, Subs
  <2>2. k \in 1 .. Len(Subs(g)) /\ l \in 1 .. Len(Subs(h))
    <3>1. plan[i] \in Node /\ plan[j] \in Node
      BY DEF PlanInv, Types
    <3>2. plan[i].subs \in Seq(Nat) /\ plan[j].subs \in Seq(Nat)
      BY <3>1 DEF Node
    <3>3. /\ DOMAIN plan[i].subs = 1 .. Len(plan[i].subs)
          /\ DOMAIN plan[j].subs = 1 .. Len(plan[j].subs)
      BY <3>2
    <3>4. k \in 1 .. Len(plan[i].subs) /\ l \in 1 .. Len(plan[j].subs)
      BY <3>3
    <3> HIDE DEF g, h
    <3> QED BY <2>1, <3>4
  <2>3. g = h => i = j
    OBVIOUS
  <2> HIDE DEF g, h
  <2>4. ~plan[Subs(g)[k]].cache
    BY <2>1, <2>2 DEF FreshInv, CachedAsUsed
  <2>5. g = h /\ k = l
    BY <2>1, <2>2, <2>4 DEF FreshInv, Exclusive
  <2> QED BY <2>3, <2>5
<1> QED BY <1>1, <1>2, <1>3, PlanInvariance, PTL DEF Spec

-----------------------------------------------------------------------------
(* What the handler is given.                                              *)

\* The first call is the handler's; those made for its parameters, and no others,
\* are at the top level.
TopCalls ==
    /\ stack[1].func = Handler /\ stack[1].param = 0
    /\ \A i \in 1 .. Len(stack) : stack[i].top <=> i <= 2
    /\ \A i \in 2 .. Len(stack) : stack[i].param = Len(stack[i - 1].subs) + 1

\* A node at the top level was made for the parameter of the handler it names, and
\* a parameter with use_cache=False has one.
TopNodes ==
    /\ \A i \in 1 .. Len(plan) : plan[i].top =>
          plan[i].param \in 1 .. Len(stack[1].subs) /\ stack[1].subs[plan[i].param] = i
    /\ \A k \in 1 .. Len(stack[1].subs) : ~graph[Handler][k].cache =>
          plan[stack[1].subs[k]].top /\ plan[stack[1].subs[k]].param = k

\* The walk ends with the handler's parameters all visited, and its plan stays.
WalkEnds ==
    phase \notin {"parsing", "crashed"} =>
        Len(stack) = 1 /\ Len(stack[1].subs) = Len(graph[Handler])

TopInv == TopCalls /\ TopNodes /\ WalkEnds

\* What a request has so far for the handler.
GivenFrom(n) == {[param |-> plan[i].param, node |-> i] : i \in {j \in 1 .. n : plan[j].top}}

GivenSoFar ==
    /\ executed \in 0 .. Len(plan)
    /\ phase \in {"parsing", "crashed"} => executed = 0
    /\ phase = "called" => executed = Len(plan)
    /\ given = GivenFrom(executed)

LEMMA DescendKeepsTop == PlanInv /\ TopInv /\ Descend => TopInv'
<1> SUFFICES ASSUME PlanInv, TopInv, Descend PROVE TopInv'
  OBVIOUS
<1>0. PICK n \in Nat \ {0} : Descended(n)
  BY DescendEffect
<1>1. /\ graph' = graph /\ plan' = plan /\ phase' = "parsing"
      /\ Len(stack) = n /\ Len(stack') = n + 1 /\ \A i \in 1 .. n : stack'[i] = stack[i]
      /\ stack'[n + 1].top <=> stack[n].top /\ stack[n].param = 0
      /\ stack'[n + 1].param = Len(stack[n].subs) + 1
  BY <1>0 DEF Descended, Descend, Walking
<1>2. stack'[1] = stack[1] /\ TopCalls /\ TopNodes
  BY <1>1 DEF TopInv
<1>3. TopCalls'
  <2>1. ASSUME NEW i \in 1 .. n + 1 PROVE stack'[i].top <=> i <= 2
    <3>1. CASE i \in 1 .. n
      BY <1>1, <1>2, <3>1 DEF TopCalls
    <3>2. CASE i = n + 1 /\ n = 1
      BY <1>1, <1>2, <3>2 DEF TopCalls
    <3>3. CASE i = n + 1 /\ n # 1
      <4>1. n \in 2 .. Len(stack) /\ n \in 1 .. Len(stack) /\ n - 1 \in 1 .. Len(stack)
        BY <1>1, <3>3
      <4>2. stack[n].param = Len(stack[n - 1].subs) + 1 /\ Len(stack[n - 1].subs) \in Nat
        BY <1>2, <4>1, FrameFacts DEF TopCalls
      <4>3. ~stack'[i].top
        BY <1>1, <3>3, <4>2
      <4> QED BY <3>3, <4>3
    <3> QED BY <3>1, <3>2, <3>3
  <2>2. ASSUME NEW i \in 2 .. n + 1 PROVE stack'[i].param = Len(stack'[i - 1].subs) + 1
    <3>1. CASE i \in 2 .. n
      <4>1. i \in 1 .. n /\ i - 1 \in 1 .. n
        BY <3>1
      <4> QED BY <1>1, <1>2, <3>1, <4>1 DEF TopCalls
    <3>2. CASE i = n + 1
      <4>1. i - 1 = n /\ n \in 1 .. n
        BY <3>2
      <4> QED BY <1>1, <3>2, <4>1
    <3> QED BY <3>1, <3>2
  <2> QED BY <1>1, <1>2, <2>1, <2>2 DEF TopCalls
<1>4. TopNodes' /\ WalkEnds'
  BY <1>1, <1>2 DEF TopNodes, WalkEnds
<1> QED BY <1>3, <1>4 DEF TopInv

\* The calls below the one that gets a result keep their place.
LEMMA GrownKeepsCalls ==
    ASSUME PlanInv, TopCalls, NEW n \in 1 .. Len(stack), NEW x, Grown(n, x)
    PROVE  TopCalls'
<1>1. /\ Len(stack') = n /\ \A i \in 1 .. n : i # n => stack'[i] = stack[i]
      /\ stack'[n].func = stack[n].func /\ stack'[n].top = stack[n].top
      /\ stack'[n].param = stack[n].param
  BY DEF Grown
<1>2. Len(stack) \in Nat /\ 1 \in 1 .. n
  BY DEF PlanInv, Types
<1>3. \A i \in 1 .. n : /\ i \in 1 .. Len(stack) /\ stack'[i].func = stack[i].func
                        /\ stack'[i].top = stack[i].top /\ stack'[i].param = stack[i].param
  BY <1>1, <1>2
<1>4. ASSUME NEW i \in 2 .. n PROVE stack'[i].param = Len(stack'[i - 1].subs) + 1
  <2>1. i \in 1 .. n /\ i - 1 \in 1 .. n /\ i - 1 # n /\ i \in 2 .. Len(stack)
    BY <1>2
  <2>2. stack'[i - 1] = stack[i - 1] /\ stack'[i].param = stack[i].param
    BY <1>1, <1>3, <2>1
  <2> QED BY <2>1, <2>2 DEF TopCalls
<1>5. \A i \in 1 .. n : stack'[i].top <=> i <= 2
  BY <1>3 DEF TopCalls
<1>6. stack'[1].func = Handler /\ stack'[1].param = 0
  BY <1>2, <1>3 DEF TopCalls
<1> QED BY <1>1, <1>4, <1>5, <1>6 DEF TopCalls

LEMMA ReuseKeepsTop == PlanInv /\ TopInv /\ Reuse => TopInv'
<1> SUFFICES ASSUME PlanInv, TopInv, Reuse PROVE TopInv'
  OBVIOUS
<1>0. PICK n \in Nat \ {0}, x \in Nat \ {0} : Reused(n, x)
  BY ReuseEffect
<1>1. /\ graph' = graph /\ plan' = plan /\ phase' = "parsing" /\ Len(stack) = n
      /\ graph[stack[n].func][Len(stack[n].subs) + 1].cache /\ Grown(n, x)
  BY <1>0 DEF Reused, Reuse, Walking
<1>2. TopCalls /\ TopNodes
  BY DEF TopInv
<1>3. TopCalls'
  BY <1>1, <1>2, GrownKeepsCalls
<1>4. Len(stack[1].subs) \in Nat
  BY <1>1, FrameFacts
<1>5. TopNodes'
  <2>1. CASE n = 1
    <3>1. /\ Len(stack'[1].subs) = Len(stack[1].subs) + 1
          /\ \A k \in 1 .. Len(stack[1].subs) : stack'[1].subs[k] = stack[1].subs[k]
      BY <1>1, <2>1 DEF Grown
    <3>2. graph[Handler][Len(stack[1].subs) + 1].cache
      BY <1>1, <1>2, <2>1 DEF TopCalls
    <3>3. \A k \in 1 .. Len(stack[1].subs) + 1 :
             k \in 1 .. Len(stack[1].subs) \/ k = Len(stack[1].subs) + 1
      BY <1>4
    <3>4. ASSUME NEW i \in 1 .. Len(plan), plan[i].top
          PROVE  /\ plan[i].param \in 1 .. Len(stack'[1].subs)
                 /\ stack'[1].subs[plan[i].param] = i
      <4>1. plan[i].param \in 1 .. Len(stack[1].subs) /\ stack[1].subs[plan[i].param] = i
        BY <1>2, <3>4 DEF TopNodes
      <4>2. stack'[1].subs[plan[i].param] = i
        BY <3>1, <4>1
      <4>3. plan[i].param \in 1 .. Len(stack[1].subs) + 1
        BY <1>4, <4>1
      <4> QED BY <3>1, <4>2, <4>3
    <3>5. ASSUME NEW k \in 1 .. Len(stack'[1].subs), ~graph[Handler][k].cache
          PROVE  plan[stack'[1].subs[k]].top /\ plan[stack'[1].subs[k]].param = k
      <4>1. k \in 1 .. Len(stack[1].subs)
        BY <3>1, <3>2, <3>3, <3>5
      <4>2. plan[stack[1].subs[k]].top /\ plan[stack[1].subs[k]].param = k
        BY <1>2, <3>5, <4>1 DEF TopNodes
      <4> QED BY <3>1, <4>1, <4>2
    <3> QED BY <1>1, <3>4, <3>5 DEF TopNodes
  <2>2. CASE n # 1
    <3>1. stack'[1] = stack[1]
      BY <1>1, <2>2 DEF Grown
    <3> QED BY <1>1, <1>2, <3>1 DEF TopNodes
  <2> QED BY <2>1, <2>2
<1>6. WalkEnds'
  BY <1>1 DEF WalkEnds
<1> QED BY <1>3, <1>5, <1>6 DEF TopInv

LEMMA ReturnKeepsTop == PlanInv /\ TopInv /\ Return => TopInv'
<1> SUFFICES ASSUME PlanInv, TopInv, Return PROVE TopInv'
  OBVIOUS
<1>0. PICK c \in Nat \ {0}, m \in Nat \ {0} : Returned(c, m)
  BY ReturnEffect
<1>1. /\ graph' = graph /\ phase' = "parsing" /\ Len(stack) = c + 1
      /\ Len(plan) = m - 1 /\ Len(plan') = m /\ plan'[m] = stack[c + 1]
      /\ \A i \in 1 .. Len(plan) : plan'[i] = plan[i]
      /\ Grown(c, m)
  BY <1>0 DEF Returned, Return, Complete
<1>2. TopCalls /\ TopNodes
  BY DEF TopInv
<1>3. TopCalls'
  BY <1>1, <1>2, GrownKeepsCalls
<1>4. /\ Len(stack[1].subs) \in Nat
      /\ \A k \in 1 .. Len(stack[1].subs) : stack[1].subs[k] \in 1 .. Len(plan)
  BY <1>1, FrameFacts DEF PlanInv, SubsRight
<1>5. plan'[m].top <=> c + 1 <= 2
  BY <1>1, <1>2 DEF TopCalls
<1>6. \A i \in 1 .. m : i \in 1 .. Len(plan) \/ i = m
  BY <1>1
<1>7. TopNodes'
  <2>1. CASE c = 1
    <3>1. /\ Len(stack'[1].subs) = Len(stack[1].subs) + 1
          /\ \A k \in 1 .. Len(stack[1].subs) : stack'[1].subs[k] = stack[1].subs[k]
          /\ stack'[1].subs[Len(stack[1].subs) + 1] = m
      BY <1>1, <2>1 DEF Grown
    <3>2. plan'[m].top /\ plan'[m].param = Len(stack[1].subs) + 1
      <4>1. 2 \in 2 .. Len(stack) /\ 2 - 1 = 1
        BY <1>1, <2>1
      <4>2. stack[2].param = Len(stack[1].subs) + 1
        BY <1>2, <4>1 DEF TopCalls
      <4> QED BY <1>1, <1>5, <2>1, <4>2
    <3>3. \A k \in 1 .. Len(stack[1].subs) + 1 :
             k \in 1 .. Len(stack[1].subs) \/ k = Len(stack[1].subs) + 1
      BY <1>4
    <3>4. ASSUME NEW i \in 1 .. m, plan'[i].top
          PROVE  /\ plan'[i].param \in 1 .. Len(stack'[1].subs)
                 /\ stack'[1].subs[plan'[i].param] = i
      <4>1. CASE i = m
        BY <1>4, <3>1, <3>2, <4>1
      <4>2. CASE i \in 1 .. Len(plan)
        <5>1. /\ plan'[i] = plan[i] /\ plan[i].param \in 1 .. Len(stack[1].subs)
              /\ stack[1].subs[plan[i].param] = i
          BY <1>1, <1>2, <3>4, <4>2 DEF TopNodes
        <5>2. stack'[1].subs[plan[i].param] = i
          BY <3>1, <5>1
        <5>3. plan[i].param \in 1 .. Len(stack[1].subs) + 1
          BY <1>4, <5>1
        <5> QED BY <3>1, <5>1, <5>2, <5>3
      <4> QED BY <1>6, <4>1, <4>2
    <3>5. ASSUME NEW k \in 1 .. Len(stack'[1].subs), ~graph[Handler][k].cache
          PROVE  plan'[stack'[1].subs[k]].top /\ plan'[stack'[1].subs[k]].param = k
      <4>1. CASE k = Len(stack[1].subs) + 1
        BY <3>1, <3>2, <4>1
      <4>2. CASE k \in 1 .. Len(stack[1].subs)
        <5>1. plan[stack[1].subs[k]].top /\ plan[stack[1].subs[k]].param = k
          BY <1>2, <3>5, <4>2 DEF TopNodes
        <5>2. stack'[1].subs[k] = stack[1].subs[k] /\ stack[1].subs[k] \in 1 .. Len(plan)
          BY <1>4, <3>1, <4>2
        <5> QED BY <1>1, <5>1, <5>2
      <4> QED BY <3>1, <3>3, <4>1, <4>2
    <3> QED BY <1>1, <3>4, <3>5 DEF TopNodes
  <2>2. CASE c # 1
    <3>1. stack'[1] = stack[1]
      BY <1>1, <2>2 DEF Grown
    <3>2. ~plan'[m].top
      BY <1>5, <2>2
    <3>3. ASSUME NEW i \in 1 .. m, plan'[i].top
          PROVE  /\ plan'[i].param \in 1 .. Len(stack[1].subs)
                 /\ stack[1].subs[plan'[i].param] = i
      <4>1. i \in 1 .. Len(plan) /\ plan'[i] = plan[i]
        BY <1>1, <1>6, <3>2, <3>3
      <4> QED BY <1>2, <3>3, <4>1 DEF TopNodes
    <3>4. ASSUME NEW k \in 1 .. Len(stack[1].subs), ~graph[Handler][k].cache
          PROVE  plan'[stack[1].subs[k]].top /\ plan'[stack[1].subs[k]].param = k
      <4>1. plan[stack[1].subs[k]].top /\ plan[stack[1].subs[k]].param = k
        BY <1>2, <3>4 DEF TopNodes
      <4>2. plan'[stack[1].subs[k]] = plan[stack[1].subs[k]]
        BY <1>1, <1>4
      <4> QED BY <4>1, <4>2
    <3> QED BY <1>1, <3>1, <3>3, <3>4 DEF TopNodes
  <2> QED BY <2>1, <2>2
<1>8. WalkEnds'
  BY <1>1 DEF WalkEnds
<1> QED BY <1>3, <1>7, <1>8 DEF TopInv

\* The handler's calls and nodes are known for what they are in every state.
THEOREM TopInvariance == Spec => []TopInv
<1>1. Init => TopInv
  <2> SUFFICES ASSUME Init PROVE TopInv
    OBVIOUS
  <2>1. /\ Len(plan) = 0 /\ Len(stack) = 1 /\ phase = "parsing"
        /\ stack[1] = [func |-> Handler, cache |-> TRUE, top |-> TRUE, param |-> 0, subs |-> <<>>]
    BY DEF Init, Call
  <2> QED BY <2>1 DEF TopInv, TopCalls, TopNodes, WalkEnds
<1>2. PlanInv /\ TopInv /\ [Next]_vars => TopInv'
  <2> SUFFICES ASSUME PlanInv, TopInv, [Next]_vars PROVE TopInv'
    OBVIOUS
  <2>1. ASSUME UNCHANGED <<graph, stack, plan, visited>>, WalkEnds' PROVE TopInv'
    BY <2>1 DEF TopInv, TopCalls, TopNodes
  <2>2. CASE Parsed
    <3>1. Len(stack) = 1
      <4>1. Len(stack) \in Nat /\ Len(stack) - 1 = 0
        BY <2>2, TopFacts DEF Parsed, Caller
      <4> QED BY <4>1
    <3>2. /\ stack[1].func = Handler /\ Top = stack[1]
          /\ Len(stack[1].subs) + 1 > Len(graph[Handler])
      BY <2>2, <3>1 DEF TopInv, TopCalls, Parsed, Complete, Position, Top
    <3>3. 1 \in 1 .. Len(stack)
      BY <3>1
    <3>4. /\ Len(stack[1].subs) <= Len(graph[Handler])
          /\ Len(stack[1].subs) \in Nat /\ Len(graph[Handler]) \in Nat
      BY <3>2, <3>3, FrameFacts DEF PlanInv, SubsRight
    <3>5. Len(stack[1].subs) = Len(graph[Handler])
      BY <3>2, <3>4
    <3> QED BY <2>1, <2>2, <3>1, <3>5 DEF Parsed, parseVars, WalkEnds
  <2>3. CASE Overflow \/ Start \/ CallHandler \/ UNCHANGED vars
    BY <2>1, <2>3 DEF TopInv, WalkEnds, Overflow, Start, CallHandler, vars, parseVars
  <2>4. ASSUME NEW ok \in BOOLEAN, Execute(ok) PROVE TopInv'
    BY <2>1, <2>4 DEF TopInv, WalkEnds, Execute, parseVars
  <2> QED BY <2>2, <2>3, <2>4, ReuseKeepsTop, DescendKeepsTop, ReturnKeepsTop DEF Next
<1> QED BY <1>1, <1>2, PlanInvariance, PTL DEF Spec

\* A request has the values of the handler's own parameters, and no others, as far
\* as it has executed the plan (dependencies.rs:322).
THEOREM GivenAsExecuted == Spec => []GivenSoFar
<1>1. Init => GivenSoFar
  BY DEF Init, GivenSoFar, GivenFrom
<1>2. PlanInv /\ GivenSoFar /\ [Next]_vars => GivenSoFar'
  <2> SUFFICES ASSUME PlanInv, GivenSoFar, [Next]_vars PROVE GivenSoFar'
    OBVIOUS
  <2>0. /\ plan \in Seq(Node) /\ Len(plan) \in Nat /\ executed \in 0 .. Len(plan)
        /\ given = GivenFrom(executed)
    BY DEF PlanInv, Types, GivenSoFar
  <2>1. ASSUME phase = "parsing", phase' = "parsing" \/ phase' = "crashed",
               UNCHANGED <<executed, given>>, Len(plan') \in Nat
        PROVE  GivenSoFar'
    <3>1. executed = 0 /\ executed' = 0 /\ given' = given
      BY <2>1 DEF GivenSoFar
    <3>2. given = {}
      BY <2>0, <3>1 DEF GivenFrom
    <3>3. given' = GivenFrom(executed)'
      BY <3>1, <3>2 DEF GivenFrom
    <3> QED BY <2>1, <3>1, <3>3 DEF GivenSoFar
  <2>2. CASE Reuse \/ Descend \/ Overflow
    BY <2>0, <2>1, <2>2 DEF Reuse, Descend, Overflow, Walking, parseVars
  <2>3. CASE Return
    <3>1. PlanInv'
      BY <2>3, ReturnKeepsPlan
    <3>2. Len(plan') \in Nat
      BY <3>1 DEF PlanInv, Types
    <3> QED BY <2>1, <2>3, <3>2 DEF Return, Complete
  <2>4. CASE Parsed
    <3>1. /\ phase = "parsing" /\ phase' = "ready"
          /\ UNCHANGED <<plan, executed, given>>
      BY <2>4 DEF Parsed, Complete, parseVars
    <3> QED BY <3>1 DEF GivenSoFar, GivenFrom
  <2>5. CASE Start
    <3>1. executed' = 0 /\ given' = {} /\ plan' = plan /\ phase' = "running"
      BY <2>5 DEF Start, parseVars
    <3> QED BY <2>0, <3>1 DEF GivenSoFar, GivenFrom
  <2>6. CASE CallHandler
    BY <2>6 DEF CallHandler, parseVars, GivenSoFar, GivenFrom
  <2>7. ASSUME NEW ok \in BOOLEAN, Execute(ok) PROVE GivenSoFar'
    <3>1. plan' = plan /\ phase' \in {"running", "failed"} /\ executed + 1 \in 1 .. Len(plan)
      BY <2>0, <2>7 DEF Execute, parseVars
    <3>2. CASE ~ok
      BY <2>0, <2>7, <3>1, <3>2 DEF Execute, GivenSoFar, GivenFrom
    <3>3. CASE ok
      <4>1. executed' = executed + 1
        BY <2>7, <3>3 DEF Execute
      <4>2. {j \in 1 .. executed + 1 : plan[j].top} =
              {j \in 1 .. executed : plan[j].top} \union
                (IF plan[executed + 1].top THEN {executed + 1} ELSE {})
        BY <2>0
      <4>3. GivenFrom(executed + 1) =
              IF plan[executed + 1].top
                THEN GivenFrom(executed) \union
                       {[param |-> plan[executed + 1].param, node |-> executed + 1]}
                ELSE GivenFrom(executed)
        BY <4>2 DEF GivenFrom
      <4>4. given' = GivenFrom(executed + 1)
        BY <2>0, <2>7, <3>3, <4>3 DEF Execute
      <4> QED BY <2>0, <3>1, <4>1, <4>4 DEF GivenSoFar, GivenFrom
    <3> QED BY <3>2, <3>3
  <2>8. CASE UNCHANGED vars
    BY <2>8 DEF vars, parseVars, GivenSoFar, GivenFrom
  <2> QED BY <2>2, <2>3, <2>4, <2>5, <2>6, <2>7, <2>8 DEF Next
<1> QED BY <1>1, <1>2, PlanInvariance, PTL DEF Spec

\* The handler is given at most one value for a parameter, and it is that of the
\* callable the parameter names; a parameter left without one is cached, and the
\* callable it names has a node made for another (dependencies.rs:322).
THEOREM HandlerIsGivenItsOwn == Spec => []GivenToItsParameter
<1>1. PlanInv /\ TopInv /\ GivenSoFar => GivenToItsParameter
  <2> SUFFICES ASSUME PlanInv, TopInv, GivenSoFar, phase = "called"
               PROVE  /\ \A g, h \in given : g.param = h.param => g = h
                      /\ \A g \in given :
                            /\ g.param \in 1 .. Len(graph[Handler])
                            /\ plan[g.node].func = graph[Handler][g.param].func
                      /\ \A k \in 1 .. Len(graph[Handler]) :
                            ~Receives(k) =>
                                /\ graph[Handler][k].cache
                                /\ \E i \in 1 .. Len(plan) :
                                      /\ plan[i].func = graph[Handler][k].func
                                      /\ ~(plan[i].top /\ plan[i].param = k)
    BY DEF GivenToItsParameter
  <2> DEFINE subs == stack[1].subs
  <2>1. Len(stack) = 1 /\ Len(subs) = Len(graph[Handler]) /\ stack[1].func = Handler
    BY DEF TopInv, WalkEnds, TopCalls
  <2>2. \A k \in 1 .. Len(graph[Handler]) :
           subs[k] \in 1 .. Len(plan) /\ plan[subs[k]].func = graph[Handler][k].func
    BY <2>1 DEF PlanInv, SubsRight
  <2>3. /\ \A i \in 1 .. Len(plan) : plan[i].top =>
              plan[i].param \in 1 .. Len(graph[Handler]) /\ subs[plan[i].param] = i
        /\ \A k \in 1 .. Len(graph[Handler]) : ~graph[Handler][k].cache =>
              plan[subs[k]].top /\ plan[subs[k]].param = k
    BY <2>1 DEF TopInv, TopNodes
  <2> HIDE DEF subs
  <2>4. \A g \in given : \E i \in 1 .. Len(plan) :
           plan[i].top /\ g = [param |-> plan[i].param, node |-> i]
    BY DEF GivenSoFar, GivenFrom
  <2>5. \A i \in 1 .. Len(plan) : plan[i].top => [param |-> plan[i].param, node |-> i] \in given
    BY DEF GivenSoFar, GivenFrom
  <2>6. ASSUME NEW g \in given, NEW h \in given, g.param = h.param PROVE g = h
    <3>1. PICK i \in 1 .. Len(plan) : plan[i].top /\ g = [param |-> plan[i].param, node |-> i]
      BY <2>4
    <3>2. PICK j \in 1 .. Len(plan) : plan[j].top /\ h = [param |-> plan[j].param, node |-> j]
      BY <2>4
    <3>3. plan[i].param = plan[j].param
      BY <2>6, <3>1, <3>2
    <3>4. i = j
      BY <2>3, <3>1, <3>2, <3>3
    <3> QED BY <3>1, <3>2, <3>4
  <2>7. ASSUME NEW g \in given
        PROVE  /\ g.param \in 1 .. Len(graph[Handler])
               /\ plan[g.node].func = graph[Handler][g.param].func
    <3>1. PICK i \in 1 .. Len(plan) : plan[i].top /\ g = [param |-> plan[i].param, node |-> i]
      BY <2>4
    <3>2. g.param = plan[i].param /\ g.node = i
      BY <3>1
    <3> QED BY <2>2, <2>3, <3>1, <3>2
  <2>8. ASSUME NEW k \in 1 .. Len(graph[Handler]), ~Receives(k)
        PROVE  /\ graph[Handler][k].cache
               /\ plan[subs[k]].func = graph[Handler][k].func
               /\ ~(plan[subs[k]].top /\ plan[subs[k]].param = k)
    <3>1. ASSUME plan[subs[k]].top /\ plan[subs[k]].param = k PROVE FALSE
      <4> DEFINE g == [param |-> plan[subs[k]].param, node |-> subs[k]]
      <4>1. g \in given /\ g.param = k /\ plan[g.node].func = graph[Handler][k].func
        BY <2>2, <2>5, <3>1
      <4> HIDE DEF g
      <4> QED BY <2>8, <4>1 DEF Receives
    <3> QED BY <2>2, <2>3, <3>1
  <2> QED BY <2>2, <2>6, <2>7, <2>8
<1> QED BY <1>1, PlanInvariance, TopInvariance, GivenAsExecuted, PTL

\* Type correctness.
THEOREM TypesAreRight == Spec => []TypeOK
<1>1. PlanInv /\ GivenSoFar => TypeOK
  <2> SUFFICES ASSUME PlanInv, GivenSoFar PROVE TypeOK
    OBVIOUS
  <2>1. Types
    BY DEF PlanInv
  <2>2. \A i \in 1 .. Len(plan) : plan[i].param \in Nat
    <3> SUFFICES ASSUME NEW i \in 1 .. Len(plan) PROVE plan[i].param \in Nat
      OBVIOUS
    <3>1. plan[i] \in Node
      BY <2>1 DEF Types
    <3> QED BY <3>1 DEF Node
  <2>3. given \subseteq [param : Nat, node : 1 .. Len(plan)]
    BY <2>1, <2>2 DEF Types, GivenSoFar, GivenFrom
  <2> QED BY <2>1, <2>3, DependenciesAssumption DEF TypeOK, Types, Phases, GivenSoFar
<1> QED BY <1>1, PlanInvariance, GivenAsExecuted, PTL

=============================================================================
