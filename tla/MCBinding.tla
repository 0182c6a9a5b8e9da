----------------------------- MODULE MCBinding ------------------------------
(***************************************************************************)
(* Instances of Binding for TLC.                                           *)
(***************************************************************************)
EXTENDS Binding

MCNames == {"a", "b", "x_y", "x-y", "z"}
MCDashed == [n \in MCNames |-> IF n = "x_y" THEN "x-y" ELSE n]

Written(name, ann, marker, default, alias, bounded) ==
    [name |-> name, ann |-> ann, marker |-> marker, default |-> default, alias |-> alias,
     bounded |-> bounded]
Bare(name, ann) == Written(name, ann, "none", "ellipsis", NoName, FALSE)
Defaulted(name, ann) == Written(name, ann, "plain", "ellipsis", NoName, FALSE)
Needed(name, ann, marker) == Written(name, ann, marker, "ellipsis", NoName, TRUE)
Optional(name, ann, marker, alias) == Written(name, ann, marker, "given", alias, FALSE)
Injected(name) == Written(name, "str", "depends", "ellipsis", NoName, FALSE)

Handler(params, path, plan) == [params |-> params, path |-> path, plan |-> plan]

\* Every source, by annotation and by class, aliases, and one name with two claims: in
\* the path and something else, a dependency's, another parameter's alias; a
\* Depends that no node is for; and README.md:80, a single parameter without annotation.
MCDeclarations ==
    {Handler(<<Bare("a", "int"), Bare("b", "str"), Bare("z", "tasks")>>, {"b", "z"}, {}),
     Handler(<<Defaulted("b", "int"), Optional("x_y", "str", "header", NoName)>>, {"b"}, {}),
     Handler(<<Needed("a", "str", "query"), Needed("b", "int", "path")>>, {"b"}, {}),
     Handler(<<Optional("a", "int", "query", "z"), Needed("x_y", "str", "header")>>, {}, {}),
     Handler(<<Needed("a", "int", "cookie"), Optional("b", "str", "query", "a")>>, {"b"}, {}),
     Handler(<<Injected("z"), Bare("a", "str"), Bare("b", "int")>>, {}, {"z", "b"}),
     Handler(<<Injected("z"), Injected("a")>>, {}, {"z"}),
     Handler(<<Bare("a", "model")>>, {}, {}),
     Handler(<<Defaulted("a", "model"), Bare("z", "str")>>, {}, {}),
     Handler(<<Needed("a", "int", "body")>>, {}, {}),
     Handler(<<Needed("a", "int", "form"), Bare("z", "upload")>>, {}, {}),
     Handler(<<Optional("a", "str", "form", "x-y"), Optional("z", "str", "file", "b")>>, {}, {}),
     Handler(<<Optional("a", "str", "form", "z"), Optional("z", "upload", "file", "b")>>, {}, {}),
     Handler(<<Optional("z", "upload?", "form", "x-y"), Defaulted("a", "upload?"), Bare("b", "upload")>>, {}, {}),
     Handler(<<Bare("a", "str")>>, {}, {}),
     Handler(<<Bare("a", "model"), Optional("z", "int", "body", NoName), Bare("b", "int")>>, {"b"}, {})}

MCConfigs ==
    {[body |-> NoLimit, field |-> 1, file |-> 2, strict |-> FALSE],
     [body |-> 3, field |-> NoLimit, file |-> 1, strict |-> TRUE],
     [body |-> 3, field |-> 2, file |-> NoLimit, strict |-> FALSE]}

It(key, text) == [key |-> key, text |-> text]
Part(key, text, file, size) == [key |-> key, text |-> text, file |-> file, size |-> size]
Content(type, sound, object, text, size, items) ==
    [type |-> type, sound |-> sound, object |-> object, text |-> text, size |-> size,
     items |-> items]

Parts == {<<>>, <<Part("a", "ok", FALSE, 1)>>, <<Part("a", "ok", FALSE, 2), Part("z", "bad", FALSE, 2)>>,
          <<Part("a", "bad", FALSE, 1), Part("a", "low", FALSE, 1)>>}
Uploads == {<<Part("b", "ok", TRUE, 2), Part("z", "ok", TRUE, 1)>>, <<Part("a", "ok", TRUE, 1), Part("z", "ok", TRUE, 2)>>,
            <<Part("x-y", "ok", FALSE, 2), Part(NoName, "ok", FALSE, 1)>>, <<Part("z", "ok", TRUE, 2), Part("a", "low", FALSE, 1)>>}

MCBodies ==
    {Content("json", FALSE, FALSE, "bad", size, <<>>) : size \in {0, 1}}
    \union {Content("json", TRUE, FALSE, text, 4, <<>>) : text \in {"ok", "bad"}}
    \union {Content("json", TRUE, TRUE, "ok", 2, parts) : parts \in Parts}
    \union {Content("urlencoded", TRUE, FALSE, "ok", 3, parts) : parts \in Parts}
    \union {Content("multipart", TRUE, FALSE, "ok", 3, parts) : parts \in Parts \union Uploads}
    \union {Content(type, FALSE, FALSE, "bad", 1, <<>>) : type \in {"urlencoded", "multipart"}}

MCRequests ==
    [path : {<<>>, <<It("b", "ok")>>, <<It("b", "bad")>>, <<It("z", "low"), It("b", "ok")>>},
     query : {<<>>, <<It("b", "ok"), It("a", "ok")>>, <<It("a", "bad"), It("a", "ok")>>,
              <<It("a", "bad"), It("z", "low")>>},
     header : {<<>>, <<It("x-y", "low")>>, <<It("x_y", "ok")>>},
     cookie : {<<>>, <<It("a", "ok")>>},
     body : MCBodies]
=============================================================================
