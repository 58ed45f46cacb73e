------------------------------- MODULE MCData -------------------------------
(* Model-checking instance of what is stored, computed and generated: the     *)
(* cache and its helpers, migrations, the pure algorithms, the API language,  *)
(* and the example services (the bookstore's gateway and RPC services, the    *)
(* tenant management), and file uploads.  They share nothing: a behaviour is  *)
(* one of them (`part`).                                                      *)
EXTENDS CacheAside, Migration, Algorithms, ApiLang, BookGateway, BookServices, TenantManagement,
        Upload

CONSTANT Parts     \* the components a run looks at
VARIABLE part

\* Line ends, with blank lines and with a comment that looks like a declaration.
Nl == Mark("Newline")
MCEndings == {<<Nl>>, <<Nl, Nl>>, <<Mark("Comment"), Word("type"), Mark("LBrace"), Nl>>}

User == [name |-> "User",
         fields |-> <<[name |-> "Id", ty |-> "int64", tag |-> "json"],
                      [name |-> "Name", ty |-> "string", tag |-> Absent]>>]
Req == [name |-> "Req", fields |-> <<>>]

Users == <<Mark("Slash"), Word("users")>>
OneUser == Users \o <<Mark("Slash"), Mark("Colon"), Word("id")>>
Route(h, m, p, q, a) == [handler |-> h, method |-> m, path |-> p, request |-> q, response |-> a]
GetUser == Route("getUser", "get", OneUser, "Req", "User")
PostUser == Route("create", "post", Users, "Req", Absent)
HeadUser == Route("ping", "head", Users \o <<Mark("Slash"), Lex("Number", "1")>>, Absent, Absent)
ListUsers == Route("list", "get", Users, Absent, "User")

Service(n, routes) == [name |-> n, routes |-> routes]
Files(services) ==
    [syntax : {"v2"}, info : {<<>>, <<<<"title", "x">>, <<"desc", "y">>>>},
     types : {<<>>, <<User, Req>>}, services : services]

MCDeclared ==
    Files({<<>>, <<Service("user-api", <<HeadUser, GetUser>>)>>,
           <<Service("user-api", <<PostUser, HeadUser>>)>>,
           <<Service("a", <<HeadUser>>), Service("b", <<GetUser>>)>>})

\* Routes with a response and no request.
MCReturns == Files({<<Service("user-api", <<ListUsers>>)>>})

\* Uploads: names that are cleaned to one name, to none or to the directory, and
\* fields that are too large, of another type, or no file.
MCNameChars == {"a", "b", "x", ".", "/", "_"}
File(name, type, size) == [name |-> name, type |-> type, size |-> size]
MCAllowAll == [types |-> {}, extensions |-> {}, max_size |-> 2]
MCUpConfigs == {MCAllowAll, [types |-> {"image"}, extensions |-> {<<"x">>}, max_size |-> 2]}
MCForms == {<<>>,
            <<File(<<"a", "/", "b", ".", "x">>, "image", 2), File(<<".", ".">>, "image", 1)>>,
            <<File(NoName, "text", 1), File(<<"a", "_", "b", ".", "x">>, "image", 1)>>,
            <<File(<<"a", ".", ".", ".", "x">>, "image", 3)>>,
            <<File(<<"/", "/">>, "text", 1), File(<<".">>, "image", 0)>>}

\* What the parts that are not looked at start with; the parser has an empty file.
Fixed ==
    /\ part # "migration" => dir = {}
    /\ part # "books" => shelf = [t \in Titles |-> 1]
    /\ part # "upload" => form = [r \in Uploaders |-> <<>>] /\ upConfig = MCAllowAll

IdleApi ==
    /\ declared = CHOOSE d \in Declared : TRUE
    /\ intact = FALSE /\ tokens = <<Mark("Eof")>>
    /\ pos = 1 /\ mode = "file" /\ tree = NoFile /\ code = NoCode

Init ==
    /\ part \in Parts
    /\ CacheInit /\ MigrationInit /\ LibInit
    /\ GatewayInit /\ ServicesInit /\ TenantInit /\ UploadInit
    /\ Fixed
    /\ IF part = "api" THEN ApiInit ELSE IdleApi

Next ==
    /\ UNCHANGED part
    /\ \/ /\ part = "cache" /\ CacheNext
          /\ UNCHANGED <<migrationVars, lib, apiVars, gatewayVars, servicesVars, tenantVars, uploadVars>>
       \/ /\ part = "migration" /\ MigrationNext
          /\ UNCHANGED <<cacheVars, lib, apiVars, gatewayVars, servicesVars, tenantVars, uploadVars>>
       \/ /\ part = "library" /\ Examine
          /\ UNCHANGED <<cacheVars, migrationVars, apiVars, gatewayVars, servicesVars, tenantVars, uploadVars>>
       \/ /\ part = "api" /\ ApiNext
          /\ UNCHANGED <<cacheVars, migrationVars, lib, gatewayVars, servicesVars, tenantVars, uploadVars>>
       \/ /\ part = "gateway" /\ GatewayNext
          /\ UNCHANGED <<cacheVars, migrationVars, lib, apiVars, servicesVars, tenantVars, uploadVars>>
       \/ /\ part = "books" /\ BooksNext
          /\ UNCHANGED <<cacheVars, migrationVars, lib, apiVars, gatewayVars, orderVars, tenantVars, uploadVars>>
       \/ /\ part = "orders" /\ OrdersNext
          /\ UNCHANGED <<cacheVars, migrationVars, lib, apiVars, gatewayVars, bookVars, tenantVars, uploadVars>>
       \/ /\ part = "tenants" /\ TenantNext
          /\ UNCHANGED <<cacheVars, migrationVars, lib, apiVars, gatewayVars, servicesVars, uploadVars>>
       \/ /\ part = "upload" /\ UploadNext
          /\ UNCHANGED <<cacheVars, migrationVars, lib, apiVars, gatewayVars, servicesVars, tenantVars>>

allVars == <<part, cacheVars, migrationVars, lib, apiVars, gatewayVars, servicesVars, tenantVars, uploadVars>>
Spec == Init /\ [][Next]_allVars

\* Keys, callers of the cache and requests of the tenant example are interchangeable.
Interchangeable == Permutations(CacheKeys) \cup Permutations(Callers) \cup Permutations(TmRequests)
=============================================================================
