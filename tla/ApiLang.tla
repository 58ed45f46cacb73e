------------------------------- MODULE ApiLang -------------------------------
(***************************************************************************)
(* The .api description language (api/lexer.rs, parser.rs, codegen.rs): a  *)
(* file is cut into tokens, the tokens are parsed in one pass without      *)
(* going back, and code is generated from the tree.  What a file declares  *)
(* is chosen first and written down as api/mod.rs documents the syntax;    *)
(* the question is whether the parser reads the same thing back.           *)
(***************************************************************************)
EXTENDS Naturals, Sequences, SequencesExt

CONSTANTS
    Declared,     \* the trees whose files are parsed: [syntax, info, types, services]
    Endings       \* how a line may end: sequences of lexemes

VARIABLES
    declared,     \* the tree behind the file
    intact,       \* whether the file is as the tree demands
    tokens,       \* what tokenize() made of the file
    pos,          \* Parser::pos, from 1
    mode,         \* "file", "info", "type", "service", "done" or "error"
    tree,         \* the ApiFile under construction
    code          \* what generate() made of the tree: [types, handlers, routes]

apiVars == <<declared, intact, tokens, pos, mode, tree, code>>

Lex(kind, value) == [k |-> kind, v |-> value]
Word(w) == Lex("Ident", w)
Mark(kind) == Lex(kind, "")
Absent == "absent"

------------------------------------------------------------------------------
(***************************************************************************)
(* The lexer.  A source is a sequence of lexemes, blanks left out; a       *)
(* quoted text is one lexeme, with or without its closing quote.           *)
(***************************************************************************)
\* A comment runs to the end of its line, and the newline stays.
InComment(src, i) ==
    \E j \in 1..(i - 1) : src[j].k = "Comment" /\ \A n \in j..i : src[n].k # "Newline"

\* read_string() without a closing quote takes the rest of the file.
Unterminated(src) == {i \in DOMAIN src : src[i].k = "OpenString" /\ ~InComment(src, i)}

tokenize(src) ==
    LET end   == IF Unterminated(src) = {} THEN Len(src) ELSE CHOOSE i \in Unterminated(src) : TRUE
        read  == [i \in 1..end |-> IF src[i].k = "OpenString" THEN Lex("String", "rest") ELSE src[i]]
        kept  == SelectSeq([i \in 1..end |-> <<i, read[i]>>],
                           LAMBDA t : t[2].k # "Comment" /\ ~InComment(src, t[1]))
    IN  [i \in 1..Len(kept) |-> kept[i][2]] \o <<Mark("Eof")>>

------------------------------------------------------------------------------
(***************************************************************************)
(* Files as api/mod.rs documents them.                                     *)
(***************************************************************************)
Written(t) == IF t = Absent THEN <<>> ELSE <<Mark("LParen"), Word(t), Mark("RParen")>>

RouteLines(r, nl) ==
    <<Mark("At"), Word("handler"), Word(r.handler)>> \o nl \o <<Word(r.method)>> \o r.path
      \o Written(r.request)
      \o (IF r.response = Absent THEN <<>> ELSE <<Word("returns")>> \o Written(r.response)) \o nl

FieldLine(f, nl) ==
    <<Word(f.name), Word(f.ty)>> \o (IF f.tag = Absent THEN <<>> ELSE <<Lex("Backtick", f.tag)>>) \o nl

Block(head, lines, tail) == head \o FlattenSeq(lines) \o tail

FileOf(d, nl) ==
    <<Word("syntax"), Mark("Eq"), Lex("String", d.syntax)>> \o nl
      \o Block(<<Word("info"), Mark("LParen")>> \o nl,
               [i \in DOMAIN d.info |-> <<Word(d.info[i][1]), Mark("Colon"), Lex("String", d.info[i][2])>> \o nl],
               <<Mark("RParen")>> \o nl)
      \o FlattenSeq([i \in DOMAIN d.types |->
           Block(<<Word("type"), Word(d.types[i].name), Mark("LBrace")>> \o nl,
                 [j \in DOMAIN d.types[i].fields |-> FieldLine(d.types[i].fields[j], nl)],
                 <<Mark("RBrace")>> \o nl)])
      \o FlattenSeq([i \in DOMAIN d.services |->
           Block(<<Word("service"), Word(d.services[i].name), Mark("LBrace")>> \o nl,
                 [j \in DOMAIN d.services[i].routes |-> RouteLines(d.services[i].routes[j], nl)],
                 <<Mark("RBrace")>>)])

------------------------------------------------------------------------------
(***************************************************************************)
(* The parser: one action for each declaration or entry it reads.          *)
(***************************************************************************)
NoFile == [syntax |-> "v1", info |-> <<>>, types |-> <<>>, services |-> <<>>]
NoCode == [types |-> <<>>, handlers |-> <<>>, routes |-> <<>>]

\* Files that are not as they should be: cut off, with a quote not closed, or
\* with something in front.
Damaged(src) ==
    {SubSeq(src, 1, n) : n \in 0..(Len(src) - 1)}
      \cup {ReplaceAt(src, i, Mark("OpenString")) : i \in {j \in DOMAIN src : src[j].k = "String"}}
      \cup {<<Lex("Number", "1")>> \o src, <<Word("import")>> \o src}

ApiInit ==
    /\ declared \in Declared
    /\ \E nl \in Endings : LET src == FileOf(declared, nl) IN
         \/ intact = TRUE /\ tokens = tokenize(src)
         \/ intact = FALSE /\ \E f \in Damaged(src) : tokens = tokenize(f)
    /\ pos = 1 /\ mode = "file" /\ tree = NoFile /\ code = NoCode

\* peek(): past the end there is nothing, which no check() accepts.
Peek(p) == IF p <= Len(tokens) THEN tokens[p] ELSE Mark("None")

Kinds(p, ks) == \A i \in 1..Len(ks) : Peek(p + i - 1).k = ks[i]

\* The first position from p on that holds none of these kinds.
Beyond(p, ks) ==
    CHOOSE q \in p..(Len(tokens) + 1) :
        /\ Peek(q).k \notin ks
        /\ \A n \in p..(q - 1) : Peek(n).k \in ks

skip_newlines(p) == Beyond(p, {"Newline"})

Keyword(w) == mode = "file" /\ Peek(pos) = Word(w)

\* The ? operator: the first error ends parse().
Fail == mode' = "error" /\ UNCHANGED <<declared, intact, tokens, pos, tree, code>>

\* Reads on behind p with a changed tree.
Continue(p, m, t) ==
    /\ pos' = skip_newlines(p) /\ mode' = m /\ tree' = t
    /\ UNCHANGED <<declared, intact, tokens, code>>

parse_syntax ==
    /\ Keyword("syntax")
    /\ IF Kinds(pos, <<"Ident", "Eq", "String">>)
       THEN Continue(pos + 3, "file", [tree EXCEPT !.syntax = Peek(pos + 2).v]) ELSE Fail

\* A second info block replaces the first.
parse_info ==
    /\ Keyword("info")
    /\ IF Kinds(pos, <<"Ident", "LParen">>)
       THEN Continue(pos + 2, "info", [tree EXCEPT !.info = <<>>]) ELSE Fail

parse_type_def ==
    /\ Keyword("type")
    /\ IF Kinds(pos, <<"Ident", "Ident", "LBrace">>)
       THEN Continue(pos + 3, "type",
                     [tree EXCEPT !.types = Append(@, [name |-> Peek(pos + 1).v, fields |-> <<>>])])
       ELSE Fail

parse_service ==
    /\ Keyword("service")
    /\ IF Kinds(pos, <<"Ident", "Ident", "LBrace">>)
       THEN Continue(pos + 3, "service",
                     [tree EXCEPT !.services = Append(@, [name |-> Peek(pos + 1).v, routes |-> <<>>])])
       ELSE Fail

UnknownKeyword ==
    /\ mode = "file" /\ Peek(pos).k = "Ident"
    /\ Peek(pos).v \notin {"syntax", "info", "type", "service"}
    /\ Fail

InfoPair ==
    /\ mode = "info" /\ Peek(pos).k = "Ident"
    /\ IF Kinds(pos, <<"Ident", "Colon", "String">>)
       THEN Continue(pos + 3, mode, [tree EXCEPT !.info = Append(@, <<Peek(pos).v, Peek(pos + 2).v>>)])
       ELSE Fail

Field ==
    /\ mode = "type" /\ Peek(pos).k = "Ident"
    /\ IF Kinds(pos, <<"Ident", "Ident">>)
       THEN LET tagged == Peek(pos + 2).k = "Backtick"
                f == [name |-> Peek(pos).v, ty |-> Peek(pos + 1).v,
                      tag |-> IF tagged THEN Peek(pos + 2).v ELSE Absent]
            IN  Continue(pos + (IF tagged THEN 3 ELSE 2), mode,
                         [tree EXCEPT !.types[Len(tree.types)].fields = Append(@, f)])
       ELSE Fail

\* The wrong variant: a path has no numbers.
MutantPathEnd(p) == Beyond(p, {"Ident", "Colon", "Slash"})

\* expect_path() takes every identifier, number, colon and slash that follows.
PathEnd(p) == Beyond(p, {"Ident", "Number", "Colon", "Slash"})

\* "(Name)" at p, or nothing.
OptionalType(p) ==
    IF Peek(p).k # "LParen" THEN [ok |-> TRUE, name |-> Absent, next |-> p]
    ELSE [ok |-> Kinds(p, <<"LParen", "Ident", "RParen">>), name |-> Peek(p + 1).v, next |-> p + 3]

\* "returns (Name)" at p, or nothing.
Returns(p) ==
    IF Peek(p) # Word("returns") THEN [ok |-> TRUE, name |-> Absent, next |-> p]
    ELSE [OptionalType(p + 1) EXCEPT !.ok = @ /\ Peek(p + 1).k = "LParen"]

\* Compared in lower case; the case of a word is left out here.
Methods == {"get", "post", "put", "delete", "patch", "head"}

parse_route ==
    /\ mode = "service" /\ Peek(pos).k = "At"
    /\ LET m    == skip_newlines(pos + 3)
           path == PathEnd(m + 1)
           req  == OptionalType(path)
           resp == Returns(req.next)
       IN  IF /\ Kinds(pos, <<"At", "Ident", "Ident">>) /\ Peek(pos + 1) = Word("handler")
              /\ Peek(m).k = "Ident" /\ Peek(m).v \in Methods
              /\ path > m + 1 /\ req.ok /\ resp.ok
           THEN Continue(resp.next, mode,
                  [tree EXCEPT !.services[Len(tree.services)].routes =
                     Append(@, [handler |-> Peek(pos + 2).v, method |-> Peek(m).v,
                                path |-> SubSeq(tokens, m + 1, path - 1),
                                request |-> req.name, response |-> resp.name])])
           ELSE Fail

EntryStart == [file |-> {"Ident", "Eof"}, info |-> {"Ident", "RParen", "Eof"},
               type |-> {"Ident", "RBrace", "Eof"}, service |-> {"At", "RBrace", "Eof"}]

\* Whatever starts nothing is passed over without a word.
SkipToken ==
    /\ mode \in DOMAIN EntryStart /\ Peek(pos).k \notin EntryStart[mode]
    /\ Continue(pos + 1, mode, tree)

CloseBlock ==
    /\ \/ mode = "info" /\ Peek(pos).k = "RParen"
       \/ mode \in {"type", "service"} /\ Peek(pos).k = "RBrace"
    /\ Continue(pos + 1, "file", tree)

\* expect(RParen) or expect(RBrace) at the end of the file.
BlockNotClosed == mode \in {"info", "type", "service"} /\ Peek(pos).k = "Eof" /\ Fail

AllRoutes == FlattenSeq([i \in DOMAIN tree.services |-> tree.services[i].routes])

\* codegen: a struct for each type, a handler and a registration for each route.
generate ==
    [types    |-> tree.types,
     handlers |-> [i \in DOMAIN AllRoutes |->
                     [name |-> AllRoutes[i].handler, req |-> AllRoutes[i].request, resp |-> AllRoutes[i].response]],
     routes   |-> [i \in DOMAIN AllRoutes |->
                     [path |-> AllRoutes[i].path, method |-> AllRoutes[i].method, handler |-> AllRoutes[i].handler]]]

Finish ==
    /\ mode = "file" /\ Peek(pos).k = "Eof"
    /\ mode' = "done" /\ code' = generate
    /\ UNCHANGED <<declared, intact, tokens, pos, tree>>

ApiNext ==
    \/ parse_syntax \/ parse_info \/ parse_type_def \/ parse_service \/ UnknownKeyword
    \/ InfoPair \/ Field \/ parse_route \/ SkipToken \/ CloseBlock \/ BlockNotClosed \/ Finish

ApiSpec == ApiInit /\ [][ApiNext]_apiVars
------------------------------------------------------------------------------
(***************************************************************************)
(* api/mod.rs documents a syntax: a file written in it is parsed without   *)
(* error, into the tree it declares, comments and blank lines or not, and  *)
(* the code generated from it registers every declared route and has a     *)
(* handler of the declared request and response for it.  A damaged file is *)
(* refused, or read as the declarations before the damage: never as half a *)
(* type or service.                                                        *)
(***************************************************************************)
DeclaredIsParsed ==
    /\ intact => mode # "error"
    /\ intact /\ mode = "done" =>
         /\ tree = declared
         /\ \A s \in Range(declared.services) : \A r \in Range(s.routes) :
              \E i \in DOMAIN code.routes :
                /\ code.routes[i] = [path |-> r.path, method |-> r.method, handler |-> r.handler]
                /\ code.handlers[i] = [name |-> r.handler, req |-> r.request, resp |-> r.response]
    /\ ~intact /\ mode = "done" =>
         IsPrefix(tree.types, declared.types) /\ IsPrefix(tree.services, declared.services)
=============================================================================
