------------------------------- MODULE MCFiles -------------------------------
(***************************************************************************)
(* What is read from files, besides the revisions of MCEvolution:          *)
(* directories of one to three documents, values to take paths in, and a   *)
(* documentation tree with Markdown in which one block stands before the   *)
(* rest.                                                                   *)
(***************************************************************************)
EXTENDS MCEvolution, GtsJsonValidator

MCParentOf == [s \in {"t1", "t2", "t3", "i1", "i2"} |->
                  CASE s = "t1" -> None
                    [] s \in {"t2", "i1"} -> "t1"
                    [] OTHER -> "t2"]

Dialect == Bare("b")
Saying0(schema, dollar, gtsId, id, type) ==
    [f \in Fields |->
        CASE f = "$schema" -> schema [] f = "$id" -> dollar [] f = "gtsId" -> gtsId
          [] f = "id" -> id [] f = "type" -> type [] OTHER -> None]

Contents ==
    {Saying0(schema, dollar, gtsId, id, type) :
        schema \in {None, Dialect},
        dollar \in {None, Uri("t1"), Uri("t2"), Uri("i2"), Bare("t1"), Bare("a"), Bare("b")},
        gtsId \in {None, Bare("t2")}, id \in {None, Bare("i2"), Bare("b"), Uri("t1")},
        type \in {None, Bare("t1"), Bare("i1")}}

File(name, content) == Met("file", <<>>, name, <<content>>, <<name>>)
OneFile(content) == <<File("f1", content)>>
Entities == [asks |-> {"entity"}, values |-> {}, docs |-> {OneFile(content) : content \in Contents}]

(* Documents that mention one another, cycles included.                    *)
TypeSchema(id, gtsId, other) == Saying0(Dialect, Uri(id), gtsId, other, None)
Instance(id, type) == Saying0(None, None, None, id, type)

Mentioning ==
    {TypeSchema("t1", x, y) : x \in {None, Bare("i2"), Bare("t3")}, y \in {None, Bare("t2"), Bare("i1")}}
    \cup {TypeSchema("t2", Bare("t1"), Bare("i2")), TypeSchema("t2", Bare("i1"), None)}
    \cup {Instance(i, y) : i \in {Bare("i1"), Bare("i2"), Bare("a"), None}, y \in {None, Bare("t1"), Bare("i2")}}

Directories ==
    [asks |-> {"directory"}, values |-> {},
     docs |->
        {<<File("f1", x), File("f2", y), File("f1", x)>> : x, y \in Mentioning}
        \cup {<<Met("dir", <<"src">>, "d1", <<>>, <<>>),
                Met("file", <<"src">>, "f1", <<TypeSchema("t1", Bare("t2"), None), x, y>>,
                    <<"f1#0", "f1#1", "f1#2">>)>> :
                x \in {TypeSchema("t2", Bare("i1"), Bare("i2")), Instance(None, Bare("t1"))},
                y \in Mentioning}]

PathValues ==
    LET leaf == {Num(2), Str("a"), Arr(<<>>), Obj(Props(None, None))}
        once == leaf \cup {Obj(Props(x, y)) : x, y \in {None} \cup leaf}
                  \cup {Arr(<<x, y>>) : x, y \in leaf}
    IN  [asks |-> {"paths"}, values |-> {},
         docs |-> once \cup {Obj(Props(x, None)) : x \in once} \cup {Arr(<<x>>) : x \in once}]

-----------------------------------------------------------------------------
LoadedFrom(files) == Populated(FlattenSeq([k \in DOMAIN files |-> ProcessFile(files[k])]))
Loaded == LoadedFrom(CollectFiles(old))

(* The key of a schema document.  Where its $id is a URI of a type id, that *)
(* is its key, and what it says of the type above is what the id says,     *)
(* whatever way it takes into the store: add_schemas, add_entity or a file. *)
(* Otherwise the ways part, and the type above is not known.  add_schemas   *)
(* refuses the document (declared_type_id).  For add_entity and in a file  *)
(* it has no key either when its $id is an identifier of another kind or   *)
(* is spelled without the prefix; when its $id is absent or some other     *)
(* text, its key is the first identifier in its other fields, of whatever  *)
(* kind (extract_type_ids, see SchemasKeyedByTypes).  Where a document is  *)
(* read from never becomes its key.                                        *)
Keyed ==
    AskedOfOne("entity") =>
        LET content == old[1].contents[1]
            dollar == content["$id"]
            entity == Entity(content, None)
            declared == DeclaredTypeId(content)
            others == {content[f].text :
                          f \in {f \in {"gtsId", "id"} : content[f] # None /\ ~content[f].uri
                                                         /\ IsId(content[f].text)}}
        IN  IF entity.is_schema
            THEN /\ Entity(content, "f1") = entity
                 /\ declared # None =>
                       entity.effective_id = declared /\ entity.type_id = ParentOf[declared]
                 /\ declared = None =>
                       /\ entity.type_id = None
                       /\ IF (dollar # None /\ (BareId(dollar) \/ IsId(dollar.text))) \/ others = {}
                          THEN entity.effective_id = None
                          ELSE entity.effective_id \in others
            ELSE declared = None

(* "A Type Schema must be keyed by a *type* id (ending in `~`)."           *)
SchemasKeyedByTypes ==
    AskedOfOne("entity") =>
        LET entity == Entity(old[1].contents[1], None)
        IN  entity.is_schema /\ entity.effective_id # None => IsTypeId(entity.effective_id)

Mentions(R, id) ==
    IF id \notin DOMAIN R THEN {}
    ELSE ({R[id].content[f].text :
              f \in {f \in Fields : R[id].content[f] # None /\ ~R[id].content[f].uri
                                      /\ IsId(R[id].content[f].text)}}
            \cup {R[id].type_id}) \ {None}

RECURSIVE Mentioned(_, _)
Mentioned(R, ids) ==
    LET more == ids \cup UNION {Mentions(R, id) : id \in ids}
    IN  IF more = ids THEN ids ELSE Mentioned(R, more)

(* The graph of an entity shows all that it leads to, through cycles too:  *)
(* each id is opened once, wherever it is met first, and every mention of  *)
(* it elsewhere is shown (gts2node).                                       *)
Complete(R, id, nodes, mentioned) ==
    LET under(x) == {nodes[k].edge.id : k \in {k \in DOMAIN nodes : nodes[k].edge.under = x}}
        opened(x) == {k \in DOMAIN nodes : nodes[k].edge.id = x /\ nodes[k].expanded}
    IN  /\ {nodes[k].edge.id : k \in DOMAIN nodes} = mentioned
        /\ \A x \in mentioned :
              /\ Cardinality(opened(x)) = 1
              /\ Mentions(R, x) \ {x} \subseteq under(x)

GraphComplete ==
    AskedOfOne("directory") =>
        \A R \in {Loaded} : \A id \in DOMAIN R \cup {"t1"} :
            Complete(R, id, SchemaGraph(R, id), Mentioned(R, {id}))

SelectedIn(R, pattern, filters) ==
    {id \in DOMAIN R :
        /\ R[id].gts_id \in Selects[pattern]
        /\ \A f \in DOMAIN filters :
              LET v == R[id].content[f]
              IN  v # None /\ (filters[f] # Star => v = filters[f])}

Answers(found, selected, limit) ==
    /\ Range(found) \subseteq selected /\ IsInjective(found)
    /\ Len(found) = Min({limit, Cardinality(selected)})

QueriesAnswered(R) ==
    \A pattern \in {"t1", "t2"}, filters \in {<<>>, "type" :> Star, "type" :> Bare("t1")},
       limit \in 0 .. 2, order \in SetToSeqs(DOMAIN R) :
        Answers(Query(R, order, pattern, filters, limit), SelectedIn(R, pattern, filters), limit)

Segments == {Key(n) : n \in Names} \cup {Index(i, b) : i \in 0 .. 2, b \in BOOLEAN}

PathsListed(v) ==
    \A path \in UNION {[1 .. k -> Segments] : k \in 1 .. 3} :
        LET listed(segment) ==
                IF "index" \in DOMAIN segment THEN Index(segment.index, TRUE) ELSE segment
        IN  Resolve(v, path) # None
              <=> [k \in DOMAIN path |-> listed(path[k])] \in ListAvailable(v)

(* A query returns as many of the entities it selects as its limit allows, *)
(* and nothing else, whatever order the store is in; the fields offered    *)
(* where a path into an entity fails are the paths that do not.            *)
QueryHonest ==
    /\ AskedOfOne("directory") => \A R \in {Loaded} : QueriesAnswered(R)
    /\ AskedOfOne("paths") => PathsListed(old)

-----------------------------------------------------------------------------
(* Directories of three files for the command that validates them, in every *)
(* order.                                                                  *)

File0(places, documents) == [places |-> places, documents |-> documents]
Path(kind, met) == [kind |-> kind, met |-> met]
Single(place, document) == File0(<<place>>, <<document>>)

Sound(content) == Submitted(content, FALSE, FALSE)

Submissions ==
    {Sound(TypeSchema("t1", None, None)), Submitted(TypeSchema("t1", None, None), FALSE, TRUE),
     Sound(TypeSchema("t2", None, Bare("i2"))), Submitted(Instance(Bare("t1"), None), TRUE, FALSE),
     Sound(TypeSchema("i2", None, None)), Sound(Saying0(Dialect, Bare("t1"), None, None, None)),
     Sound(Instance(Bare("i1"), None)), Submitted(Instance(Bare("i1"), None), FALSE, TRUE),
     Sound(Instance(None, Bare("t1"))), Sound(Instance(Bare("a"), Bare("t2"))),
     Sound(Instance(Bare("a"), None)), Sound(Instance(Bare("b"), None))}

Submitting ==
    [asks |-> {"report"}, values |-> {},
     docs |->
        {Path("dir", <<Single("f1", x), Single("f2", y), Single("f3", z)>>) : x, y, z \in Submissions}
        \cup {Path("dir", <<File0(<<"f1#0", "f1#1">>, <<x, y>>), File0(<<"f2">>, None)>>) :
                x, y \in Submissions}
        \cup {Path("dir", <<Single("f1", x), Single("f2", y), Single("f1", x)>>) : x, y \in Submissions}
        \cup {Path(kind, <<File0(<<"f1#0", "f1#1">>, <<x, y>>)>>) :
                x, y \in Submissions, kind \in {"json", "other", "missing"}}]

-----------------------------------------------------------------------------
Orders(met) == {[k \in DOMAIN met |-> met[p[k]]] : p \in Permutations(DOMAIN met)}
Everything(files) ==
    UNION {IF f.documents = None THEN {}
           ELSE {[of |-> f.documents[k], at |-> f.places[k]] : k \in DOMAIN f.documents} : f \in ToSet(files)}

(* A directory is reported to be in order only if it is, document by       *)
(* document: all files were read, and every document that mentions an      *)
(* identifier is registered, under an id of its own, and valid along with  *)
(* the types it rests on.  The verdict depends on the files alone, not on  *)
(* the order they are read in (GtsJsonValidator::validate).                *)
ReportSound ==
    AskedOfOne("report") =>
        \A reports \in {[met \in Orders(old.met) |-> Report(Path(old.kind, met))]} :
            LET report == reports[old.met] IN
            /\ report.ok =>
                  /\ old.kind \in {"dir", "json"}
                  /\ \A f \in ToSet(old.met) : f.documents # None
                  /\ \A d \in Everything(old.met) :
                        /\ ~d.of.odd
                        /\ (\E f \in Fields : d.of.content[f] # None /\ d.of.content[f].text # "b") =>
                              \E id \in DOMAIN report.store :
                                 /\ report.store[id].at = d.at
                                 /\ \A type \in {type \in {"t1", "t2"} :
                                                   \/ report.store[id].entity.type_id = type
                                                   \/ id = type /\ report.store[id].entity.is_schema} :
                                      type \in DOMAIN report.store /\ ~report.store[type].document.fault
                                 /\ ~d.of.fault
            /\ \A met \in Orders(old.met) : reports[met].ok = report.ok

-----------------------------------------------------------------------------
(* Documentation trees.                                                    *)

Scan == INSTANCE GtsScan WITH
    ExampleVendors <- {"acme"}, GrammarLanguages <- {"ebnf"}, SkipDirs <- {"vendor"}

Any0 == [kind |-> "any", vendors |-> {}]
Must(v) == [kind |-> "must", vendors |-> {v}]
AllowList(vs) == [kind |-> "list", vendors |-> vs]

Good(v) == Scan!Candidate(TRUE, v)
Candidates ==
    {Good(v) : v \in {"x", "y", "acme"}} \cup {Scan!Candidate(FALSE, v) : v \in {"x", ""}}
      \cup {[Good(v) EXCEPT !.star = TRUE] : v \in {"x", ""}}
      \cup {[Good("x") EXCEPT !.uri = TRUE, !.fragment = f] : f \in BOOLEAN}

Found(c, welcome, bad_example) == [candidate |-> c, welcome |-> welcome, bad_example |-> bad_example]
Line(found) == [length |-> 0, char |-> "", language |-> "", found |-> found]
Fence(char, length, language) == [length |-> length, char |-> char, language |-> language, found |-> <<>>]

Leaf(reads) == [reads |-> reads]
Id(c) == [reads |-> "id", candidate |-> c]
Plain0(name) == [name |-> name]
TreeOf(members) == [members |-> members]
Member(key, value) == [key |-> key, value |-> value]

Keys == {Plain0(k) : k \in Scan!ReferenceKeys \cup {Scan!PatternKey, "title"}}
ScannedLeaves == {Id(c) : c \in Candidates} \cup {Leaf(r) : r \in {"own id", "pointer", "star", "file name", "prose"}}
Trees0 ==
    {TreeOf({Member(k, v)}) : k \in Keys, v \in ScannedLeaves}
      \cup {TreeOf({Member(Plain0(Scan!PatternKey), [items |-> {v}])}) : v \in ScannedLeaves}
      \cup {TreeOf({Member([name |-> "id", candidate |-> c], Leaf("prose")), Member(Plain0("title"), Id(Good("x")))}) :
              c \in Candidates}

Met0(name, format, size, content) ==
    [is |-> "file", way |-> <<"src">>, name |-> name, format |-> format, excluded |-> FALSE,
     readable |-> TRUE, size |-> size, content |-> content]

Markdown0 == {Met0("f1", "md", 1, <<Line(<<Found(c, w, b)>>)>>) : c \in Candidates, w, b \in BOOLEAN}
Json0 == {Met0("f1", "json", 1, <<tree>>) : tree \in Trees0}
Yaml0 == {Met0("f1", "yaml", 1, <<tree, last>>) :
            tree \in Trees0, last \in {Scan!Unparsed, TreeOf({Member(Plain0("title"), Id(Good("y")))})}}

Plainly == Met0("f2", "md", 2, <<Line(<<Found(Good("x"), FALSE, FALSE)>>)>>)
Wrong == Met0("f3", "json", 1, <<Id(Scan!Candidate(FALSE, "x"))>>)
Others ==
    {Plainly, Wrong, [Plainly EXCEPT !.readable = FALSE], [Plainly EXCEPT !.size = 4],
     [Plainly EXCEPT !.is = "walk error"], [Plainly EXCEPT !.is = "outside", !.format = "other"],
     [Plainly EXCEPT !.is = "device"], [Wrong EXCEPT !.format = "other"], [Wrong EXCEPT !.excluded = TRUE],
     [Wrong EXCEPT !.way = <<"src", "vendor">>], [Wrong EXCEPT !.way = <<"src", "a", "b">>],
     Met0("f3", "json", 1, <<Scan!Unparsed>>), Met0("f3", "yaml", 1, <<Scan!Unparsed, Id(Good("x"))>>)}

Config(policy, scan_keys, files, bytes, broken) ==
    [policy |-> policy, scan_keys |-> scan_keys, max_files |-> files, max_total_bytes |-> bytes,
     max_file_size |-> 3, max_depth |-> 2, broken |-> broken, missing |-> FALSE]

Policies == {Any0, Must("x"), AllowList({"x"}), AllowList({"x", "y"}), AllowList({"y"})}

Scanned0(met, config) == [met |-> met, config |-> config]

Scanning ==
    [asks |-> {"scan"}, values |-> {},
     docs |->
        {Scanned0(<<f, Plainly>>, Config(p, keys, 3, 9, 0)) :
            f \in Markdown0 \cup Json0 \cup Yaml0, p \in Policies, keys \in BOOLEAN}
        \cup {Scanned0(<<x, y, z>>, Config(Any0, FALSE, files, bytes, broken)) :
            x, y, z \in Others, files \in {2, 3}, bytes \in {4, 9}, broken \in {0, 1}}
        \cup {Scanned0(<<Plainly>>, [Config(Any0, FALSE, 3, 9, 0) EXCEPT !.missing = TRUE])}]

(* A block that a line like its first closes, among them lines that do not *)
(* close it, and what follows.                                             *)
Insides(char) ==
    {Line(<<Found(Good("y"), FALSE, FALSE)>>), Fence(IF char = "backtick" THEN "tilde" ELSE "backtick", 4, ""), Fence(char, 3, ""),
     Fence(char, 2, "")}
Rests ==
    LET wrong == Line(<<Found(Good("y"), FALSE, FALSE)>>)
    IN  {<<wrong>>, <<Fence("backtick", 3, "rust"), wrong, Fence("backtick", 3, ""), wrong>>,
         <<wrong, Fence("tilde", 3, "ebnf"), wrong, wrong>>}

Blocks ==
    [asks |-> {"blocks"}, values |-> {},
     docs |-> UNION {{[block |-> <<Fence(char, 4, language), x, y, Fence(char, n, "")>>, rest |-> rest] :
                        x, y \in Insides(char), language \in {"", "ebnf"}, n \in {4, 5}, rest \in Rests} :
                        char \in {"backtick", "tilde"}}]

-----------------------------------------------------------------------------
RECURSIVE LeavesOf(_, _)
LeavesOf(v, key) ==
    CASE "members" \in DOMAIN v -> UNION {LeavesOf(m.value, m.key.name) : m \in v.members}
      [] "items" \in DOMAIN v -> UNION {LeavesOf(item, "item") : item \in v.items}
      [] OTHER -> {[key |-> key, leaf |-> v]}

KeysOf(v) == IF "members" \in DOMAIN v THEN {m.key : m \in v.members} ELSE {}

(* What the documentation asks of an identifier: "All GTS IDs must match   *)
(* one of the listed vendors (example vendors are always tolerated)".      *)
RightVendor(c, policy) ==
    policy.kind = "any" \/ c.vendor \in policy.vendors \cup {"acme", ""}

RightId(c, policy, welcome) ==
    c.parses /\ (c.star => welcome) /\ ~(c.uri /\ c.fragment) /\ RightVendor(c, policy)

RightLeaf(at, policy) ==
    /\ at.leaf.reads = "id" => RightId(at.leaf.candidate, policy, at.key # "title" /\ at.key # "item")
    /\ at.key = Scan!PatternKey => at.leaf.reads = "own id" \/ (at.leaf.reads = "id" /\ ~at.leaf.candidate.uri)

RightFile(f, config) ==
    IF f.format = "md"
    THEN \A k \in DOMAIN f.content : \A found \in ToSet(f.content[k].found) :
            found.bad_example \/ RightId(found.candidate, config.policy, found.welcome)
    ELSE \A d \in ToSet(f.content) :
            /\ d # Scan!Unparsed
            /\ \A at \in LeavesOf(d, "root") : RightLeaf(at, config.policy)
            /\ config.scan_keys =>
                  \A key \in KeysOf(d) : "candidate" \in DOMAIN key => RightId(key.candidate, config.policy, FALSE)

Encountered(config, met) == {e \in ToSet(met) : "vendor" \notin ToSet(e.way) /\ Len(e.way) <= config.max_depth}
Concerned(config, met) ==
    {e \in Encountered(config, met) : e.is = "file" /\ e.format \in {"md", "json", "yaml"} /\ ~e.excluded}

(* A block of lines says nothing about what follows it, whatever stands in *)
(* it: the rest is looked at as if it stood alone.                         *)
BlockContained(block, rest) ==
    LET scanned(lines) == Scan!ScanMarkdown(lines, {"x"})
    IN  /\ IsSuffix(scanned(rest), scanned(block \o rest))
        /\ block[1].language = "ebnf" => scanned(block \o rest) = scanned(rest)

(* A report is in order exactly if every file there was to look at was     *)
(* found, read whole and parsed, each identifier in it is right, and no    *)
(* limit left a file out: what fails is "never silently discarded"         *)
(* (validate_fs), and the sentinel that stands for a list of vendors in    *)
(* the scanners excuses and accuses nobody.  What a fenced block holds does *)
(* not leak into the lines behind it (scan_markdown_content).              *)
ScanHonest ==
    /\ AskedOfOne("scan") =>
        LET config == old.config
            files == Concerned(config, old.met)
            unmet == {e \in Encountered(config, old.met) : e.is \in {"walk error", "outside"}}
            right == /\ ~config.missing /\ config.broken = 0 /\ unmet = {}
                     /\ \A f \in files : f.readable /\ f.size <= config.max_file_size /\ RightFile(f, config)
            within == /\ Cardinality(files) <= config.max_files
                      /\ MapThenSumSet(LAMBDA f : f.size, files) <= config.max_total_bytes
        IN  Scan!ValidateFs(old.met, config).ok <=> right /\ within
    /\ AskedOfOne("blocks") => BlockContained(old.block, old.rest)

-----------------------------------------------------------------------------
EntitiesFamilyOf(k) == Entities

FilesFamilyOf(k) ==
    CASE k <= Len(MCFamilies) -> MCFamilies[k]
      [] k = 12 -> Entities   [] k = 13 -> Directories   [] k = 14 -> Submitting
      [] k = 15 -> Scanning   [] k = 16 -> Blocks        [] k = 17 -> PathValues
=============================================================================
