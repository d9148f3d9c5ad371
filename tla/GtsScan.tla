------------------------------- MODULE GtsScan -------------------------------
(***************************************************************************)
(* The tool that looks for identifiers in documentation and configuration  *)
(* files and reports those that are wrong (gts-validator): which files it  *)
(* finds and reads, what it looks at in Markdown, JSON and YAML, and what  *)
(* the vendor policy makes of it.                                          *)
(*                                                                         *)
(* A candidate is a text that looks like an identifier: whether it has a   *)
(* star, is wrapped as a URI (with a fragment, refused), parses, and the   *)
(* vendor it names, "" for none.                                           *)
(***************************************************************************)
EXTENDS Naturals, FiniteSetsExt, SequencesExt

CONSTANTS ExampleVendors, GrammarLanguages, SkipDirs

Candidate(parses, vendor) ==
    [parses |-> parses, vendor |-> vendor, star |-> FALSE, uri |-> FALSE, fragment |-> FALSE]

Error(why, vendor) == [why |-> why, vendor |-> vendor]

-----------------------------------------------------------------------------
(* One candidate.                                                          *)

(* The vendors the scanners are told to expect; no vendor is the sentinel  *)
(* that stands for a list.                                                 *)
EffectiveVendor(policy) ==
    CASE policy.kind = "any" -> {}
      [] policy.kind = "must" -> policy.vendors
      [] OTHER -> {"sentinel"}

ValidateCandidate(c, expected, allow_wildcards) ==
    IF c.star /\ ~allow_wildcards THEN {Error("wildcard", c.vendor)}
    ELSE IF ~c.parses THEN {Error("malformed", c.vendor)}
    ELSE IF expected # {} /\ c.vendor \notin expected \cup ExampleVendors \cup {""}
    THEN {Error("vendor", c.vendor)} ELSE {}

NormalizeAndValidate(c, expected, allow_wildcards) ==
    IF c.uri /\ c.fragment THEN {Error("malformed", "")}
    ELSE ValidateCandidate(c, expected, allow_wildcards)

(* Slip: the list excuses whatever is wrong with the ids of its vendors.   *)
ExcusedByList(errors, policy) ==
    IF policy.kind # "list" THEN errors ELSE {e \in errors : e.vendor \notin policy.vendors}

ApplyAllowListFilter(errors, policy) ==
    IF policy.kind # "list" THEN errors
    ELSE {e \in errors : e.why # "vendor" \/ e.vendor \notin policy.vendors}

-----------------------------------------------------------------------------
(* Markdown: a line is a fence, of a character and a length with a         *)
(* language, or the candidates on it, each with what is said before it.    *)

Prose == [in |-> "prose"]
FencedBlock(line) ==
    [in |-> "block", skip |-> line.language \in GrammarLanguages,
     char |-> line.char, length |-> line.length]

IsFence(line) == line.length >= 3

(* Slip: any fence closes a block.                                         *)
AnyCloses(state, line) == TRUE

Closes(state, line) == line.char = state.char /\ line.length >= state.length

NextState(state, line) ==
    IF ~IsFence(line) THEN state
    ELSE IF state = Prose THEN FencedBlock(line)
    ELSE IF Closes(state, line) THEN Prose ELSE state

(* What stands before a candidate says that it is a bad example, or that   *)
(* wildcards are welcome.                                                  *)
LineErrors(line, expected) ==
    UNION {NormalizeAndValidate(f.candidate, expected, f.welcome) :
              f \in {f \in ToSet(line.found) : ~f.bad_example}}

ScanMarkdown(lines, expected) ==
    LET step(acc, line) ==
            LET next == NextState(acc.state, line) IN
            IF next # acc.state \/ (next # Prose /\ next.skip) THEN [acc EXCEPT !.state = next]
            ELSE [acc EXCEPT !.errors = Append(@, LineErrors(line, expected))]
    IN  FoldLeft(step, [state |-> Prose, errors |-> <<>>], lines).errors

-----------------------------------------------------------------------------
(* JSON and YAML: a tree of leaves, members and items.  A leaf is a        *)
(* candidate, or a text that is none: a pointer into the document, the     *)
(* operand for its own id, a star, a file name, or prose.                  *)

ReferenceKeys == {"x-gts-type-ref", "x-gts-instance-ref"}
PatternKey == "x-gts-pattern-ref"

LeafErrors(leaf, key, expected) ==
    IF key = PatternKey
    THEN IF leaf.reads = "own id" THEN {}
         ELSE IF leaf.reads # "id" \/ leaf.candidate.uri THEN {Error("malformed", "")}
         ELSE ValidateCandidate(leaf.candidate, expected, TRUE)
    ELSE IF leaf.reads = "id"
    THEN NormalizeAndValidate(leaf.candidate, expected, key \in ReferenceKeys)
    ELSE {}

KeyErrors(key, expected, scan_keys) ==
    IF scan_keys /\ "candidate" \in DOMAIN key
    THEN NormalizeAndValidate(key.candidate, expected, FALSE) ELSE {}

RECURSIVE WalkJsonValue(_, _, _, _)
WalkJsonValue(v, key, expected, scan_keys) ==
    CASE "members" \in DOMAIN v ->
            UNION {KeyErrors(m.key, expected, scan_keys)
                     \cup WalkJsonValue(m.value, m.key.name, expected, scan_keys) : m \in v.members}
      [] "items" \in DOMAIN v ->
            UNION {WalkJsonValue(item, "item", expected, scan_keys) : item \in v.items}
      [] OTHER -> LeafErrors(v, key, expected)

ScanError(kind) == [kind |-> kind]
Scanned(errors, failures) == [errors |-> errors, failures |-> failures]

Unparsed == [unparsed |-> TRUE]

(* A stream with a document that does not parse is taken apart, and the    *)
(* documents that do are looked at; if none does, the file has failed.     *)
ScanYaml(documents, expected, scan_keys) ==
    LET parsed == {d \in ToSet(documents) : d # Unparsed}
    IN  Scanned(UNION {WalkJsonValue(d, "root", expected, scan_keys) : d \in parsed},
                {ScanError("yaml") : d \in ToSet(documents) \ parsed})

ScanJson(documents, expected, scan_keys) ==
    IF Unparsed \in ToSet(documents) THEN Scanned({}, {ScanError("json")})
    ELSE Scanned(WalkJsonValue(Head(documents), "root", expected, scan_keys), {})

-----------------------------------------------------------------------------
(* Files.                                                                  *)

(* What a walk meets, in order of path: what cannot be reached or lies     *)
(* outside the root is an error; what is no regular file, has another      *)
(* extension or is excluded is passed over, and so is all that is too deep *)
(* or below a directory of SkipDirs, the root being one of them.           *)
FindFiles(met, config) ==
    LET visited == SelectSeq(met, LAMBDA e : /\ ToSet(e.way) \cap SkipDirs = {}
                                             /\ Len(e.way) <= config.max_depth)
        wanted(e) == e.is = "file" /\ e.format \in {"md", "json", "yaml"} /\ ~e.excluded
        once(acc, e) == IF wanted(e) /\ e \notin ToSet(acc) THEN Append(acc, e) ELSE acc
    IN  [files |-> FoldLeft(once, <<>>, visited),
         failures |-> SelectSeq(visited, LAMBDA e : e.is \in {"walk error", "outside"})]

(* Slip: what cannot be read is passed over.                               *)
ReadOrNothing(file, config) == {}

ReadFileBounded(file, config) ==
    IF ~file.readable THEN {ScanError("io")}
    ELSE IF file.size > config.max_file_size THEN {ScanError("too large")} ELSE {}

ScanContent(file, expected, config) ==
    CASE file.format = "md" -> Scanned(UNION ToSet(ScanMarkdown(file.content, expected)), {})
      [] file.format = "json" -> ScanJson(file.content, expected, config.scan_keys)
      [] OTHER -> ScanYaml(file.content, expected, config.scan_keys)

Stop(acc) ==
    [acc EXCEPT !.stopped = TRUE, !.failed = @ + 1, !.failures = @ \cup {ScanError("limit")}]

(* A file that was read only in part counts as scanned and as failed.      *)
Count(acc, file, config, done) ==
    LET scanned == done.failures = {} \/ file.format = "yaml"
        failed == done.failures # {}
    IN  [acc EXCEPT !.bytes = @ + file.size,
                    !.scanned = IF scanned THEN @ + 1 ELSE @,
                    !.failed = IF failed THEN @ + 1 ELSE @,
                    !.failures = @ \cup done.failures,
                    !.errors = @ \cup ApplyAllowListFilter(done.errors, config.policy)]

TakeContent(acc, file, config) ==
    IF acc.bytes + file.size > config.max_total_bytes THEN Stop(acc)
    ELSE Count(acc, file, config, ScanContent(file, EffectiveVendor(config.policy), config))

TakeFile(acc, file, config) ==
    IF acc.stopped THEN acc
    ELSE IF acc.scanned + acc.failed >= config.max_files THEN Stop(acc)
    ELSE IF ReadFileBounded(file, config) # {}
    THEN [acc EXCEPT !.failed = @ + 1, !.failures = @ \cup ReadFileBounded(file, config)]
    ELSE TakeContent(acc, file, config)

Begun(found, broken) ==
    [stopped |-> FALSE, scanned |-> 0, failed |-> broken + Len(found.failures), bytes |-> 0,
     failures |-> {ScanError("pattern") : k \in 1 .. broken}
                    \cup {ScanError(e.is) : e \in ToSet(found.failures)},
     errors |-> {}]

Report(done) ==
    [ok |-> done.errors = {} /\ done.failures = {}, scanned_files |-> done.scanned,
     failed_files |-> done.failed, errors |-> done.errors, failures |-> done.failures]

Refused == [ok |-> FALSE]

(* Of the configuration, broken says how many exclude patterns are none.   *)
ValidateFs(met, config) ==
    LET found == FindFiles(met, config)
        take(acc, file) == TakeFile(acc, file, config)
    IN  IF config.missing THEN Refused
        ELSE Report(FoldLeft(take, Begun(found, config.broken), found.files))
=============================================================================
