------------------------------ MODULE ImportPaths ------------------------------
(***************************************************************************)
(* eval/resolve_import_path.go, and the file system importer's Canonicalize*)
(* and CouldCanonicalize (eval/import_cache.go).                           *)
(*                                                                         *)
(* A file's name is its directory, whether it starts with "_", its stem,   *)
(* whether ".import" follows it, and its extension; fs is the set of the   *)
(* files there are.  Symbolic links, letter case and failing lookups are   *)
(* left out.                                                               *)
(***************************************************************************)
EXTENDS Naturals, Sequences, FiniteSets, SequencesExt

NoFile == [found |-> "none"]
Ambiguous == [found |-> "ambiguous"]
Exactly(file) == [found |-> "file", file |-> file]

exactlyOne(paths) == CASE Len(paths) = 0 -> NoFile
                       [] Len(paths) = 1 -> Exactly(paths[1])
                       [] OTHER          -> Ambiguous

\* a second "_" or ".import" makes a name no file has
tryPath(fs, path) ==
    SelectSeq((IF path.partial THEN <<>> ELSE <<[path EXCEPT !.partial = TRUE]>>) \o <<path>>,
              LAMBDA p : p \in fs)

tryPathWithExtensions(fs, path) ==
    LET With(ext) == tryPath(fs, [path EXCEPT !.ext = ext])
        sass == With("sass") \o With("scss")
    IN  IF sass # <<>> THEN sass ELSE With("css")

\* the first lookup that finds a file, or more than one
FirstOf(lookups) ==
    LET hits == SelectSeq(lookups, LAMBDA r : r # NoFile)
    IN  IF hits = <<>> THEN NoFile ELSE hits[1]

ForImport(path) == [path EXCEPT !.import = TRUE]
WhenImporting(fromImport, path, lookup(_)) ==
    IF fromImport /\ ~path.import THEN <<lookup(ForImport(path))>> ELSE <<>>

dirExists(fs, dir) == \E f \in fs : IsPrefix(dir, f.dir)
tryPathAsDirectory(fs, path, fromImport) ==
    LET index  == [path EXCEPT !.dir = Append(@, path.stem), !.stem = "index"]
        Try(p) == exactlyOne(tryPathWithExtensions(fs, p))
    IN  IF path.partial \/ path.import \/ ~dirExists(fs, Append(path.dir, path.stem)) THEN NoFile
        ELSE FirstOf(Append(WhenImporting(fromImport, index, Try), Try(index)))

resolveImportPath(fs, path, fromImport) ==
    LET Named(p) == exactlyOne(tryPath(fs, p))
        Try(p)   == exactlyOne(tryPathWithExtensions(fs, p))
    IN  IF path.ext # ""
        THEN FirstOf(Append(WhenImporting(fromImport, path, Named), Named(path)))
        ELSE FirstOf(WhenImporting(fromImport, path, Try)
                        \o <<Try(path), tryPathAsDirectory(fs, path, fromImport)>>)

\* a load path is put in front of a URL without a scheme
Canonicalize(fs, loadPath, url, fromImport) ==
    resolveImportPath(fs, [url EXCEPT !.dir = loadPath \o @], fromImport)

(* Mutant: the "_" of a partial counts. *)
CouldCanonicalizePartial(url, canonical) ==
    LET base == [canonical EXCEPT !.dir = url.dir]
    IN  url \in {base, [base EXCEPT !.ext = ""]}

\* the last names alone, up to the "_" and the extension
CouldCanonicalize(url, canonical) ==
    LET base == [canonical EXCEPT !.dir = url.dir, !.partial = @ /\ url.partial]
    IN  url \in {base, [base EXCEPT !.ext = ""]}
=============================================================================
