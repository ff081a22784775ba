-------------------------------- MODULE Loader --------------------------------
(***************************************************************************)
(* The fragment loader: parseFragment, parseLibrary, parseDataType,        *)
(* parseNamedExample and their decode functions (parse.go) with the cache  *)
(* of GetFragment and PutFragment (raml.go).                               *)
(*                                                                         *)
(* Loading is a recursive descent over files.  While a fragment is decoded *)
(* its !include nodes load data types and named examples; once decoded it  *)
(* is put into the cache, and then the libraries of its "uses" are loaded. *)
(* A path found in the cache is not opened again.                          *)
(*                                                                         *)
(* Every decode makes a new fragment object; an object is its index in     *)
(* heap.  The recursive functions are a stack of activation records and    *)
(* the result of the last one to return.  Only what the loader looks at is *)
(* kept of a file: the kind its first line declares, its includes and uses *)
(* in the order they are met, and whether decoding it fails.               *)
(***************************************************************************)
EXTENDS Naturals, Sequences

CONSTANTS
    Path,        \* normalised absolute paths
    FileSystems, \* the contents the paths may have (see FileType)
    MaxParses,   \* how often ParseFromPath is called on one RAML
    None

Loadable == {"Library", "DataType", "NamedExample"}

\* "JSON" is a file named *.json, which is read as a data type and has no
\* head; "Unknown" has a first line that names no fragment.
FileType ==
    [ kind      : Loadable \cup {"JSON", "Unknown", "Missing"},
      includes  : Seq([kind : {"DataType", "NamedExample"}, path : Path]),
      uses      : Seq(Path),
      malformed : BOOLEAN ]

ASSUME ConstantsAssumption ==
    /\ FileSystems \subseteq [Path -> FileType]
    /\ \A fs \in FileSystems : \A p \in Path :
          fs[p].kind \in {"NamedExample", "JSON"} => fs[p].uses = << >>
    /\ MaxParses \in Nat \ {0}
    /\ None \notin Nat /\ None \notin [ok : BOOLEAN, obj : Nat \cup {None}]

VARIABLES
    file,        \* the file system, which does not change
    heap,        \* the fragment objects, in the order they were made
    cache,       \* RAML.fragmentsCache: path to object
    frames,      \* activation records
    ret,         \* what the last function to return returned, or None
    entryPoint,  \* RAML.entryPoint
    status,      \* "idle", "parsing", "loaded", "failed" or "panicked"
    parses,      \* number of ParseFromPath calls so far
    tainted      \* auxiliary: a ParseFromPath call on this RAML has failed

vars == << file, heap, cache, frames, ret, entryPoint, status, parses, tainted >>

Object == DOMAIN heap
Top    == frames[Len(frames)]
Frag   == heap[Top.obj]
Source == file[Frag.path]

Ok(o) == [ok |-> TRUE, obj |-> o]
Error == [ok |-> FALSE, obj |-> None]

\* CheckFragmentKind, after the file was opened.
Admits(p, kind) ==
    file[p].kind = kind \/ (file[p].kind = "JSON" /\ kind = "DataType")

-----------------------------------------------------------------------------

Init ==
    /\ file \in FileSystems
    /\ heap = << >>
    /\ cache = [p \in Path |-> None]
    /\ frames = << >>
    /\ ret = None
    /\ entryPoint = None
    /\ status = "idle"
    /\ parses = 0
    /\ tainted = FALSE

\* Make*(path) and the start of decoder.Decode.
Decode(p, kind) ==
    /\ heap' = Append(heap, [path |-> p, kind |-> kind,
                             includes |-> << >>, uses |-> << >>])
    /\ frames' = Append(frames, [obj |-> Len(heap) + 1, phase |-> "decode",
                                 failed |-> FALSE])

\* ParseFromPath: the entry point is decoded without a look at the cache.
Parse(p) ==
    /\ status \in {"idle", "loaded", "failed"} /\ parses < MaxParses
    /\ parses' = parses + 1
    /\ IF file[p].kind \in Loadable
       THEN /\ Decode(p, file[p].kind)
            /\ status' = "parsing"
            /\ UNCHANGED tainted
       ELSE /\ status' = "failed"
            /\ tainted' = TRUE
            /\ UNCHANGED << heap, frames >>
    /\ UNCHANGED << file, cache, ret, entryPoint >>

\* Mutant of Load: a fragment that is still being linked is refused as a cycle.
LoadNoCycle(p, kind) ==
    CASE cache[p] # None /\ \E i \in DOMAIN frames : frames[i].obj = cache[p] ->
            /\ ret' = Error
            /\ UNCHANGED << heap, frames, status >>
      [] cache[p] # None /\ \A i \in DOMAIN frames : frames[i].obj # cache[p] ->
            /\ ret' = Ok(cache[p])
            /\ UNCHANGED << heap, frames, status >>
      [] cache[p] = None /\ Admits(p, kind) ->
            /\ Decode(p, kind)
            /\ UNCHANGED << ret, status >>
      [] cache[p] = None /\ ~Admits(p, kind) ->
            /\ ret' = Error
            /\ UNCHANGED << heap, frames, status >>

\* parseLibrary(p), parseDataType(p), parseNamedExample(p).  The fragment
\* found in the cache is asserted to be of the kind asked for.
Load(p, kind) ==
    CASE cache[p] # None /\ heap[cache[p]].kind = kind ->
            /\ ret' = Ok(cache[p])
            /\ UNCHANGED << heap, frames, status >>
      [] cache[p] # None /\ heap[cache[p]].kind # kind ->
            /\ status' = "panicked"
            /\ UNCHANGED << heap, frames, ret >>
      [] cache[p] = None /\ Admits(p, kind) ->
            /\ Decode(p, kind)
            /\ UNCHANGED << ret, status >>
      [] cache[p] = None /\ ~Admits(p, kind) ->
            /\ ret' = Error
            /\ UNCHANGED << heap, frames, status >>

Running == status = "parsing" /\ frames # << >> /\ ret = None

\* The decoder meets the next !include.
Include ==
    /\ Running /\ Top.phase = "decode"
    /\ Len(Frag.includes) < Len(Source.includes)
    /\ LET i == Source.includes[Len(Frag.includes) + 1] IN Load(i.path, i.kind)
    /\ UNCHANGED << file, cache, entryPoint, parses, tainted >>

Pop == frames' = SubSeq(frames, 1, Len(frames) - 1)

\* The YAML is not well formed, or a node has a wrong kind or value.
DecodeFails ==
    /\ Running /\ Top.phase = "decode" /\ Source.malformed
    /\ Pop
    /\ ret' = Error
    /\ UNCHANGED << file, heap, cache, entryPoint, status, parses, tainted >>

\* Mutant of Decoded: a fragment with "uses" is not put into the cache.
DecodedUncached ==
    /\ Running /\ Top.phase = "decode" /\ ~Source.malformed
    /\ Len(Frag.includes) = Len(Source.includes)
    /\ IF Source.kind \in {"Library", "DataType"}
       THEN /\ frames' = [frames EXCEPT ![Len(frames)].phase = "uses"]
            /\ UNCHANGED << cache, ret >>
       ELSE /\ cache' = [cache EXCEPT ![Frag.path] = IF @ = None THEN Top.obj ELSE @]
            /\ Pop
            /\ ret' = Ok(Top.obj)
    /\ UNCHANGED << file, heap, entryPoint, status, parses, tainted >>

\* Mutant of Decoded: PutFragment replaces what is in the cache.
DecodedReplaces ==
    /\ Running /\ Top.phase = "decode" /\ ~Source.malformed
    /\ Len(Frag.includes) = Len(Source.includes)
    /\ cache' = [cache EXCEPT ![Frag.path] = Top.obj]
    /\ IF Source.kind \in {"Library", "DataType"}
       THEN /\ frames' = [frames EXCEPT ![Len(frames)].phase = "uses"]
            /\ UNCHANGED ret
       ELSE /\ Pop
            /\ ret' = Ok(Top.obj)
    /\ UNCHANGED << file, heap, entryPoint, status, parses, tainted >>

\* PutFragment; named examples and JSON data types have no "uses".
Decoded ==
    /\ Running /\ Top.phase = "decode" /\ ~Source.malformed
    /\ Len(Frag.includes) = Len(Source.includes)
    /\ cache' = [cache EXCEPT ![Frag.path] = IF @ = None THEN Top.obj ELSE @]
    /\ IF Source.kind \in {"Library", "DataType"}
       THEN /\ frames' = [frames EXCEPT ![Len(frames)].phase = "uses"]
            /\ UNCHANGED ret
       ELSE /\ Pop
            /\ ret' = Ok(Top.obj)
    /\ UNCHANGED << file, heap, entryPoint, status, parses, tainted >>

\* The loop over "uses" loads the next library.
Use ==
    /\ Running /\ Top.phase = "uses"
    /\ Len(Frag.uses) < Len(Source.uses)
    /\ Load(Source.uses[Len(Frag.uses) + 1], "Library")
    /\ UNCHANGED << file, cache, entryPoint, parses, tainted >>

\* Mutant of UsesDone: the collected errors are not returned.
UsesDoneAnyway ==
    /\ Running /\ Top.phase = "uses"
    /\ Len(Frag.uses) = Len(Source.uses)
    /\ Pop
    /\ ret' = Ok(Top.obj)
    /\ UNCHANGED << file, heap, cache, entryPoint, status, parses, tainted >>

\* All "uses" are done; a library returns the errors it collected.
UsesDone ==
    /\ Running /\ Top.phase = "uses"
    /\ Len(Frag.uses) = Len(Source.uses)
    /\ Pop
    /\ ret' = IF Top.failed THEN Error ELSE Ok(Top.obj)
    /\ UNCHANGED << file, heap, cache, entryPoint, status, parses, tainted >>

Returned == status = "parsing" /\ ret # None

\* The caller stores what the loaded fragment is linked from.
LinkFragment ==
    /\ Returned /\ frames # << >> /\ ret.ok
    /\ heap' = IF Top.phase = "decode"
               THEN [heap EXCEPT ![Top.obj].includes = Append(@, ret.obj)]
               ELSE [heap EXCEPT ![Top.obj].uses = Append(@, ret.obj)]
    /\ ret' = None
    /\ UNCHANGED << file, cache, frames, entryPoint, status, parses, tainted >>

\* Mutant of CollectError: the error is dropped.
DropError ==
    /\ Returned /\ frames # << >> /\ ~ret.ok
    /\ Top.phase = "uses" /\ Frag.kind = "Library"
    /\ heap' = [heap EXCEPT ![Top.obj].uses = Append(@, None)]
    /\ ret' = None
    /\ UNCHANGED << file, cache, frames, entryPoint, status, parses, tainted >>

\* decodeLibrary notes the error, leaves the link nil and tries the next one.
CollectError ==
    /\ Returned /\ frames # << >> /\ ~ret.ok
    /\ Top.phase = "uses" /\ Frag.kind = "Library"
    /\ heap' = [heap EXCEPT ![Top.obj].uses = Append(@, None)]
    /\ frames' = [frames EXCEPT ![Len(frames)].failed = TRUE]
    /\ ret' = None
    /\ UNCHANGED << file, cache, entryPoint, status, parses, tainted >>

\* Mutant of PassError: the caller tries again.
RetryError ==
    /\ Returned /\ frames # << >> /\ ~ret.ok
    /\ Top.phase = "decode" \/ Frag.kind # "Library"
    /\ ret' = None
    /\ UNCHANGED << file, heap, cache, frames, entryPoint, status, parses, tainted >>

\* Everywhere else the caller returns the error at once.
PassError ==
    /\ Returned /\ frames # << >> /\ ~ret.ok
    /\ Top.phase = "decode" \/ Frag.kind # "Library"
    /\ Pop
    /\ UNCHANGED << file, heap, cache, ret, entryPoint, status, parses, tainted >>

\* parseFragment sets the entry point, or returns the error.
ParseReturns ==
    /\ Returned /\ frames = << >>
    /\ ret' = None
    /\ IF ret.ok
       THEN entryPoint' = ret.obj /\ status' = "loaded" /\ UNCHANGED tainted
       ELSE status' = "failed" /\ tainted' = TRUE /\ UNCHANGED entryPoint
    /\ UNCHANGED << file, heap, cache, frames, parses >>

\* The caller asks for no further parse; lets TLC tell the end from a deadlock.
Over ==
    /\ status = "panicked" \/ (status \in {"loaded", "failed"} /\ parses = MaxParses)
    /\ UNCHANGED vars

Step ==
    \/ Include \/ DecodeFails \/ Decoded \/ Use \/ UsesDone
    \/ LinkFragment \/ CollectError \/ PassError \/ ParseReturns

Next == (\E p \in Path : Parse(p)) \/ Step \/ Over

\* One goroutine runs a parse to its end; nobody has to start another.
Spec == Init /\ [][Next]_vars /\ WF_vars(Step)

-----------------------------------------------------------------------------

FragmentObject ==
    [ path : Path, kind : Loadable, includes : Seq(Nat), uses : Seq(Nat \cup {None}) ]

\* Every variable has its type.
TypeOK ==
    /\ file \in FileSystems
    /\ heap \in Seq(FragmentObject)
    /\ cache \in [Path -> Object \cup {None}]
    /\ frames \in Seq([obj : Object, phase : {"decode", "uses"}, failed : BOOLEAN])
    /\ ret \in [ok : BOOLEAN, obj : Object \cup {None}] \cup {None}
    /\ entryPoint \in Object \cup {None}
    /\ status \in {"idle", "parsing", "loaded", "failed", "panicked"}
    /\ parses \in 0 .. MaxParses
    /\ tainted \in BOOLEAN

-----------------------------------------------------------------------------
(***************************************************************************)
(* The files as a graph: an edge for every !include and every "uses".      *)
(***************************************************************************)

Included(p) == {file[p].includes[i].path : i \in DOMAIN file[p].includes}
Used(p)     == {file[p].uses[i] : i \in DOMAIN file[p].uses}

\* The paths reached from p in one or more steps of the relation.
Reach(edge(_), p) ==
    LET closed(S) == \A q \in S \cup {p} : edge(q) \subseteq S
    IN  {q \in Path : \A S \in SUBSET Path : closed(S) => q \in S}

Refers(p) == Included(p) \cup Used(p)

\* Data types that include one another: decoding such a cycle does not end.
IncludeCycle == \E p \in Path : p \in Reach(Included, p)

\* An !include that lies on a cycle, closed by the "uses" of some fragment.
IncludeOnCycle ==
    \E p \in Path : \E q \in Included(p) : p \in {q} \cup Reach(Refers, q)

\* A file, or a reference in it, that cannot be loaded.
Bad(p) ==
    \/ file[p].malformed
    \/ file[p].kind \in {"Missing", "Unknown"}
    \/ \E i \in DOMAIN file[p].includes :
            ~Admits(file[p].includes[i].path, file[p].includes[i].kind)
    \/ \E q \in Used(p) : ~Admits(q, "Library")

Complete(o) ==
    /\ Len(heap[o].includes) = Len(file[heap[o].path].includes)
    /\ Len(heap[o].uses) = Len(file[heap[o].path].uses)
    /\ \A i \in DOMAIN heap[o].includes :
            heap[heap[o].includes[i]].path = file[heap[o].path].includes[i].path
    /\ \A i \in DOMAIN heap[o].uses :
            /\ heap[o].uses[i] # None
            /\ heap[heap[o].uses[i]].path = file[heap[o].path].uses[i]

\* Although the cache hands out fragments whose own "uses" are still being
\* loaded, and an error lets decodeLibrary go on to the next library, a RAML
\* on which every parse succeeded holds no half-linked fragment: each link is
\* set, in order, to a fragment of the file it names.
CompleteOnSuccess ==
    status = "loaded" /\ ~tainted => \A o \in Object : Complete(o)

\* Cycles of "uses" are closed through the cache and never by a second copy:
\* after one successful parse every file was decoded once and everything
\* linked, and the entry point, is the cached fragment.
OneCopy ==
    status = "loaded" /\ parses = 1 /\ ~IncludeOnCycle =>
        \A o \in Object : cache[heap[o].path] = o

\* What the file of the first object, the entry point of the first parse,
\* depends on.
Dependencies == LET first == heap[1].path IN {first} \cup Reach(Refers, first)

\* No error is lost: if the parse succeeds, no file it depends on is missing,
\* malformed or of another kind than it is referred to as, however often the
\* error was collected, wrapped or passed through the two loops.
NoErrorLost ==
    status = "loaded" /\ parses = 1 => \A p \in Dependencies : ~Bad(p)

\* A parse fails, or panics in the type assertion on a cached fragment, only
\* if some file it depends on is bad: sound cyclic systems always load.
OnlyBadFilesFail ==
    status \in {"failed", "panicked"} /\ parses = 1 /\ heap # << >> =>
        \E p \in Dependencies : Bad(p)

\* What has been loaded stays: a later parse on the same RAML replaces no
\* cached fragment and relinks none of those already complete.
LoadedIsStable ==
    [][\A p \in Path :
          cache[p] # None /\ Complete(cache[p]) =>
              cache'[p] = cache[p] /\ heap'[cache[p]] = heap[cache[p]]]_vars

\* Every parse returns unless data types include one another.
Terminates == ~IncludeCycle => [](status = "parsing" => <>(status # "parsing"))

=============================================================================
