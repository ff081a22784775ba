# A verification of go-raml

go-raml reads RAML 1.0 libraries, data types and named examples into a model of
types ("shapes"), resolves type expressions and references between them,
flattens inheritance, and validates the result.  It is a sequential library;
what makes it hard is not concurrency but that it works **in place on a cyclic
graph with shared parts**: libraries use one another in cycles, types refer to
themselves, children share the property maps of their parents by pointer,
aliases share everything, and three recursive passes rely on boolean flags left
in the nodes.

The modules here are TLA+ specifications of those passes, checked by TLC on
small instances; for eight of them the main properties are proved by TLAPS for
every instance.

## 1. Inventory

State is kept in `RAML` (`raml.go`): the fragment cache, the list of all
shapes, the tables of types of each fragment, the list of domain extensions and
the work list of unresolved shapes.  `parseFragment` (`parse.go`) calls the
components in this order: load and decode, resolve shapes, resolve domain
extensions, unwrap, mark recursions, validate.  They communicate only through
the graph of shapes, the flags in it and the tables.

| component | state | operations | what is hard | what makes it correct |
|---|---|---|---|---|
| Fragment loader and cache (`parse.go`, `fragment.go`, `raml.go`) | `fragmentsCache`, `entryPoint`, `Library.Uses[].Link`, `BaseShape.Link` | `ParseFromPath`, `parse*`, `decode*`, `PutFragment` | cyclic uses, errors collected and continued, several parses on one RAML | a successful parse is completely linked, one object per file, no error is lost |
| YAML decoding (`shape.go`, `scalars.go`, `complex.go`, `node.go`, `example.go`) | the fields of the shapes | `unmarshalYAMLNode(s)`, `decode*`, `makeNewShapeYAML` | shapes made while a list is worked off | every node becomes one shape of the kind it declares |
| Type resolver (`resolve.go`, `rdt_visitor.go`) | `unresolvedShapes`, `Type`, `Alias`, `Inherits` | `resolveShapes`, `resolveShape`, `resolveLink`, `Visit*`, `MakeConcreteShapeYAML` | re-entrant resolution of recursive types, a list growing under the loop | everything is resolved, to the kind it means, once |
| Unwrapper (`unwrap.go`, `shape.go`, `complex.go`) | `unwrapped`, `ShapeVisited`, property maps, parents | `UnwrapShapes`, `UnwrapShape`, `unwrapParents`, `Inherit`, `AliasTo` | flags on recursive graphs, shared maps, the order of a Go map | a type has what its ancestors have, and nothing else |
| Facets (`scalars.go`, `complex.go`, `shape.go`) | facets of each shape | `inherit`, `alias`, `check`, `validate`, `inheritUnionSource`, `inheritUnionTarget` | several levels and parents, unions, flags left behind | a child accepts what its own facets and all of its parents accept |
| Recursion marker (`unwrap.go`) | `ShapeVisited`, every reference of every shape | `markShapeRecursions`, `FindAndMarkRecursion` | it rewrites the graph it walks; shared references | no cycle is left, only cycles are marked, it returns |
| Cloning and validation (`validate.go`, `shape.go`) | `unwrapCache`, clones | `ValidateShapes`, `CloneDetached`, `validateShapeCommons` | clones of cyclic graphs, copies looked up by identity | originals stay untouched, every copy is found |
| JSON Schema converter (`jsonschemaconv.go`) | definitions, visited shapes | `Convert`, `Visit*` | recursive shapes become references by name | each reference leads to the schema of its head |
| Hooks (`raml.go`, `shape.go`) | lists of hooks by key | `Append/Prepend/Remove/ClearHook`, `callHooks` | a list changed while it is called | every hook registered is called once, in order |
| Annotations (`extension.go`, `resolve.go`, `unwrap.go`, `validate.go`) | `domainExtensions`, `DefinedBy`, table of annotation types | `resolveDomainExtensions`, `unwrapDomainExtensions`, `validateDomainExtensions` | a pointer that three passes have to keep up to date | `DefinedBy` is the type of the annotation's name, unwrapped |
| Type expression grammar (`rdt/`) | none | generated by ANTLR | | |
| Command line (`cmd/raml`) | flags | `validate` | | |

The hazards found in this code, each with its line and the properties that
cover it, are listed in `PROJECT.json`.

## 2. Modules

Recursive Go functions are modelled as a stack of activation records and the
result of the last function to return, one action for every call, return and
error path, so that TLC sees the flags and maps as they are in the middle of a
recursion.  Errors are results and are propagated as the code does.  Positions,
error texts and everything else no property tells apart are left out.

| module | models | instance | proofs |
|---|---|---|---|
| `Loader` | loader and cache | `MCLoader` | `LoaderProofs` |
| `Decoding` | how the keys of a node become a shape and its fields | `MCDecoding` | |
| `Resolver` | resolver, with the shapes its decoders create | `MCResolver` | `ResolverProofs` |
| `Unwrap` | unwrapper; of facets only who declared them is kept | `MCUnwrap` | `UnwrapProofs` |
| `Facets`, `Inheritance` | what types accept, and how facets of several levels are merged and checked | `MCInheritance` | |
| `SchemaFacets` | the JSON Schema keywords made of facets, composed with `Inheritance` | `MCInheritance` | |
| `RecursionMark` | recursion marker | `MCRecursionMark` | `RecursionMarkProofs` |
| `SchemaConverter` | definitions and references of the converter | `MCSchemaConverter` | `SchemaConverterProofs` |
| `Cloning` | `Clone`, `CloneDetached`, `CloneShallow` | `MCCloning` | `CloningProofs` |
| `Validation` | `UnwrapShapes` and `ValidateShapes` of a client, and the annotations through both | `MCValidation` | `ValidationProofs` |
| `HookList` | what hooks promise: a list | | |
| `Hooks` | the slices and arrays that implement it | `MCHooks` | `HooksProofs` |

The modules meet where the code's passes meet: `RecursionMark` starts from a
graph as `Unwrap` leaves it, `SchemaConverter` from one as `RecursionMark`
leaves it, `Resolver` decides what `Decoding` takes as given (what the name of a
type stands for), and `Validation` takes the merging of one type, which is
`Unwrap` and `Inheritance`, as one step with an outcome.

### Loader
A file is its kind, its `!include` nodes and its `uses` in order, and whether
decoding it fails.  `heap` holds the fragment objects in the order they are
made; `cache` is `fragmentsCache`.  `Parse` is a call of `ParseFromPath`; `Load`
and `Include` are `parseLibrary` and the loading of data types and examples,
with the cache lookup and its type assertion (which panics on a fragment of
another kind); `Decoded` puts a fragment into the cache - which keeps the one
that is there - and only then the `uses` are loaded, `CollectError` and
`UsesDone` being the two ends of the error handling of `decodeLibrary`.

### Decoding
A document is a sequence of entries, because the code goes through the keys in
the order they are written.  `DecodeType`, `DecodeCommon`, `DecodeAnnotation`
and `DecodeOther` are the cases of the loop of `BaseShape.decode`, which keeps
what it does not know for the shape; then the type is chosen (`Make*`): by the
node of `type`, by the facets (`IdentifyShapeType`), or later by the resolver
(`Resolve`); then `unmarshalYAMLNodes` of that shape takes the keys that were
kept (`UnmarshalFacet`).  A value is one of a few words (a count, a fraction,
text, a list of odd length, a map ...) of which each key takes some.

### Resolver
A node of the document says what its type is (built in, in parentheses, a
reference, `T[]`, `T?`, `T | U`, an include, a list, or an expression the
grammar rejects).  `Resolve` is `resolveShape` with the check for shapes already
resolved; the `Visit*`, `Make*` and `Call*` actions are the visitor, in the
order in which it resolves the types referred to and makes shapes concrete.
`MakeConcreteShapeYAML` is `Make`: it decodes facets and so adds new shapes to
the end of the work list.  `StackLimit` stands for the limit of the Go stack;
no call chain that ends is as deep on the instances.  An empty list of types is
a shape without parents, the first of which is then read: the program panics
(`ListPanics`).  `WellFormed` says which documents there are: nodes hang in
trees (`height`), a part of an expression is neither a list nor an include, and
what is referred to is a declared type.

### Unwrap
Objects, scalars and `any`; a property map is named after the shape it was made
for, and `map` says which one a shape points to, so sharing is explicit.  The
frames are the calls of `UnwrapShape` and `Inherit` with their stage.
`fragmentsCache` is a Go map: the instances try the roots in several orders.

### Facets, Inheritance and SchemaFacets
A value is its Go type and its number or length; a shape has its facets and,
one level deep, items, properties and union members.  `Accepts` is `validate`,
`Check` is `check`, and `Inherit` is `BaseShape.Inherit` on two shapes and a
heap - the shapes flagged as visited and the next identity - as the flag
decides what a union's members become.  `Inheritance` applies them to documents
of types in the order in which `UnwrapShape` finishes them.  Numbers are whole
or `half` way to the next, and not negative; there is one string of each length
and form; a pattern is the set of lengths it matches; `fileTypes` is an enum.
A date or a time is a string of one of the forms of RAML or of `Spellings`, the
classes of strings near to those on which `time.Parse` (`Parsed`) and the
formats and regular expressions of the schema (`Spelled`, `Matching`) part; an
`accented` text has fewer characters than bytes.  `SchemaFacets` has the
visitors of the converter and `Map`: a schema is a function from the keywords it
has, and what it accepts is what draft-07 says, with formats asserted by the
grammar of RFC 3339.  Left out: `multipleOf`, pattern properties,
discriminators, custom facets (see `Validation`), JSON types, types with
recursion, and unions of several members of one type that face a non-union.

### RecursionMark
A reference (items, one union member, one entry of a map) is a slot that shapes
may share.  `Push` is the entry of `FindAndMarkRecursion`, `MarkReference` the
replacement of a reference that closed a cycle by the new marker (`Allocate`
is `MakeRecursiveShape`), `Return` takes the flag back.

### SchemaConverter
`Convert` makes a new map of definitions, occupies the name of the entry and
visits it; `VisitPart` goes to the next custom facet definition, property, item
or member; `VisitHead` is `VisitRecursiveShape`, which occupies a name before it
visits the head; `Leave` returns a schema to whoever asked for it.  A schema is
what it was made from, its reference and its parts.  Maps stay where they are
after the conversion, because the schema returned refers to them.

### Cloning
Shapes and the slices and maps that hold their references are objects of two
heaps, so that a copy that still shares a map with its source shows.  The map
of a call is keyed by the identity of shapes, which copies of either kind keep,
so several shapes may have one; the three operations take any shape there is,
copies and shallow copies included.  `map` is that
of the current call and `shared` the one that a client passes to `Clone` several
times.  `Enter` puts the copy into the map before anything is followed,
`CloneRef` and `ReuseCopy` are the two outcomes of the lookup, `Put` writes the
reference into the container that is being made.

### Validation
Fragments with tables of annotation types and types, a `definedBy` per
annotation.  The declared types come fragment by fragment in any order
(`fragmentsCache` is a Go map).  `UnwrapShape` merges in place and says which
shapes it leaves flagged, merged or replaced; `Put` stores the result under the
name of the shape, and at the end `UnwrapDomainExtension` looks annotation
types up by name again; `ValidateType` merges a detached copy and keeps it in
`unwrapCache`, which `ValidateDomainExtension` consults.  `Line` is what
`Inherit` leaves of custom facets on the way down (the values a type has, and
the facets defined above it), `FacetsFit` is `validateShapeFacets`, first
parents only, the property of a recursive type included, which by then is a
marker without parents.  A recursive type that no `UnwrapShapes` marked, but
that is flagged as unwrapped, sends `Check` round the cycle:
`ValidateTypeOverflows`.

### Hooks
`HookList` is the abstract list: changes, calls that run the hooks registered
when they started, errors that end a call.  `Hooks` has Go's slices: `Allocate`
is the choice of a capacity by the runtime, an append writes into the array
where there is room, `RemoveHook` shifts it in place, and a running call keeps
reading the array it started with.  `ListPromise` is the specification of
`HookList` under the refinement mapping from slices to lists.  A call during
which a hook was removed is marked as disturbed and owes nothing: the code
skips the hook after the removed one and runs the last one twice.

## 3. Runs

Properties are stated above their definitions; this table says what is tried.

| run | bounds | what it shows |
|---|---|---|
| `marking` | every graph of 3 shapes with 3 slots, shared or not, facet definitions, flags left by earlier passes, hooks that reject, shapes not unwrapped; 14 markers, never used up | the flags are the path of the walk, cycles and only cycles are cut, references stand for what they stood for, the pass fails on account of its input only, and returns |
| `loader` | 3 files: everything a file can be for the first, an include and a use for the second, leaves, back references and bad files for the third; 2 parses | a parse that succeeds is completely linked, without copies; a parse that fails has a bad file for a cause; a later parse changes nothing that is loaded |
| `decoding` | every document of up to 3 entries, a right and a wrong value for each key, in every order | the shape has the kind and the facets that the document says, or the document is wrong |
| `resolver` | 3 declared types in two orders, two expressions, a property each of two of them, an empty list; `StackLimit` 12 | everything is resolved to what it means, an error is reported if and only if there is one, nothing resolved changes its kind |
| `unwrap` | 3 declared types with the shape of a property each, every combination of parents, aliases, lists of parents and redeclared properties; properties of properties, redeclared on one or both levels; 3 orders; hooks that reject; a property redeclared incompatibly, which fails in the middle of a merge | complete types, nothing extra, in place, flags only on the sources of merges under way |
| `inheritance` | chains and lists of 3 types of each kind with bounds 1 and 2, enums, formats, patterns, items, properties and unions; values on both sides of the bounds and half way, texts of more bytes than characters, 13 spellings of dates and times | a type accepts what its own facets and its parents accept; nothing is rejected without a conflict; a checked type has a value; its schema accepts the same values but for those listed below |
| `schema` | 3 types in every nesting, 2 recursive shapes that may stand for any of them, also among the facet definitions; entries that are not unwrapped; 2 conversions with one converter | every schema describes its type, with no reference without a definition; one that was returned is not changed any more; conversion ends |
| `cloning` | 3 shapes with cycles through each container and the head, with identities of their own or two with one; 3 calls of the three kinds on any shape, copies included, in any order, `Clone` with one map several times | copies are images up to identity, outright where identities differ, detached copies share nothing, originals are not written to, cloning ends |
| `validation` | 2 libraries and a data type with 5 types; at most one fault, one clash with a parent, one kind of parent (`any`, a union), annotations by plain and by prefixed name; custom facets defined at one or two levels, required or not, set by parents or children, on a type that may be recursive; 3 calls of `UnwrapShapes` and `ValidateShapes` in any order of calls and fragments | exactly what is wrong is reported, and annotations keep their type |
| `hooks` | 3 hooks, two of which are closures of one function and one nil; 3 changes, 2 nested calls, up to 1 spare place in a new array | the slices implement the list |

Three of everything is the least at which the interesting cases occur: a cycle
with a way in, a child, a parent and a grandparent, two parents of one child, a
reference shared by two owners one of which is being walked, a clone of a clone
after a clone.  The bounds of the facets lie one apart and the values on both
sides of each.  A spare place is what it takes for two slices to share an array
that one of them extends.

### Conditions, and what they leave out
Some properties hold under a condition, which is part of their definition.
Where the condition leaves out something the code gets wrong, it says so here
with the line.

- `NoCycleLeft` and `OnlyCyclesMarked` need flags that are clear at the start.
- `CompleteOnSuccess` needs that no earlier parse on the same RAML failed: a
  failed parse leaves half-linked libraries in the cache (`parse.go:213`).
- `OneCopy` needs that no `!include` lies on a cycle.  The entry point itself is
  decoded without a look into the cache, and a file that leads back to it by an
  include loads it once more; the second copy is the cached one (`raml.go:205`).
- `Loader!Terminates` and the instances leave out data types that include each
  other, and `Resolver!Terminates` types declared to be each other: the code
  recurses without end (`parse.go:79`, `rdt_visitor.go:166`).  The latter also
  leaves out empty lists of types, on which it panics (`resolve.go:95`).
- `Resolver!Complete` excepts the facets of a primitive type in parentheses,
  which are lost without an error (`rdt_visitor.go:80`), and `LinkedOnce`
  recursive types, which can be made concrete twice (`rdt_visitor.go:172`).
- `Unwrap!Complete` leaves out recursive inheritance (`Recursive`): a shape that
  inherits from a type under way, or from a part of it, or redeclares that part,
  misses what that one inherits later (`unwrap.go:407`).  If two shapes are
  merged into it, the map it shares with the first may hand a property under way
  on to others, and what they merge into that one is lost when it is an alias and
  all its fields are overwritten (`shape.go:266`).
  `NothingExtra` leaves out models with a shape that two others are merged into
  (`Borrows`): after the first merge it may share a map or the shape of a property
  with its source, and the second one writes to that.  Of several parents the
  others are merged into the map of the first, which is that parent's own
  (`unwrap.go:360`, `complex.go:385`), and a property with a parent that also
  redeclares one gets both (`complex.go:555`).
  `InPlace` and `FlagIsSource` leave out types of kind `any`, which return their
  source and keep its flag, and what happens after the first error: `Inherit`
  returns early and leaves the flag of its source set, so the next child of that
  source is replaced by it (`shape.go:132`, `shape.go:158`).
- `MergedIsMeet` and `Narrows` need `Regular`: patterns are replaced (a FIXME in the
  code), a type may open what its parent closes, and a date without a format
  is read as RFC 3339 although a child may choose the other.  `MergedIsMeet`
  leaves out unions and aliases of a boolean with an enum, which lose it
  (`scalars.go:838`); `Narrows` a union facing a type that is none, and a
  property merged with one member of a parent's union (`complex.go:555`).
- `SchemaAgrees` states both directions and, in `Refused` and `Admitted`, where
  each fails; without any one of these the run ends in a violation.
  An integer type cuts off the fraction of a number, which is then no integer for
  the schema (`scalars.go:120`).  A time-only type accepts times without an
  offset only (`scalars.go:1206`), its schema, `format: time`, times with an
  offset only (`jsonschemaconv.go:316`): no string is accepted by both.
  `time.Parse` reads fractions where the layout has none, after a comma too, and
  hours of one digit, which the schema refuses; the regular expressions of
  datetime-only and RFC 2616 let through days that do not exist, and of
  datetime-only a month 00 (`jsonschemaconv.go:304`, `jsonschemaconv.go:289`);
  RFC 3339 has leap seconds, which `time.Parse` refuses.  Lengths are bytes for
  the type (`scalars.go:538`) and characters for the schema.  A value that such
  a difference touches in one item, property or union member is excepted in that
  direction as a whole.
  Left out altogether: whole numbers in the enum of a number, which the type
  never matches (`scalars.go:361`), empty enums (`Expressible`), and
  `multipleOf`, which is written to the schema and validated nowhere.
- `Describes` is for models in which two heads of recursive shapes have two names
  (a TODO in the code).
- `Detached` excepts shallow copies, which share on purpose.  A recursive shape
  that is cloned keeps the head of the original: `clone` of it does not follow
  `Head` (`shape.go:323`, `complex.go:1057`), as the model says (`Faithful`).
- `Faithful` is about identities: a reference of a copy leads to the copy of the
  identity that the source's reference leads to, and there is one for each.
  Where no two shapes that the calls with one map met have one identity (`Distinct`), it is the
  copy of the very shape.  Where two do, `clone` takes the second for the first
  (`shape.go:333`), and the content of the second is not in the copy: a shallow
  copy has the identity of its original, so `CloneDetached` of one on a cycle
  returns a copy whose cycle leads to itself and not to a copy of the original.
- `ReportsWhatIsWrong` stops at the first `UnwrapShapes` that failed or replaced a
  type by its parent: types that were reached before it failed stay flagged, so
  a second call succeeds (`unwrap.go:407`), and `ValidateShapes` recurses without end on
  a recursive type that was flagged but never marked; the property says that this
  needs a failed `UnwrapShapes`.  A recursive type with custom facets is refused
  always: its marker takes over the facets (`shape.go:530`) but has no parents to
  define them (`validate.go:328`).  `DefinedByKept` leaves out replaced types:
  the table is keyed by the name of the shape (`raml.go:181`), and the one put
  there has the parent's name, though a comment (`unwrap.go:138`) expects to find it.
- `DecodedAsSaid` excepts the facets beside the type of a union or a JSON type,
  which are dropped without an error.

Two runs end in a violation: what a comment of the repository says, and the code
does not do.  Both are findings in `PROJECT.json`.

| run | what it shows |
|---|---|
| `schema_plain` | a converter made without a wrapper, as its constructor allows for `JSONSchema`, panics on the first schema |
| `inheritance_union_target` | an incompatible member of a union is not reported: members are merged with their own union |

### Fairness
The program is one goroutine in a plain loop and calls nothing that blocks, so
weak fairness of the next-state relation as a whole, or of the part of it that
is not the client's choice (`Step`, `Work`), is what the Go scheduler gives;
liveness then says that a loop or recursion ends.  Nobody has to make another
call, so the actions of the client are not fair.  `Inheritance`, `Validation`,
`Decoding` and `Hooks` have no liveness property and no fairness: their loops go
through a finite list, and how long a hook runs is up to the client.  In every
module a stuttering disjunct marks the end, and deadlock is checked: a state
that is neither final nor has a step would be an error path forgotten.

## 4. Proofs

Each proof module states an inductive invariant `IInv` (or one per theorem) and
has one lemma for each action that says the action keeps it.  All theorems hold
for every value of the constants that satisfies `ConstantsAssumption`.  The
invariants were checked by TLC on the instances before they were proved.

### RecursionMarkProofs
For every set of shapes, slots and markers and every graph over them:

- `TypeCorrect`: the type invariant.
- `FlagCorrect`: until the pass fails, a shape is flagged exactly while it is
  on the path of the walk or was flagged before.  `FlagInv` adds that the path
  has no shape twice, since a flag taken back might otherwise still be needed
  further down, and (`Idle`) that a pass that is over has neither path nor type
  left.
- `CutCorrect`: a slot of a shape whose walk is finished holds a marker or a
  shape whose walk finished earlier.  `rank` counts walks in the order they
  end. `CutInv` says that the same holds for the slots of the shapes on the
  path that the loop has passed, and that the slot the loop is at waits for the
  frame above unless a marker was put there meanwhile; slots shared with a
  shape further down are why both are needed.
- `CyclesCut`: after a successful pass on clear flags no declared type reaches
  a cycle except through a marker.  Ranks descend along references
  (`CutCorrect`) and every declared type has one (`RootsSeen`), and the set of
  shapes of a lower rank is closed, so none reaches itself.
- `SameShapeCorrect`, from `ShapeInv`: a slot stands for the shape it stood
  for.
- `OnlyInputFailsCorrect`: the pass fails on account of its input only.
- `OnlyCyclesMarkedCorrect`, from `CycleInv`: a reference is replaced only if it
  closes a cycle of the graph the pass started with.  The pass rewrites that
  graph as it goes and walks markers it made, for the sake of the facet
  definitions they take over, so the invariant relates the two graphs: a node has
  the facet definitions of the shape it stands for (`StandsFor`), and what a frame
  of the path stands for leads to what the frames above it stand for, along
  references that were there at first (`PathLeads`).  A flag that is met is that
  of a frame (`FlagInv`), so the reference closes a cycle.

### LoaderProofs
For every system of files, any depth of cyclic `uses` and any number of parses:

- `CompleteCorrect`, `OneCopyCorrect`, `NoErrorLostCorrect`,
  `OnlyBadFilesFailCorrect` and `LoadedIsStableCorrect`: all safety properties
  of the run, and `TypeCorrect`.

The invariant says where a fragment that is not complete can be.  `Stack`: each
activation record has an object of its own, has done its phases so far, and the
record above it, or the result, is for the reference it waits for.  `Linked`:
the links an object has are those its file names, in order.  `Loaded`: while
nothing has failed, an object without a record is done - so an empty stack
leaves everything complete, although the cache gave fragments away before.
`Failing` (an error is being returned, or a record has collected one) is what
`CollectError` and `UsesDone` hand to each other, and `Control` ends it in a
failed parse: this is why no error is lost.  `Blamed` says that a failing parse
has a bad file among those the entry point leads to, for which the set of paths
must be closed under references (`Within`, `OnwardStep`).  `Above` and `Single`
are for `OneCopy`: what is above a record that is decoding was reached through
its `!include`, so meeting its path again means that an include lies on a
cycle. `LoadedIsStable` follows since links are written only to a fragment that
waits for one, which is not complete.  `ConstantsAssumption` says that named
examples and JSON files have no `uses`: the code looks for none in them
(`parse.go`), so `uses` stands for those it would follow.

### ResolverProofs
For every finite set of nodes and every document, types that refer to each
other without end included:

- `CompleteCorrect`, `FailsIfWrongCorrect`, `LinkedOnceCorrect` and
  `KindStaysCorrect`: all safety properties of the run, and `TypeCorrect`.

What a document says (`Occurring`, `Meaning`, `Recursive`) is defined by functions
that count up to the number of nodes, what the pass does by following
references until it is done.  The lemmas about `Closure` and `Meaning` relate the
two: a closure is the least set closed under steps (`OccurringLeast` for what
occurs), and a type means what the type it refers to means.  That counting to
the number of nodes is enough is a search for the least counterexample, as a
step that adds nothing ends the search.

The invariant has one part for each way the pass could go wrong:

- `Controlled`: a record is at a place its type allows, waits for the shape of the
  record above it, and a result is about that shape (`Placed`, `Linked`, `Answered`).
- `Made`, `Ahead` and `Untouched`: shapes are made from the top of the trees.  A type
  can be resolved a second time while its first resolution is under way, and
  what the second one makes must not have been resolved already, or
  `KindStays` would fail: an expression that leads back to itself has its kind
  before its parts are visited, so only references, includes and lists are
  entered twice, and these have made nothing yet.
- `Meant`: what is resolved has the kind its declaration means, and all that is
  made occurs in the document.
- `Blamed`, that an error has a cause, and `Kept`, that without one each shape that is
  not resolved is on the list or on the stack, and one that is has its facets
  decoded and its properties made; together they are `FailsIfWrong`, and, once the list is
  empty, the shapes resolved are closed under parts and so are all that occurs:
  `Complete`.
- `Single` and `References`, without recursion: no two records resolve the same
  shape, because each waits for one that it refers to (`Recursive` would hold).

`ConstantsAssumption` asks for finitely many nodes, documents that are well
formed, and a `None` that is no node and no result.

### UnwrapProofs
For every set of shapes, every order of fragments, parents, aliases and
properties, recursive inheritance included:

- `TypeCorrect`, and `InPlaceCorrect` and `FlagIsSourceCorrect`: as long as there
  is no error, and no type of kind `any`, `UnwrapShape` gives back the shape it is
  given, and flags are the sources of the merges under way.

The flag that `Inherit` sets on its source is read in two places, by `Inherit`
itself, which then returns the source, and by `UnwrapShape`, which then returns
at once.  The invariant says why neither happens.  All records of `Inherit` are
above those of `UnwrapShape` (`Layered`, `Rooted`), so while a record of
`UnwrapShape` is on top nothing is being merged and no flag is set (`Flagged`,
which also says that no two merges have the same source); each record was made
for the place the one below it is at (`Linked`), a shape is unwrapped once
(`Once`), and a result is the shape that was asked for (`Answered`), so that
`Kept`, the original shape in its original place, survives every assignment.
`Flagged` ends when an error is returned, the rest when the pass has failed.

- `NothingExtraCorrect`: without types of kind `any`, what a shape carries and has in
  its property map comes from shapes it narrows (`NothingExtra`).

What a shape narrows is the least relation `Narrowing`.  It is defined by rounds, and
`NarrowingClosed` shows that they suffice: each round that adds something adds
a pair, and there are more rounds than pairs.  The invariant (`EInv`) says that
every shape has only what it may (`Covered`).  That is no more than the property
itself; the rest says why a write through a shared map does no harm.  There is
a set of shapes into which nothing has been merged yet and which have the map
they started with (`Fresh`).  A shape that has a parent is in it until its own
merge, a redeclared property as long as its owner is (`Untouched`), so each merge
takes its target out of the set, has a map of its own to write to, and is the
only one with that target (`Merges`).  While a merge is under way its map has
the properties that were declared and those the loop has added so far, and the
redeclared properties behind the loop are in the set still (`Adding`).  That
uses what `WellFormed` says of documents: a property has a shape of its own and
its name once, and an alias has nothing of its own.

`ConstantsAssumption` asks for finitely many shapes, models that are well formed,
and a `None` that is no shape and no result.

### SchemaConverterProofs
For models of every size and nesting and any number of conversions:

- `DescribesCorrect`: a schema that was returned describes its type, each
  reference leads to a definition, and each definition to the schema of its head
  (`Describes`, under the same condition that heads have names of their own).
- `ReturnedStaysCorrect`: a later conversion changes nothing that was returned.
- `TypeCorrect`.

`Stacked`: each record has a schema of its own, made after those of its callers.
`Progress`: that schema has the parts visited so far, in order, and the record
above is for the next.  `Settled`: the schemas of the conversion that no record
is working on are complete.  `Occupied`: a definition is a schema of the head
that has its name, or is empty and a record will fill it, so that none is empty
when the stack is.  `Returned`: what was returned has all this, and what is under
way has schemas, and a map of definitions, that were made later.

### CloningProofs
For graphs of every size and shape, with any identities, and any sequence of
calls on any shapes, copies included:

- `FaithfulCorrect`, `UntouchedCorrect`, `DetachedCorrect` and `TypeCorrect`.
  `FaithfulCorrect` says of finished copies that they are images up to identity,
  and outright where the identities of what a call met (`Met`: what it copied
  and what that refers to) differ; this can only cease to hold (`Distinct`).

`Private` says that the containers a record writes to belong to its copy alone,
from which `Untouched` follows; `Owned` and `Sourced` keep the shapes of
different calls apart, `Unique` and `MapsOK` say that the map leads to the one
copy of an identity, `Nested` that each record has a copy of its own and waits
for the one above, `Progress` that the containers hold the copies of the
references before `next`, and `WholeIsImage` is what remains when a record is
popped.

`Detached` speaks of everything that can be reached from what `CloneDetached`
returns, and this is exactly what the call made (`ReachedIsOwned`), which needs
`Rooted`: deep shapes have no container in common (`Apart`); a copy of a call
that is over is the one that was returned (one for each call: `Returned`) or
stands in an older copy of the same call (`Grounded`), since a record puts its
copy into the one of the record below, which was made before (`Climbing`).  The
two inclusions are proved by induction on the number of references followed
and on the age of copies, each as a search for the least counterexample
(`Least`, from the well-foundedness of `<`); so is the existence of the function
that `Reached` is defined by (`WithinExists`), without which nothing would be known
of it.

### ValidationProofs
For hierarchies of any depth and width, any number of fragments and annotations,
and any sequence of calls:

- `ReportsWhatIsWrongCorrect`, `UnwrapFindsClashesCorrect` and
  `DefinedByKeptCorrect`: all properties of the run, and `TypeCorrect`.

`UnwrapShape`, `Reaches` and the declared facts (`Above`, `Failing`, `Full`) are
functions defined by recursion along the parents.  Since every set of types has
one whose parent is not in it, what holds of a type when it holds of its parent
holds of all (`FromTheTop`), and a function is defined by what it is for a parent
(`Recursion`); both are proved without an induction theorem.  The invariant then
relates the state to what is declared.

`Inherited`: a type is only ever replaced by one above it, and as no type is
above itself no later step brings the first one back.  So whether all types
still stand (`TypeStands`, `Standing`) can only get worse, and the conditions of the
properties, which speak of the present, hold of the past too.  `Linked`: while the
types stand, every annotation has an annotation type, and the new table has one
for each that the loops are past (`Entered`), since the shape is entered under the
name of the type that stands there; this is `DefinedByKept`.  `Named`: while the
shapes stand, it is the one that is meant.  `Merged`: as long as no flagged type
was left half merged, all that is flagged has the facets of all that is above it.
`FirstUnwrap`: on the way through the first `UnwrapShapes` all that is flagged can be
merged, so a type that cannot be is met when its turn comes at the latest.
`Untouched` and `InOrderMeans`: when a validation reports, either nothing was ever
unwrapped in place, and a copy has what it should (`QuietOutcome`), or everything
was, and `Merged` says the same of the types themselves.  `Sound`, `Settled` and
`ValuesChecked` are the loops of `ValidateShapes` half way.

`ConstantsAssumption` says what models there are: each type is declared at one
place, names are unique in a table (they are the keys of a map), and no type is
its own ancestor: on one that is, the resolver recurses without end and leaves no
model (`rdt_visitor.go:166`).

### HooksProofs
- `ListCorrect`: `Hooks` implements `HookList`, by refinement: initial states map to
  initial states and every step to a step or a stutter, for every choice of
  capacities, any number of changes and calls, and hooks that change the list.
- `TypeCorrect`: slices never reach past the end of their arrays.

The invariant is `TypeOK` and `Room`: a call that no removal has disturbed ranges
over a part of its array that no append can write to, because appends write
behind the end of the current list only, and that list is at least as long
as what such a call ranges over if they share an array.

### What is only model-checked
`Complete` of `Unwrap`, `NothingExtra` for models with types of kind `any`, and
everything said of `Decoding` and `Inheritance`.  Liveness (`Terminates` in all modules)
is beyond the prover, as is `ENABLED`.  The library's induction rules take an
operator and cannot be used; least counterexamples take their place for
recursive functions over numbers (`Detached`, `ResolverProofs`) and along parents
(`ValidationProofs`), but not for the folds and the
recursive operators `Inheritance` and `Decoding` are made of.
The type invariants of the modules with proofs are proved.

## 5. Not modelled

- The YAML syntax, `ReadHead` and the ANTLR grammar (generated) are reduced to
  their outcome; stack traces, positions and mocks have no effect on the model
  built; the command line is a loop over files.
- In `Validation` a type has one parent, and its `Check`, its examples and its
  default are reduced to whether they are wrong by themselves or once the type
  is merged; so the examples of a linked fragment, which are never validated
  (`validate.go:304`), are a hazard without a property.
- `VisitJSONShape` with `recast`, the copying of schemas, and definitions of
  two heads of one name.
- `multipleOf`, pattern properties and discriminators in `Facets`; in
  `Decoding`, what is inside a value (the properties of an object, the members
  of an enum).
- Where an annotation may stand (`allowedTargets`) is not checked by the code.

## 6. Plan

What is left, the most important first:

1. The rest of `validateShapeCommons`: the examples of linked fragments, and
   custom facets of types with several parents, whose maps `Inherit` shares.
2. Proofs: `Complete` for `Unwrap`.
3. An abstract `Model` of what a parse promises - all fragments of the
   dependencies, linked, or an error - which `Loader` implements by a refinement.
4. `multipleOf`, pattern properties and discriminators in `Facets`.
