---------------------------- MODULE Invalidation ----------------------------
(***************************************************************************)
(* planDependencyInvalidation of shared/software-engineering-intelligence/ *)
(* dependency-invalidation.js over the facts that static-intelligence.js   *)
(* gives it: which records of an earlier analysis may be used again after  *)
(* the repository changed.                                                 *)
(*                                                                         *)
(* The planner is pure.  A session is the caller its plan is made for: it   *)
(* keeps the evidence of the records that the plan calls reusable and      *)
(* computes the others from the new revision.  (static-intelligence.js     *)
(* itself takes from the plan whether the topology must be computed again  *)
(* and reports the rest.)  It has one analyzer with one partition and      *)
(* exact edges, so several analyzers or partitions, records of global      *)
(* scope and uncertain edges are left out.  A revision stands for its      *)
(* Python files outside vendored directories, of which the configured      *)
(* patterns of generated paths take some out of the analysis, a digest for *)
(* what it is made of.                                                     *)
(***************************************************************************)
EXTENDS Naturals, FiniteSets, FiniteSetsExt

CONSTANTS
  Paths, Contents, Absent,
  Nodes,             \* module ids
  Roots,             \* module roots, as the module id that each path gets
  Imports,           \* [Contents -> SUBSET Nodes], what a file imports
  Unparsable,        \* contents that the parser rejects
  Patterns,          \* generated_path_patterns, as the set of paths they match
  Versions,          \* analyzer version and configuration
  MaxReasonDepth, MaxReasonSteps,
  MaxEdits,          \* bound: how far apart the revisions of two sessions are
  Spoiled            \* evidence that was damaged where it was stored

ASSUME InvalidationAssumption ==
  /\ IsFiniteSet(Nodes)
  /\ Absent \notin Contents
  /\ Roots \subseteq [Paths -> Nodes]
  /\ Imports \in [Contents -> SUBSET Nodes]
  /\ Unparsable \subseteq Contents /\ \A c \in Unparsable : Imports[c] = {}
  /\ Patterns \subseteq SUBSET Paths
  /\ MaxReasonDepth \in Nat \ {0} /\ MaxReasonSteps \in Nat /\ MaxEdits \in Nat

VARIABLES
  now,      \* the snapshot of the last session
  held,     \* its records, each with the evidence it was computed from
  sound,    \* whether the stored state is as it was written
  missed    \* history: the records kept although a module that they depend on
            \* came into the analysis or left it by the patterns alone

vars == <<now, held, sound, missed>>

Snapshots ==
  [tree : [Paths -> Contents \cup {Absent}], roots : Roots, version : Versions,
   generated : Patterns]
---------------------------------------------------------------------------
(* What static-intelligence.js derives from a snapshot.                    *)

Files(s)    == {p \in Paths : s.tree[p] # Absent}
Selected(s) == Files(s) \ s.generated

\* Two files with one module id make the facts unverifiable and empty.
Ambiguous(s) == \E p, q \in Selected(s) : p # q /\ s.roots[p] = s.roots[q]
Modules(s) == IF Ambiguous(s) THEN {} ELSE Selected(s)
ModuleAt(s, n) == CHOOSE p \in Modules(s) : s.roots[p] = n

\* An import of a module that is not there is no edge.
Edges(s) ==
  UNION {{<<s.roots[p], n>> : n \in Imports[s.tree[p]] \cap {s.roots[q] : q \in Modules(s)}} :
           p \in Modules(s)}

Available(s) == Modules(s) # {} /\ \A p \in Modules(s) : s.tree[p] \notin Unparsable

Facts(s) ==
  [nodes |-> {<<s.roots[p], p, s.tree[p]>> : p \in Modules(s)}, edges |-> Edges(s),
   available |-> Available(s)]

Records(s) ==
  {<<"path", p>> : p \in Selected(s)} \cup {<<"node", s.roots[p]>> : p \in Modules(s)}
  \cup {<<"partition", "python">>}

PathOf(r, s) == IF r[1] = "path" THEN r[2] ELSE ModuleAt(s, r[2])
Binding(r, s) == <<PathOf(r, s), s.tree[PathOf(r, s)]>>
---------------------------------------------------------------------------
(* The differences between the prior snapshot a and the current one b, by  *)
(* all the files of each, generated ones too.                              *)

Changed(a, b)     == {p \in Files(a) \cap Files(b) : a.tree[p] # b.tree[p]}
PriorOnly(a, b)   == Files(a) \ Files(b)
CurrentOnly(a, b) == Files(b) \ Files(a)

With(s, c) == {p \in Files(s) : s.tree[p] = c}

\* A rename is a content that only one path had and only one path has.
Renamed(a, b) ==
  {m \in PriorOnly(a, b) \X CurrentOnly(a, b) :
     With(a, a.tree[m[1]]) = {m[1]} /\ With(b, a.tree[m[1]]) = {m[2]}}

UncertainRenames(a, b) ==
  {m \in PriorOnly(a, b) \X CurrentOnly(a, b) : a.tree[m[1]] = b.tree[m[2]]} \ Renamed(a, b)

\* A module id with another path, unless that is a rename, or a path with
\* another module id.
NodeIdentityUncertain(a, b) ==
  \/ \E p \in Modules(a), q \in Modules(b) :
       b.roots[q] = a.roots[p] /\ q # p /\ <<p, q>> \notin Renamed(a, b)
  \/ \E p \in Modules(a) \cap Modules(b) : b.roots[p] # a.roots[p]

\* A search of a graph E from I: for each number of steps, what lies within it.
Reached(E, S) == S \cup {e[2] : e \in {d \in E : d[1] \in S}}
Search(E, I, N) ==
  LET within[k \in 0 .. N] == IF k = 0 THEN I ELSE Reached(E, within[k - 1])
  IN  within

Reversed(E) == {<<e[2], e[1]>> : e \in E}
At(s, P) == {s.roots[p] : p \in P \cap Modules(s)}

\* Fault: dependents are taken for dependencies.
TraverseForward(s, touched) == Search(Edges(s), At(s, touched), MaxReasonDepth + 1)

\* traverseReverse: the modules within k steps of those at touched paths,
\* against the direction of imports.
Traverse(s, touched) == Search(Reversed(Edges(s)), At(s, touched), MaxReasonDepth + 1)

PriorWithin(a, b)   == Traverse(a, Changed(a, b) \cup PriorOnly(a, b))
CurrentWithin(a, b) == Traverse(b, Changed(a, b) \cup CurrentOnly(a, b))

\* A chain of reasons has one step more than its module has distance.
LimitExceeded(within) ==
  LET visited == within[MaxReasonDepth]
      farther(k) == IF k = 0 THEN visited ELSE visited \ within[k - 1]
  IN  \/ within[MaxReasonDepth + 1] # visited
      \/ MapThenSumSet(LAMBDA k : Cardinality(farther(k)), 0 .. MaxReasonDepth) > MaxReasonSteps

\* The plan gives up and calls for a full recomputation.
FullRecompute(a, b, trusted) ==
  LET prior == PriorWithin(a, b)  current == CurrentWithin(a, b)
  IN  \/ ~trusted
      \/ UncertainRenames(a, b) # {}
      \/ ~Available(a) \/ ~Available(b)
      \/ NodeIdentityUncertain(a, b)
      \/ a.version # b.version
      \/ LimitExceeded(prior) \/ LimitExceeded(current)
      \/ Facts(a) # Facts(b) /\ prior[MaxReasonDepth] \cup current[MaxReasonDepth] = {}

\* Fault: dependents are looked up in the current graph only.
AffectedNodesNow(a, b) == CurrentWithin(a, b)[MaxReasonDepth]

AffectedNodes(a, b) == PriorWithin(a, b)[MaxReasonDepth] \cup CurrentWithin(a, b)[MaxReasonDepth]

\* A parse key names the content, a graph key all that the graph is made of;
\* the key of an entry covers the patterns.
CacheKey(r, s) ==
  IF r[1] = "partition"
  THEN <<s.version, s.generated, {<<p, s.tree[p]>> : p \in Selected(s)}, s.roots>>
  ELSE <<s.version, s.tree[PathOf(r, s)]>>

\* Records of a file that changed, came or went, and records that do not
\* describe the same thing any more.
DirectlyInvalidated(a, b) ==
  {r \in Records(a) \cup Records(b) :
     \/ r \notin Records(a) \cap Records(b)
     \/ /\ r[1] # "partition"
        /\ \/ PathOf(r, a) \in Changed(a, b) \cup PriorOnly(a, b)
           \/ PathOf(r, b) \in Changed(a, b) \cup CurrentOnly(a, b)
           \/ Binding(r, a) # Binding(r, b)
     \/ CacheKey(r, a) # CacheKey(r, b)}

\* The partition's own record stands only if all the others do.
Reusable(a, b, trusted) ==
  IF FullRecompute(a, b, trusted) THEN {}
  ELSE LET direct   == DirectlyInvalidated(a, b)
           affected == {<<"node", n>> : n \in AffectedNodes(a, b)}
           lost     == direct \cup affected
       IN  {r \in Records(a) \cap Records(b) :
              IF r[1] = "partition" THEN lost = {} /\ Facts(a) = Facts(b) ELSE r \notin lost}
---------------------------------------------------------------------------
(* Sessions.                                                               *)

\* The modules that a module depends on, itself included.
Dependencies(s, n) == Search(Edges(s), {n}, Cardinality(Nodes))[Cardinality(Nodes)]

\* What a computation of the record reads: a file; a module and all that it
\* depends on; or everything.
Evidence(r, s) ==
  LET read  == IF r[1] = "path" THEN {r[2]}
               ELSE IF r[1] = "partition" THEN Selected(s)
               ELSE {p \in Modules(s) : s.roots[p] \in Dependencies(s, r[2])}
      named == IF r[1] = "path" THEN {} ELSE read \cap Modules(s)
  IN  [version |-> s.version,
       files   |-> {<<p, s.tree[p]>> : p \in read},
       ids     |-> {<<p, s.roots[p]>> : p \in named},
       edges   |-> {e \in Edges(s) : \E p \in named : e[1] = s.roots[p]}]

ColdRun(s) == [r \in Records(s) |-> Evidence(r, s)]

Edits(a, b) ==
  Cardinality({p \in Paths : a.tree[p] # b.tree[p]})
  + (IF a.roots = b.roots THEN 0 ELSE 1) + (IF a.version = b.version THEN 0 ELSE 1)
  + (IF a.generated = b.generated THEN 0 ELSE 1)

Revisions(a) ==
  LET trees == UNION {{[p \in Paths |-> IF p \in P THEN f[p] ELSE a.tree[p]] :
                        f \in [P -> Contents \cup {Absent}]} :
                     P \in {Q \in SUBSET Paths : Cardinality(Q) <= MaxEdits}}
  IN  {s \in [tree : trees, roots : Roots, version : Versions, generated : Patterns] :
         Edits(a, s) <= MaxEdits}

\* The unchanged files that only the patterns take in or out, and the modules
\* that depended on one of them, or do now.
Reselected(a, b) ==
  {p \in Files(a) \cap Files(b) :
     a.tree[p] = b.tree[p] /\ ~(p \in a.generated <=> p \in b.generated)}

DependsOn(s, n, P) == \E p \in P \cap Modules(s) : s.roots[p] \in Dependencies(s, n)

Shifted(a, b) ==
  LET moved == Reselected(a, b)
  IN  {n \in Nodes : DependsOn(a, n, moved) \/ DependsOn(b, n, moved)}

Init ==
  /\ now \in Snapshots
  /\ held = ColdRun(now)
  /\ sound = TRUE
  /\ missed = {}

\* The revision of the session may be unrelated to that of the last one, or
\* its ancestry unverified.
Session(s, verified) ==
  /\ \E reusable \in {Reusable(now, s, verified /\ sound)} :
       /\ held' = [r \in Records(s) |-> IF r \in reusable THEN held[r] ELSE Evidence(r, s)]
       /\ missed' = (missed \cup {<<"node", n>> : n \in Shifted(now, s)}) \cap reusable
  /\ now' = s
  /\ sound' = TRUE

\* The stored state is damaged; its validation will find out.
Damage ==
  /\ sound' = FALSE
  /\ held' = [r \in DOMAIN held |-> Spoiled]
  /\ missed' = {}
  /\ UNCHANGED now

Next ==
  \/ \E s \in Revisions(now), verified \in BOOLEAN : Session(s, verified)
  \/ Damage

Spec == Init /\ [][Next]_vars
---------------------------------------------------------------------------
(* Properties.                                                             *)

\* Whatever changed between sessions, and after any number of them, what is
\* held is what an analysis of the present revision from nothing would hold:
\* no record survives a change, an addition, a removal or a rename of anything
\* that it depends on, or depended on before.  The exception: a changed
\* generated_path_patterns takes an unchanged file in or out without a path
\* change, and when some other module did change, nothing makes the plan look
\* (dependency-invalidation.js:912): what depends on that file may be kept.
EvidenceIsFresh ==
  sound => /\ DOMAIN held = Records(now)
           /\ \A r \in Records(now) \ missed : held[r] = Evidence(r, now)

\* A plan that is incremental invalidates "only exact reverse dependents"
\* (dependency-invalidation.test.js:77): the record of a file or module that
\* a computation from nothing would give again is reused.
ReuseIsExact ==
  \A s \in Revisions(now) :
    LET reusable == Reusable(now, s, TRUE)
    IN  ~FullRecompute(now, s, TRUE) =>
          \A r \in (Records(now) \cap Records(s)) \ reusable :
            r[1] = "partition" \/ Evidence(r, now) # Evidence(r, s)
=============================================================================
