------------------------------ MODULE Diagram ------------------------------
(***************************************************************************)
(* The dependency diagram of the web console, the pure part of             *)
(* src/ui/src/jobs/JobDependencyDiagram.tsx: which jobs it draws around    *)
(* the current one, where, and with which arrows.                          *)
(*                                                                         *)
(* jobMap maps the names of the jobs the component fetched to              *)
(* [parent, deps]; parent is a name or a value outside the domain, deps    *)
(* the sequence of dependent_jobs.                                         *)
(***************************************************************************)
EXTENDS Integers, Sequences, FiniteSets, SequencesExt, FiniteSetsExt, TLC

NODE_WIDTH   == 160
NODE_HEIGHT  == 60
LEVEL_HEIGHT == 100
NODE_SPACING == 20
svgPadding   == 40

----------------------------------------------------------------------------
(***************************************************************************)
(* The walks.  Their state: the names already visited, the level last      *)
(* written for a name, and the names found, in order and perhaps repeated. *)
(***************************************************************************)

Walk(levels) == [processed |-> {}, jobLevels |-> levels, found |-> <<>>]

Visit(w, name) == [w EXCEPT !.processed = @ \cup {name}]

Find(w, name, level) ==
    [w EXCEPT !.jobLevels = (name :> level) @@ @, !.found = Append(@, name)]

\* A defective walk that leaves the ancestors on the level of the current job.
RECURSIVE findAncestorsFlat(_, _, _, _)
findAncestorsFlat(jobMap, name, level, w) ==
    IF name \in w.processed THEN w
    ELSE IF name \notin DOMAIN jobMap \/ jobMap[name].parent \notin DOMAIN jobMap
      THEN Visit(w, name)
      ELSE LET parent == jobMap[name].parent
           IN  findAncestorsFlat(jobMap, parent, level,
                                 Find(Visit(w, name), parent, level))

RECURSIVE findAncestors(_, _, _, _)
findAncestors(jobMap, name, level, w) ==
    IF name \in w.processed THEN w
    ELSE IF name \notin DOMAIN jobMap \/ jobMap[name].parent \notin DOMAIN jobMap
      THEN Visit(w, name)
      ELSE LET parent == jobMap[name].parent
           IN  findAncestors(jobMap, parent, level - 1,
                             Find(Visit(w, name), parent, level - 1))

\* A defective walk that stops below the first child.
RECURSIVE findFirstDescendant(_, _, _, _)
findFirstDescendant(jobMap, name, level, w) ==
    IF name \in w.processed \/ name \notin DOMAIN jobMap \/ jobMap[name].deps = <<>>
      THEN w
      ELSE LET child == Head(jobMap[name].deps)
           IN  IF child \in DOMAIN jobMap
                 THEN findFirstDescendant(jobMap, child, level + 1,
                                          Find(Visit(w, name), child, level + 1))
                 ELSE Visit(w, name)

\* The level of a name is the one of the last visit, even after the name's own
\* walk is over.
RECURSIVE findDescendants(_, _, _, _)
findDescendants(jobMap, name, level, w) ==
    IF name \in w.processed THEN w
    ELSE IF name \notin DOMAIN jobMap THEN Visit(w, name)
    ELSE LET Child(v, child) ==
               IF child \in DOMAIN jobMap
                 THEN findDescendants(jobMap, child, level + 1, Find(v, child, level + 1))
                 ELSE v
         IN  FoldLeft(Child, Visit(w, name), jobMap[name].deps)

\* A JavaScript Set keeps the first occurrence of each element.
Distinct(s) == FoldLeft(LAMBDA d, x : IF Contains(d, x) THEN d ELSE Append(d, x), <<>>, s)

----------------------------------------------------------------------------
(***************************************************************************)
(* The layout                                                              *)
(***************************************************************************)

levelWidth(n) == n * (NODE_WIDTH + NODE_SPACING) - NODE_SPACING

\* A defective layout that places a level's boxes from the level's first one.
PositionUnspaced(row, index, maxWidth, depth) ==
    [x |-> (maxWidth - levelWidth(Len(row))) \div 2 + (index - 1) * (NODE_WIDTH - NODE_SPACING),
     y |-> depth * LEVEL_HEIGHT + 30]

\* The box of the index-th name of a level; widths differ by even numbers.
Position(row, index, maxWidth, depth) ==
    [x |-> (maxWidth - levelWidth(Len(row))) \div 2 + (index - 1) * (NODE_WIDTH + NODE_SPACING),
     y |-> depth * LEVEL_HEIGHT + 30]

buildDependencyGraph(current, jobMap) ==
    LET up      == findAncestors(jobMap, current, 0, Walk(current :> 0))
        down    == findDescendants(jobMap, current, 0, Walk(up.jobLevels))
        related == Distinct(<<current>> \o up.found \o down.found)
        level   == down.jobLevels
        levels  == {level[n] : n \in ToSet(related)}
        minLevel == Min(levels)
        Row(l)  == SelectSeq(related, LAMBDA n : level[n] = l)
        maxWidth == Max({levelWidth(Len(Row(l))) : l \in levels})
        At(n)   == LET row == Row(level[n])
                   IN  Position(row, SelectInSeq(row, LAMBDA m : m = n),
                                maxWidth, level[n] - minLevel)
    IN  [nodes |-> {[id |-> n, x |-> At(n).x, y |-> At(n).y,
                     isCurrent |-> n = current] :
                        n \in ToSet(related) \cap DOMAIN jobMap},
         edges |-> {[from |-> jobMap[n].parent, to |-> n,
                     fromY |-> At(jobMap[n].parent).y, toY |-> At(n).y] :
                        n \in {m \in ToSet(related) \cap DOMAIN jobMap :
                                  jobMap[m].parent \in ToSet(related)}}]

\* Where an edge's arrow starts and ends, on the vertical axis.
DiagramEdge(e) == [startY |-> e.fromY + NODE_HEIGHT, endY |-> e.toY]

\* What a node covers: its box, and for the current job the caption below it.
DiagramNode(n) ==
    [left |-> n.x, right |-> n.x + NODE_WIDTH, top |-> n.y,
     bottom |-> n.y + NODE_HEIGHT + IF n.isCurrent THEN 18 ELSE 0]

\* The size of the drawing.
svgSize(nodes) ==
    [width  |-> Max({n.x + NODE_WIDTH : n \in nodes} \cup {300}) + svgPadding * 2,
     height |-> Max({n.y + NODE_HEIGHT + 30 : n \in nodes} \cup {150}) + svgPadding]

----------------------------------------------------------------------------
(***************************************************************************)
(* The reference: what a diagram of the jobs around current is.            *)
(***************************************************************************)

RECURSIVE Reached(_, _)
Reached(links, names) ==
    LET more == names \cup UNION {links[n] : n \in names}
    IN  IF more = names THEN names ELSE Reached(links, more)

\* The edges among the fetched jobs, upwards and downwards.
ParentLinks(jobMap) ==
    [n \in DOMAIN jobMap |-> {jobMap[n].parent} \cap DOMAIN jobMap]

DependentLinks(jobMap) ==
    [n \in DOMAIN jobMap |-> ToSet(jobMap[n].deps) \cap DOMAIN jobMap]

\* The current job, its ancestors and its descendants.
Related(current, jobMap) ==
    LET self == {current} \cap DOMAIN jobMap
    IN  Reached(ParentLinks(jobMap), self) \cup Reached(DependentLinks(jobMap), self)

\* The lists of dependents are the children, and no job is its own ancestor.
IsForest(jobMap) ==
    LET up == ParentLinks(jobMap)
    IN  /\ \A n, d \in DOMAIN jobMap : Contains(jobMap[n].deps, d) <=> jobMap[d].parent = n
        /\ \A n \in DOMAIN jobMap : n \notin Reached(up, up[n])

Apart(a, b) ==
    \/ a.right <= b.left \/ b.right <= a.left
    \/ a.bottom <= b.top \/ b.bottom <= a.top
============================================================================
