--------------------------- MODULE ProjectsProofs ---------------------------
(***************************************************************************)
(* Proofs about Projects: the tables stay sound, usage stays at home, the  *)
(* fold is final and forgets nothing, a disabled repository is off.        *)
(*                                                                         *)
(* Three theorems need that directories are laid out the way Claude Code   *)
(* lays them out, which the fold relies on as well (WorktreesBelong), and  *)
(* one that the commands run one at a time (OneUser).                      *)
(***************************************************************************)
EXTENDS Projects, TLAPS, WellFoundedInduction

-----------------------------------------------------------------------------
(***************************************************************************)
(* Numbers: a set of naturals has a least element.                         *)
(***************************************************************************)

LEMMA LessThanIsWellFounded ==
  \E R : IsWellFoundedOn(R, Nat) /\ \A m, k \in Nat : m < k => <<m, k>> \in R
<1>1. \A m, k \in Nat : m < k => <<m, k>> \in OpToRel(<, Nat)
  BY DEF OpToRel
<1> QED BY <1>1, NatLessThanWellFounded

LEMMA LeastNat ==
  ASSUME NEW T, T \subseteq Nat, T # {}
  PROVE  \E n \in T : \A m \in T : n <= m
<1>1. PICK R : IsWellFoundedOn(R, Nat) /\ \A m, k \in Nat : m < k => <<m, k>> \in R
  BY LessThanIsWellFounded
<1>2. IsWellFoundedOn(R, Nat)
  BY <1>1
<1>3. \E n \in T : \A m \in T : ~ (<<m, n>> \in R)
  BY <1>2, WFMin
<1>4. PICK n \in T : \A m \in T : ~ (<<m, n>> \in R)
  BY <1>3
<1>5. \A m \in T : ~(m < n)
  BY <1>1, <1>4
<1>6. \A m \in T : m \in Nat /\ n \in Nat
  OBVIOUS
<1>7. \A m \in T : n <= m
  BY <1>5, <1>6
<1> QED BY <1>7

-----------------------------------------------------------------------------
(***************************************************************************)
(* The helpers of the model.                                               *)
(***************************************************************************)

LEMMA RowType ==
  \A r \in Row : /\ r.id \in 1..MaxId /\ r.id \in Nat /\ r.path \in Path
                 /\ r.name \in Name \cup {NoName} /\ r.mirror \in Path \cup {NoPath}
BY ProjectsAssumption DEF Row

LEMMA FirstExists ==
  ASSUME NEW rows, rows \subseteq Row, rows # {}
  PROVE  FirstOf(rows) # {}
<1> DEFINE ids == {r.id : r \in rows}
<1>1. ids \subseteq Nat /\ ids # {}
  BY RowType
<1>2. PICK n \in ids : \A m \in ids : n <= m
  <2> HIDE DEF ids
  <2> QED BY <1>1, LeastNat
<1>3. PICK r \in rows : r.id = n
  OBVIOUS
<1>4. \A s \in rows : r.id <= s.id
  BY <1>2, <1>3
<1> QED BY <1>3, <1>4 DEF FirstOf

\* The stored spelling denotes the same directory, and is stored unless the
\* directory is not known.
LEMMA CanonicalSame ==
  ASSUME NEW rows, rows \subseteq Row, NEW path \in Path
  PROVE  /\ Canonical(rows, path) \in Path
         /\ Real[Canonical(rows, path)] = Real[path]
         /\ \/ RowAt(rows, Canonical(rows, path)) # {}
            \/ /\ Canonical(rows, path) = path
               /\ \A r \in rows : ~ /\ <<path, r.path>> \in SameName
                                    /\ Real[r.path] \in present /\ Real[r.path] = Real[path]
<1> DEFINE same == {r \in rows : /\ <<path, r.path>> \in SameName
                                 /\ Real[r.path] \in present /\ Real[r.path] = Real[path]}
<1>1. CASE RowAt(rows, path) # {}
  BY <1>1 DEF Canonical
<1>2. CASE RowAt(rows, path) = {} /\ same = {}
  BY <1>2 DEF Canonical
<1>3. CASE RowAt(rows, path) = {} /\ same # {}
  <2>1. PICK f \in FirstOf(same) : TRUE
    BY <1>3, FirstExists
  <2>2. f \in same /\ f.path \in Path
    BY <2>1, RowType DEF FirstOf
  <2>3. Canonical(rows, path) = CHOOSE p \in Path : \E r \in FirstOf(same) : p = r.path
    BY <1>3 DEF Canonical
  <2>4. /\ Canonical(rows, path) \in Path
        /\ \E r \in FirstOf(same) : Canonical(rows, path) = r.path
    BY <2>1, <2>2, <2>3
  <2>5. PICK r \in same : Canonical(rows, path) = r.path
    BY <2>4 DEF FirstOf
  <2> QED BY <2>4, <2>5 DEF RowAt
<1> QED BY <1>1, <1>2, <1>3

LEMMA FoldDestSame ==
  ASSUME NEW rows, rows \subseteq Row, NEW target \in Path
  PROVE  /\ FoldDest(rows, target) \in Path
         /\ Real[FoldDest(rows, target)] = Real[target]
         /\ \/ RowAt(rows, FoldDest(rows, target)) # {}
            \/ FoldDest(rows, target) = target /\ \A r \in rows : Real[r.path] # Real[target]
<1> DEFINE same == {r \in rows : Real[r.path] = Real[target]}
<1>1. CASE RowAt(rows, target) # {}
  BY <1>1 DEF FoldDest
<1>2. CASE RowAt(rows, target) = {} /\ same = {}
  BY <1>2 DEF FoldDest
<1>3. CASE RowAt(rows, target) = {} /\ same # {}
  <2>1. PICK f \in FirstOf(same) : TRUE
    BY <1>3, FirstExists
  <2>2. f \in same /\ f.path \in Path
    BY <2>1, RowType DEF FirstOf
  <2>3. FoldDest(rows, target) = CHOOSE p \in Path : \E r \in FirstOf(same) : p = r.path
    BY <1>3 DEF FoldDest
  <2>4. /\ FoldDest(rows, target) \in Path
        /\ \E r \in FirstOf(same) : FoldDest(rows, target) = r.path
    BY <2>1, <2>2, <2>3
  <2>5. PICK r \in same : FoldDest(rows, target) = r.path
    BY <2>4 DEF FirstOf
  <2> QED BY <2>4, <2>5 DEF RowAt
<1> QED BY <1>1, <1>2, <1>3

\* One row for a path and for an id.
Apart(rows) == \A r, q \in rows : r.path = q.path \/ r.id = q.id => r = q

LEMMA SoundIsApart ==
  \A t : Sound(t) <=> /\ Apart(t.rows)
                      /\ \A s \in Session : t.home[s] = 0 \/ \E r \in t.rows : r.id = t.home[s]
BY DEF Sound, Apart

LEMMA CreateRow ==
  ASSUME NEW rows, rows \subseteq Row, Apart(rows), NEW path \in Path,
         NEW g \in GetOrCreate(rows, path)
  PROVE  /\ rows \subseteq g.rows /\ g.rows \subseteq Row /\ Apart(g.rows)
         /\ g.id \in 1..MaxId
         /\ \E d \in g.rows : d.id = g.id /\ d.path = path
         /\ \A d \in g.rows \ rows :
              /\ RowAt(rows, path) = {}
              /\ d = [id |-> g.id, path |-> path, name |-> NoName, mirror |-> NoPath]
              /\ \A r \in rows : r.id # d.id /\ r.path # path
<1>1. CASE RowAt(rows, path) # {}
  BY <1>1, RowType DEF GetOrCreate, RowAt
<1>2. CASE RowAt(rows, path) = {}
  <2>1. PICK n \in NextIds(rows) :
          g = [rows |-> rows \cup {[id |-> n, path |-> path, name |-> NoName, mirror |-> NoPath]},
               id |-> n]
    BY <1>2 DEF GetOrCreate
  <2> DEFINE d == [id |-> n, path |-> path, name |-> NoName, mirror |-> NoPath]
  <2>2. n \in 1..MaxId /\ \A r \in rows : r.id < n
    BY DEF NextIds
  <2>3. \A r \in rows : r.id # n /\ r.path # path
    BY <1>2, <2>2, RowType DEF RowAt
  <2>4. d \in Row /\ d.id = n /\ d.path = path
    BY <2>2 DEF Row
  <2>5. g.rows = rows \cup {d} /\ g.id = n
    BY <2>1
  <2> HIDE DEF d
  <2>6. Apart(g.rows)
    BY <2>3, <2>4, <2>5 DEF Apart
  <2> QED BY <1>2, <2>2, <2>3, <2>4, <2>5, <2>6 DEF d
<1> QED BY <1>1, <1>2

\* Naming a row or its mirror moves nothing: every row keeps its id and path.
Renamed(rows, new) ==
  /\ new \subseteq Row /\ Apart(new)
  /\ \A r \in rows : \E q \in new : q.id = r.id /\ q.path = r.path
  /\ \A q \in new : \E r \in rows : q.id = r.id /\ q.path = r.path

LEMMA RenameRows ==
  ASSUME NEW rows, rows \subseteq Row, Apart(rows), NEW path \in Path
  PROVE  /\ Renamed(rows, rows)
         /\ \A name \in Name \cup {NoName} : Renamed(rows, WithName(rows, path, name))
         /\ \A mirror \in Path \cup {NoPath} : Renamed(rows, WithMirror(rows, path, mirror))
<1>1. Renamed(rows, rows)
  BY DEF Renamed
<1>2. ASSUME NEW f, \A r \in rows : f[r] \in Row /\ f[r].id = r.id /\ f[r].path = r.path
      PROVE  Renamed(rows, {f[r] : r \in rows})
  BY <1>2 DEF Renamed, Apart
<1>3. ASSUME NEW name \in Name \cup {NoName} PROVE Renamed(rows, WithName(rows, path, name))
  <2> DEFINE f == [r \in rows |->
                     IF r.path = path THEN [id |-> r.id, path |-> path, name |-> name, mirror |-> r.mirror] ELSE r]
  <2>1. \A r \in rows : f[r] \in Row /\ f[r].id = r.id /\ f[r].path = r.path
    BY RowType DEF Row
  <2>2. {f[r] : r \in rows} = WithName(rows, path, name)
    BY DEF WithName
  <2> HIDE DEF f
  <2> QED BY <1>2, <2>1, <2>2
<1>4. ASSUME NEW mirror \in Path \cup {NoPath} PROVE Renamed(rows, WithMirror(rows, path, mirror))
  <2> DEFINE f == [r \in rows |->
                     IF r.path = path THEN [id |-> r.id, path |-> path, name |-> r.name, mirror |-> mirror] ELSE r]
  <2>1. \A r \in rows : f[r] \in Row /\ f[r].id = r.id /\ f[r].path = r.path
    BY RowType DEF Row
  <2>2. {f[r] : r \in rows} = WithMirror(rows, path, mirror)
    BY DEF WithMirror
  <2> HIDE DEF f
  <2> QED BY <1>2, <2>1, <2>2
<1> QED BY <1>1, <1>3, <1>4

-----------------------------------------------------------------------------
(***************************************************************************)
(* Checkouts and fold targets.                                             *)
(***************************************************************************)

LEMMA RealType ==
  /\ \A p \in Path : Real[p] \in Path /\ Real[p] \in Dir /\ Real[Real[p]] = Real[p]
  /\ \A d \in Dir : d \in Path /\ Real[d] = d
  /\ GitDir \subseteq Dir
  /\ \A d \in GitDir : Linked[d] = NoPath
  /\ \A d \in Dir : Linked[d] = NoPath \/ Linked[d] \in GitDir
  /\ \A p \in Path : Under[p] = NoPath \/ Under[p] \in Path
  /\ \A p \in Path : p # NoPath
BY ProjectsAssumption DEF Dir

\* The main checkout of a linked worktree holds a `.git` directory.
LEMMA MainOfLinked ==
  ASSUME NEW p \in Path, MainOf(p) # NoPath
  PROVE  /\ MainOf(p) \in Path /\ Real[MainOf(p)] = Linked[Real[p]]
         /\ Linked[Real[p]] \in GitDir \cap present
         /\ Real[p] \in present /\ Real[p] \notin GitDir
BY RealType DEF MainOf

LEMMA KeyType ==
  ASSUME NEW p \in Path
  PROVE  Key(p) \in Path /\ MainOf(Key(p)) = NoPath
<1>1. CASE MainOf(p) = NoPath
  BY <1>1 DEF Key
<1>2. CASE MainOf(p) # NoPath
  <2>1. Real[MainOf(p)] \in GitDir /\ MainOf(p) \in Path
    BY <1>2, MainOfLinked
  <2>2. MainOf(MainOf(p)) = NoPath
    BY <2>1, MainOfLinked
  <2> QED BY <1>2, <2>1, <2>2 DEF Key
<1> QED BY <1>1, <1>2

\* Only what is not a repository of its own is folded, and to a directory that
\* is known or holds one.
LEMMA FoldTargetKnown ==
  ASSUME NEW p \in Path, NEW others, FoldTarget(p, others) # NoPath
  PROVE  /\ FoldTarget(p, others) \in Path
         /\ ~(HasGit(p) /\ MainOf(p) = NoPath)
         /\ \/ Real[FoldTarget(p, others)] \in present \cap GitDir
            \/ \E o \in others : Real[o] = Real[FoldTarget(p, others)]
<1>1. CASE FoldTarget(p, others) = Under[p]
  BY <1>1, RealType, MainOfLinked DEF FoldTarget
<1>2. CASE FoldTarget(p, others) # Under[p]
  BY <1>2, MainOfLinked DEF FoldTarget
<1> QED BY <1>1, <1>2

\* What is folded stays in its repository, unless that is a clone that was
\* deleted, and is moved to another directory.
LEMMA FoldTargetHome ==
  ASSUME WorktreesBelong, NEW p \in Path, NEW others, FoldTarget(p, others) # NoPath
  PROVE  /\ \/ Repo(Real[FoldTarget(p, others)]) = Repo(Real[p])
            \/ LostClone(Repo(Real[p]))
         /\ Real[FoldTarget(p, others)] # Real[p]
<1> DEFINE target == FoldTarget(p, others)
<1>1. CASE Under[p] # NoPath /\ target = Under[p]
  <2>1. Real[target] # Real[p]
    BY <1>1 DEF WorktreesBelong
  <2>2. CASE Real[p] \in GitDir
    <3>1. Repo(Real[p]) = Real[p]
      BY <2>2, RealType DEF Repo
    <3>2. Real[p] \notin present
      <4>1. ~(HasGit(p) /\ MainOf(p) = NoPath)
        BY FoldTargetKnown
      <4>2. MainOf(p) = NoPath
        BY <2>2, MainOfLinked
      <4> QED BY <2>2, <4>1, <4>2 DEF HasGit
    <3> QED BY <1>1, <2>1, <2>2, <3>1, <3>2 DEF LostClone
  <2>3. CASE Real[p] \notin GitDir
    BY <1>1, <2>1, <2>3 DEF WorktreesBelong
  <2> QED BY <2>2, <2>3
<1>2. CASE ~(Under[p] # NoPath /\ target = Under[p])
  <2>1. target = MainOf(p) /\ MainOf(p) # NoPath /\ Real[MainOf(p)] # Real[p]
    BY <1>2 DEF FoldTarget
  <2>2. Repo(Real[p]) = Linked[Real[p]] /\ Real[target] = Linked[Real[p]]
    BY <2>1, MainOfLinked, RealType DEF Repo
  <2>3. Repo(Real[target]) = Real[target]
    BY <2>1, <2>2, MainOfLinked, RealType DEF Repo
  <2> QED BY <2>1, <2>2, <2>3
<1> QED BY <1>1, <1>2

-----------------------------------------------------------------------------
(***************************************************************************)
(* One row of the fold.                                                    *)
(***************************************************************************)

\* The rows after x has been folded into the row of dest in rows.
FoldedRows(rows, x, dest, new) ==
  /\ \A d \in rows : d.id # x.id => (IF d.id = dest.id THEN Inherit(d, x) ELSE d) \in new
  /\ \A e \in new : \E d \in rows :
       /\ d.id # x.id /\ d.path # x.path /\ e.id = d.id /\ e.path = d.path
       /\ e = IF d.id = dest.id THEN Inherit(d, x) ELSE d

LEMMA FoldIntoRows ==
  ASSUME NEW t, NEW x, NEW g, g.rows \subseteq Row, Apart(g.rows), x \in g.rows,
         NEW dest \in g.rows, dest.id = g.id
  PROVE  LET new == FoldInto(t, x, g).rows
         IN  new \subseteq Row /\ Apart(new) /\ FoldedRows(g.rows, x, dest, new)
<1> DEFINE f == [d \in g.rows |-> IF d.id = g.id THEN Inherit(d, x) ELSE d]
           stay == {d \in g.rows : d.id # x.id}
           new == {f[d] : d \in stay}
<1>1. \A d \in g.rows : f[d] \in Row /\ f[d].id = d.id /\ f[d].path = d.path
  <2>1. \A d \in g.rows : Inherit(d, x) \in Row /\ Inherit(d, x).id = d.id /\ Inherit(d, x).path = d.path
    BY RowType DEF Inherit, Row
  <2> QED BY <2>1
<1>2. \A d \in g.rows : f[d] = IF d.id = dest.id THEN Inherit(d, x) ELSE d
  OBVIOUS
<1>3. FoldInto(t, x, g).rows = new
  BY DEF FoldInto
<1>4. \A d \in stay : d.path # x.path
  BY DEF Apart
<1> HIDE DEF f
<1>5. new \subseteq Row
  BY <1>1
<1>6. Apart(new)
  BY <1>1 DEF Apart
<1>7. FoldedRows(g.rows, x, dest, new)
  BY <1>1, <1>2, <1>4 DEF FoldedRows
<1> QED BY <1>3, <1>5, <1>6, <1>7

\* What folding x does to the tables t.
Refolds(t, x, new) ==
  LET target == FoldTarget(x.path, {o.path : o \in t.rows \ {x}})
  IN  /\ target # NoPath
      /\ \E g \in GetOrCreate(t.rows, FoldDest(t.rows, target)) : \E dest \in g.rows :
           /\ dest.id = g.id /\ dest.path = FoldDest(t.rows, target)
           /\ dest.id # x.id /\ dest.path # x.path
           /\ FoldedRows(g.rows, x, dest, new.rows)
           /\ \A s \in Session :
                new.home[s] = IF t.home[s] = x.id THEN dest.id ELSE t.home[s]

LEMMA FoldedStep ==
  ASSUME NEW t \in Tables, Sound(t), NEW x \in t.rows, NEW new \in Folded(t, x)
  PROVE  /\ new \in Tables /\ Sound(new)
         /\ \/ /\ new = t
               /\ LET target == FoldTarget(x.path, {o.path : o \in t.rows \ {x}})
                  IN  target = NoPath \/ Real[target] = Real[x.path]
            \/ Refolds(t, x, new)
<1> DEFINE target == FoldTarget(x.path, {o.path : o \in t.rows \ {x}})
           path == FoldDest(t.rows, target)
<1>1. t.rows \subseteq Row /\ t.home \in [Session -> 0..MaxId] /\ Apart(t.rows) /\ x \in Row
  BY SoundIsApart DEF Tables
<1>2. CASE target = NoPath
  BY <1>2 DEF Folded
<1>3. ASSUME target # NoPath, NEW g \in GetOrCreate(t.rows, path), g.id = x.id, new = t
      PROVE  Real[target] = Real[x.path]
  <2>1. target \in Path
    BY <1>1, <1>3, RowType, FoldTargetKnown
  <2>2. path \in Path /\ Real[path] = Real[target]
    BY <1>1, <2>1, FoldDestSame
  <2>3. /\ t.rows \subseteq g.rows /\ Apart(g.rows)
        /\ \E d \in g.rows : d.id = g.id /\ d.path = path
    <3> HIDE DEF path
    <3> QED BY <1>1, <1>3, <2>2, CreateRow
  <2>4. PICK d \in g.rows : d.id = g.id /\ d.path = path
    BY <2>3
  <2>5. d = x
    BY <1>3, <2>3, <2>4 DEF Apart
  <2> QED BY <2>2, <2>4, <2>5
<1>4. ASSUME target # NoPath, NEW g \in GetOrCreate(t.rows, path), g.id # x.id, new = FoldInto(t, x, g)
      PROVE  new \in Tables /\ Sound(new) /\ Refolds(t, x, new)
  <2>1. target \in Path
    BY <1>1, <1>4, RowType, FoldTargetKnown
  <2>2. path \in Path
    BY <1>1, <2>1, FoldDestSame
  <2>3. /\ t.rows \subseteq g.rows /\ g.rows \subseteq Row /\ Apart(g.rows) /\ g.id \in 1..MaxId
        /\ \E d \in g.rows : d.id = g.id /\ d.path = path
    <3> HIDE DEF path
    <3> QED BY <1>1, <1>4, <2>2, CreateRow
  <2>4. PICK dest \in g.rows : dest.id = g.id /\ dest.path = path
    BY <2>3
  <2>5. dest.path # x.path
    BY <1>4, <2>3, <2>4 DEF Apart
  <2>6. new.rows \subseteq Row /\ Apart(new.rows) /\ FoldedRows(g.rows, x, dest, new.rows)
    BY <1>4, <2>3, <2>4, FoldIntoRows
  <2>7. /\ new.home = [s \in Session |-> IF t.home[s] = x.id THEN g.id ELSE t.home[s]]
        /\ new = [rows |-> new.rows, home |-> new.home]
    BY <1>4 DEF FoldInto
  <2>8. new.home \in [Session -> 0..MaxId]
    BY <1>1, <2>3, <2>7, ProjectsAssumption
  <2>9. new \in Tables
    BY <2>6, <2>7, <2>8 DEF Tables
  <2>10. ASSUME NEW s \in Session, new.home[s] # 0
         PROVE  \E r \in new.rows : r.id = new.home[s]
    <3>1. PICK d \in g.rows : d.id = new.home[s] /\ d.id # x.id
      <4>1. CASE t.home[s] = x.id
        BY <1>4, <2>4, <2>7, <4>1
      <4>2. CASE t.home[s] # x.id
        <5>1. new.home[s] = t.home[s]
          BY <2>7, <4>2
        <5>2. PICK r \in t.rows : r.id = t.home[s]
          BY <2>10, <5>1 DEF Sound
        <5> QED BY <2>3, <4>2, <5>1, <5>2
      <4> QED BY <4>1, <4>2
    <3>2. Inherit(d, x).id = d.id
      BY DEF Inherit
    <3> QED BY <2>6, <3>1, <3>2 DEF FoldedRows
  <2> QED BY <1>4, <2>4, <2>5, <2>6, <2>7, <2>9, <2>10, SoundIsApart DEF Refolds
<1> QED BY <1>2, <1>3, <1>4 DEF Folded

-----------------------------------------------------------------------------
(***************************************************************************)
(* What hooks and commands remember.                                       *)
(***************************************************************************)

Past == {"recording", "naming", "sweeping"}

LEMMA HookHolds ==
  ASSUME TypeOK, NEW h \in Hook
  PROVE  /\ At(h, "opening") => cmd[h].key \in Path /\ cmd[h].session \in Session /\ cmd[h].mirrored \in BOOLEAN
         /\ cmd[h].at \in Past \cup {"looking"} => cmd[h] \in Carried
         /\ At(h, "folding") => /\ cmd[h].todo \subseteq Row /\ cmd[h].tables \in Tables
                               /\ cmd[h].seen \subseteq Dir /\ cmd[h].after \in Carried
<1>1. cmd[h] \in HookState
  BY DEF TypeOK
<1>2. CASE cmd[h] = Idle
  BY <1>2 DEF At, Idle, Past
<1>3. CASE cmd[h] \in [at : {"opening"}, key : Path, session : Session, mirrored : BOOLEAN]
  BY <1>3 DEF At, Past
<1>4. CASE cmd[h] \in [at : {"folding"}, todo : SUBSET Row, tables : Tables, seen : SUBSET Dir, after : Carried]
  BY <1>4 DEF At, Past
<1>5. CASE cmd[h] \in Carried
  <2>1. cmd[h].at \in {"looking", "recording", "naming", "sweeping"}
    BY <1>5 DEF Carried
  <2> QED BY <1>5, <2>1 DEF At
<1> QED BY <1>1, <1>2, <1>3, <1>4, <1>5 DEF HookState

LEMMA CarriedFields ==
  \A c \in Carried : /\ c.at \in Past \cup {"looking"} /\ c.key \in Path /\ c.session \in Session
                     /\ c.mirrored \in BOOLEAN /\ c.project \in Path \cup {NoPath} /\ c.seen \subseteq Row
BY DEF Carried, Past

LEMMA CarryType ==
  ASSUME TypeOK, NEW h \in Hook, cmd[h].at \in Past \cup {"opening", "looking"},
         NEW at \in Past \cup {"looking"}, NEW project \in Path \cup {NoPath}, NEW seen \in SUBSET Row
  PROVE  /\ Carry(h, at, project, seen) \in Carried
         /\ Carry(h, at, project, seen).at = at
         /\ Carry(h, at, project, seen).key = cmd[h].key
         /\ Carry(h, at, project, seen).session = cmd[h].session
         /\ Carry(h, at, project, seen).project = project
         /\ Carry(h, at, project, seen).seen = seen
<1>1. cmd[h].key \in Path /\ cmd[h].session \in Session /\ cmd[h].mirrored \in BOOLEAN
  BY HookHolds, CarriedFields DEF At
<1> QED BY <1>1 DEF Carry, Carried, Past

LEMMA UserHolds ==
  ASSUME TypeOK, NEW u \in User
  PROVE  /\ cmd[u].at \in {"enable", "disable"} =>
              cmd[u] \in [at : {"enable", "disable"}, dir : Path, failed : BOOLEAN, root : Path, left : SUBSET Dir]
         /\ cmd[u].at \in {"clearing", "register"} => cmd[u].root \in Path
<1>1. cmd[u] \in UserState
  BY DEF TypeOK
<1>2. CASE cmd[u] = Idle
  BY <1>2 DEF Idle
<1>3. CASE cmd[u] \in [at : {"enable", "disable"}, dir : Path, failed : BOOLEAN, root : Path, left : SUBSET Dir]
  BY <1>3
<1>4. CASE cmd[u] \in [at : {"clearing", "register"}, root : Path]
  BY <1>4
<1>5. CASE cmd[u] \in [at : {"idle", "disabled"}, dir : Path]
  BY <1>5
<1> QED BY <1>1, <1>2, <1>3, <1>4, <1>5 DEF UserState

CmdOK ==
  /\ DOMAIN cmd = Hook \cup User
  /\ (\A h \in Hook : cmd[h] \in HookState) /\ (\A u \in User : cmd[u] \in UserState)

LEMMA HookGoes ==
  ASSUME TypeOK, NEW h \in Hook, NEW v \in HookState, Goto(h, v)
  PROVE  /\ CmdOK' /\ cmd'[h] = v
         /\ \A g \in Hook \ {h} : cmd'[g] = cmd[g]
         /\ \A u \in User : cmd'[u] = cmd[u]
BY ProjectsAssumption DEF TypeOK, Goto, CmdOK

LEMMA UserGoes ==
  ASSUME TypeOK, NEW u \in User, NEW v \in UserState, Goto(u, v)
  PROVE  /\ CmdOK' /\ cmd'[u] = v
         /\ \A h \in Hook : cmd'[h] = cmd[h]
         /\ \A w \in User \ {u} : cmd'[w] = cmd[w]
BY ProjectsAssumption DEF TypeOK, Goto, CmdOK

-----------------------------------------------------------------------------
(***************************************************************************)
(* What a write to the committed tables does: no row moves or disappears,  *)
(* at most one is added, at path, and a session may be filed under it.     *)
(***************************************************************************)

Adds(path) ==
  /\ db' \in Tables /\ Sound(db')
  /\ \A r \in db.rows : \E q \in db'.rows : q.id = r.id /\ q.path = r.path
  /\ \A q \in db'.rows : \/ \E r \in db.rows : q.id = r.id /\ q.path = r.path
                         \/ q.path = path /\ RowAt(db.rows, path) = {}

LEMMA WriteRows ==
  ASSUME db \in Tables, Sound(db), NEW path \in Path,
         NEW g \in GetOrCreate(db.rows, path), NEW new, Renamed(g.rows, new),
         NEW home \in [Session -> 0..MaxId],
         \A s \in Session : home[s] = db.home[s] \/ home[s] = g.id,
         db' = [rows |-> new, home |-> home]
  PROVE  Adds(path) /\ \E q \in db'.rows : q.id = g.id /\ q.path = path
<1>1. db.rows \subseteq Row /\ Apart(db.rows)
  BY SoundIsApart DEF Tables
<1>2. /\ db.rows \subseteq g.rows /\ g.rows \subseteq Row /\ Apart(g.rows)
      /\ \E d \in g.rows : d.id = g.id /\ d.path = path
      /\ \A d \in g.rows \ db.rows : RowAt(db.rows, path) = {} /\ d.path = path
  BY <1>1, CreateRow
<1>3. db'.rows = new /\ db'.home = home
  OBVIOUS
<1>4. db' \in Tables
  BY DEF Renamed, Tables
<1>5. \E q \in db'.rows : q.id = g.id /\ q.path = path
  BY <1>2, <1>3 DEF Renamed
<1>6. ASSUME NEW s \in Session, home[s] # 0 PROVE \E r \in new : r.id = home[s]
  <2>1. CASE home[s] = g.id
    BY <2>1, <1>5, <1>3
  <2>2. CASE home[s] = db.home[s]
    <3>1. PICK r \in db.rows : r.id = home[s]
      BY <1>6, <2>2 DEF Sound
    <3> QED BY <3>1, <1>2 DEF Renamed
  <2> QED BY <2>1, <2>2
<1>7. Sound(db')
  BY <1>3, <1>6, SoundIsApart DEF Renamed
<1>8. \A r \in db.rows : \E q \in db'.rows : q.id = r.id /\ q.path = r.path
  BY <1>2, <1>3 DEF Renamed
<1>9. ASSUME NEW q \in db'.rows
      PROVE  \/ \E r \in db.rows : q.id = r.id /\ q.path = r.path
             \/ q.path = path /\ RowAt(db.rows, path) = {}
  <2>1. PICK d \in g.rows : q.id = d.id /\ q.path = d.path
    BY <1>3 DEF Renamed
  <2> QED BY <2>1, <1>2
<1> QED BY <1>4, <1>5, <1>7, <1>8, <1>9 DEF Adds

\* An update of columns writes no row.
LEMMA UpdateRows ==
  ASSUME db \in Tables, Sound(db), NEW new, Renamed(db.rows, new),
         db' = [rows |-> new, home |-> db.home], NEW path
  PROVE  Adds(path) /\ db'.home = db.home
<1>1. new \subseteq Row /\ db.home \in [Session -> 0..MaxId]
  BY DEF Renamed, Tables
<1>2. db' \in Tables /\ db'.rows = new /\ db'.home = db.home
  BY <1>1 DEF Tables
<1>3. Sound(db')
  <2>1. \A s \in Session : db.home[s] = 0 \/ \E r \in new : r.id = db.home[s]
    BY DEF Sound, Renamed
  <2> QED BY <1>2, <2>1, SoundIsApart DEF Renamed
<1> QED BY <1>2, <1>3 DEF Adds, Renamed

\* A recording files its session under the project, unless it is filed already.
LEMMA StoredStep ==
  ASSUME TypeOK, Sound(db), NEW h \in Hook, cmd[h].at \in Past, cmd[h].project \in Path,
         NEW mirror \in BOOLEAN, Stored(h, mirror)
  PROVE  /\ Adds(cmd[h].project)
         /\ born' \in [Session -> Dir \cup {NoPath}]
         /\ \A s \in Session :
              \/ db'.home[s] = db.home[s] /\ born'[s] = born[s]
              \/ /\ db.home[s] = 0 /\ born'[s] = Real[cmd[h].key]
                 /\ \E q \in db'.rows : q.id = db'.home[s] /\ q.path = cmd[h].project
<1> DEFINE path == cmd[h].project
           key == cmd[h].key
           session == cmd[h].session
<1>1. key \in Path /\ session \in Session
  BY HookHolds, CarriedFields
<1>2. PICK g \in GetOrCreate(db.rows, path) :
        db' = [rows |-> IF mirror THEN WithMirror(g.rows, path, key) ELSE g.rows,
               home |-> Filed(db.home, session, g.id)]
  BY DEF Stored
<1>3. born' = IF db.home[session] = 0 THEN [born EXCEPT ![session] = Real[key]] ELSE born
  BY DEF Stored
<1>4. db \in Tables /\ db.rows \subseteq Row /\ Apart(db.rows) /\ db.home \in [Session -> 0..MaxId]
  BY SoundIsApart DEF TypeOK, Tables
<1>5. g.rows \subseteq Row /\ Apart(g.rows) /\ g.id \in 1..MaxId
  BY <1>4, CreateRow
<1> DEFINE new == IF mirror THEN WithMirror(g.rows, path, key) ELSE g.rows
           home == Filed(db.home, session, g.id)
<1>6. Renamed(g.rows, new)
  BY <1>1, <1>5, RenameRows
<1>7. /\ home \in [Session -> 0..MaxId]
      /\ \A s \in Session : \/ home[s] = db.home[s] /\ ~(s = session /\ db.home[s] = 0)
                            \/ home[s] = g.id /\ s = session /\ db.home[s] = 0
  <2>1. g.id \in 0..MaxId
    BY <1>5, ProjectsAssumption
  <2>2. CASE db.home[session] = 0
    <3>1. home = [db.home EXCEPT ![session] = g.id]
      BY <2>2 DEF Filed
    <3> HIDE DEF home, session
    <3> QED BY <1>1, <1>4, <2>1, <2>2, <3>1
  <2>3. CASE db.home[session] # 0
    <3>1. home = db.home
      BY <2>3 DEF Filed
    <3> QED BY <1>4, <2>3, <3>1
  <2> QED BY <2>2, <2>3
<1>8. Adds(path) /\ \E q \in db'.rows : q.id = g.id /\ q.path = path
  <2> HIDE DEF new, home, path
  <2>1. db' = [rows |-> new, home |-> home]
    BY <1>2 DEF new, home, path
  <2>2. path \in Path
    BY DEF path
  <2>3. g \in GetOrCreate(db.rows, path)
    BY DEF path
  <2>4. \A s \in Session : home[s] = db.home[s] \/ home[s] = g.id
    BY <1>7
  <2> QED BY <1>4, <1>6, <1>7, <2>1, <2>2, <2>3, <2>4, WriteRows
<1>9. born' \in [Session -> Dir \cup {NoPath}]
  BY <1>1, <1>3, RealType DEF TypeOK
<1>10. db'.home = home
  BY <1>2
<1>11. ASSUME NEW s \in Session
       PROVE  \/ db'.home[s] = db.home[s] /\ born'[s] = born[s]
              \/ /\ db.home[s] = 0 /\ born'[s] = Real[key]
                 /\ \E q \in db'.rows : q.id = db'.home[s] /\ q.path = path
  <2>1. CASE s = session /\ db.home[s] = 0
    <3>1. born'[s] = Real[key]
      BY <1>3, <2>1 DEF TypeOK
    <3>2. db'.home[s] = g.id
      BY <1>10, <1>7, <2>1
    <3> QED BY <1>8, <2>1, <3>1, <3>2
  <2>2. CASE ~(s = session /\ db.home[s] = 0)
    <3>1. born'[s] = born[s]
      BY <1>3, <2>2 DEF TypeOK
    <3>2. db'.home[s] = db.home[s]
      BY <1>10, <1>7, <2>2
    <3> QED BY <3>1, <3>2
  <2> QED BY <2>1, <2>2
<1> QED BY <1>8, <1>9, <1>11

-----------------------------------------------------------------------------
(***************************************************************************)
(* The tables are sound at every moment.                                   *)
(***************************************************************************)

\* What a step may set without leaving the types, the commands aside.
StateOK ==
  /\ present \subseteq Dir
  /\ marker \in [Dir -> {"none", "central", "project"}]
  /\ db \in Tables /\ Sound(db)
  /\ version \in {"old", "new"}
  /\ born \in [Session -> Dir \cup {NoPath}]
  /\ started \in 0..MaxStarted

LEMMA StateOf == IndInv => StateOK
BY DEF IndInv, TypeOK, StateOK

LEMMA StateUnchanged ==
  ASSUME StateOK, UNCHANGED <<present, marker, db, version, born>>, started' \in 0..MaxStarted
  PROVE  StateOK'
BY DEF StateOK

\* A hook goes on to v; what it has found or folded is as it should be.
HookReady(v) ==
  /\ v \in HookState
  /\ v.at \in Past => v.project \in Path /\ Real[v.project] = Real[v.key]
  /\ v.at = "folding" => v.after.at = "looking" /\ Sound(v.tables)

LEMMA HookStep ==
  ASSUME IndInv, NEW h \in Hook, NEW v, HookReady(v), Goto(h, v), StateOK', present' \subseteq present,
         v.at = "folding" =>
           present \subseteq v.seen /\ \A g \in Hook : At(g, "folding") => g = h
  PROVE  IndInv'
<1>1. CmdOK' /\ cmd'[h] = v /\ \A g \in Hook \ {h} : cmd'[g] = cmd[g]
  BY HookGoes DEF HookReady, IndInv
<1>2. TypeOK'
  BY <1>1 DEF CmdOK, StateOK, TypeOK
<1>3. KeysAgree'
  BY <1>1 DEF KeysAgree, IndInv, HookReady, Past
<1>4. FoldsAlone'
  BY <1>1 DEF FoldsAlone, IndInv, HookReady, At
<1>5. \A g \in Hook : At(g, "folding")' => Sound(cmd'[g].tables)
  BY <1>1 DEF IndInv, HookReady, At
<1> QED BY <1>2, <1>3, <1>4, <1>5 DEF IndInv, StateOK, Sound

LEMMA UserStep ==
  ASSUME IndInv, NEW u \in User, NEW v \in UserState, Goto(u, v), StateOK', present' = present
  PROVE  IndInv'
<1>1. CmdOK' /\ \A g \in Hook : cmd'[g] = cmd[g]
  BY UserGoes DEF IndInv
<1>2. TypeOK'
  BY <1>1 DEF CmdOK, StateOK, TypeOK
<1>3. KeysAgree'
  BY <1>1 DEF KeysAgree, IndInv
<1>4. FoldsAlone'
  BY <1>1 DEF FoldsAlone, IndInv, At
<1>5. \A g \in Hook : At(g, "folding")' => Sound(cmd'[g].tables)
  BY <1>1 DEF IndInv, At
<1> QED BY <1>2, <1>3, <1>4, <1>5 DEF IndInv, StateOK, Sound

\* What a hook carries on is one of its states, agreed once it has looked.
LEMMA CarryReady ==
  ASSUME IndInv, NEW h \in Hook, cmd[h].at \in Past,
         NEW at \in {"naming", "sweeping"}
  PROVE  HookReady(Carry(h, at, cmd[h].project, cmd[h].seen)) /\ at # "folding"
         /\ Carry(h, at, cmd[h].project, cmd[h].seen).at = at
<1>1. TypeOK /\ cmd[h].project \in Path /\ Real[cmd[h].project] = Real[cmd[h].key]
  BY DEF IndInv, KeysAgree, Past
<1>2. cmd[h].seen \subseteq Row
  BY <1>1, HookHolds, CarriedFields
<1>3. at \in Past
  BY DEF Past
<1> QED BY <1>1, <1>2, <1>3, CarryType DEF HookReady, HookState, Past

LEMMA IdleReady == HookReady(Idle) /\ Idle.at = "idle" /\ Idle \in UserState
BY DEF HookReady, HookState, UserState, Idle, Past

\* After the fold the hook looks, whatever came of it.
LEMMA AfterReady ==
  ASSUME IndInv, NEW h \in Hook, At(h, "folding")
  PROVE  HookReady(cmd[h].after) /\ cmd[h].after.at = "looking"
<1>1. cmd[h].after \in Carried /\ cmd[h].after.at = "looking"
  BY HookHolds DEF IndInv, FoldsAlone
<1> QED BY <1>1 DEF HookReady, HookState, Past

LEMMA ProjectsStart == Init => IndInv
<1> SUFFICES ASSUME Init PROVE IndInv
  OBVIOUS
<1>1. PICK old \in Legacy : db = old.tables /\ present = old.present
  BY DEF Init
<1>2. db \in Tables /\ Sound(db) /\ present \subseteq Dir
  BY <1>1, LegacyAssumption
<1>3. marker \in [Dir -> {"none", "central", "project"}]
  BY LegacyAssumption DEF Init
<1>4. cmd \in [Hook \cup User -> {Idle}]
  BY DEF Init
<1>5. born \in [Session -> Dir \cup {NoPath}]
  <2>1. ASSUME NEW s \in Session, db.home[s] # 0
        PROVE  (CHOOSE d \in Dir : \E r \in db.rows : r.id = db.home[s] /\ d = Real[r.path]) \in Dir
    <3>1. PICK r \in db.rows : r.id = db.home[s]
      BY <1>2, <2>1 DEF Sound
    <3>2. Real[r.path] \in Dir
      BY <1>2, RowType, RealType DEF Tables
    <3> QED BY <3>1, <3>2
  <2>2. born = [s \in Session |->
               IF db.home[s] = 0 THEN NoPath
               ELSE CHOOSE d \in Dir : \E r \in db.rows : r.id = db.home[s] /\ d = Real[r.path]]
    BY DEF Init
  <2> QED BY <2>1, <2>2
<1>6. TypeOK
  BY <1>2, <1>3, <1>4, <1>5, ProjectsAssumption DEF TypeOK, Init, HookState, UserState
<1>7. \A p \in Hook \cup User : cmd[p].at = "idle"
  BY <1>4 DEF Idle
<1> QED BY <1>2, <1>6, <1>7 DEF IndInv, KeysAgree, FoldsAlone, At

LEMMA StartCounts ==
  ASSUME TypeOK, Start PROVE started' \in 0..MaxStarted
BY ProjectsAssumption DEF TypeOK, Start

\* What the steps of a hook write.
LEMMA CaptureHolds ==
  ASSUME IndInv, NEW h \in Hook, Capture(h)
  PROVE  IndInv'
<1> USE StateOf
<1>0. TypeOK /\ Sound(db) /\ started \in 0..MaxStarted
  BY DEF IndInv, TypeOK
<1>1. ASSUME NEW p \in Cwd, NEW s \in Session, Gate(h, p, s) PROVE IndInv'
  <2> DEFINE v == [at |-> "opening", key |-> Key(p), session |-> s, mirrored |-> ProjectMode(p)]
  <2>1. p \in Path
    BY ProjectsAssumption
  <2>2. HookReady(v) /\ v.at = "opening"
    BY <2>1, KeyType DEF HookReady, HookState, Past, ProjectMode
  <2>3. StateOK' /\ present' = present /\ Goto(h, v)
    BY <1>0, <1>1, StartCounts, StateUnchanged DEF Gate
  <2> QED BY <2>2, <2>3, HookStep
<1>2. ASSUME FoldBegin(h) PROVE IndInv'
  <2> DEFINE v == [at |-> "folding", todo |-> db.rows, tables |-> db, seen |-> present,
                   after |-> Carry(h, "looking", NoPath, {})]
  <2>1. Carry(h, "looking", NoPath, {}) \in Carried /\ Carry(h, "looking", NoPath, {}).at = "looking"
    BY <1>0, <1>2, CarryType DEF FoldBegin, At
  <2>2. HookReady(v) /\ v.at = "folding" /\ v.seen = present
    BY <1>0, <2>1 DEF HookReady, HookState, Past, TypeOK, Tables
  <2>3. StateOK' /\ present' = present /\ Goto(h, v)
    BY <1>0, <1>2, StateUnchanged DEF FoldBegin
  <2>4. \A g \in Hook : At(g, "folding") => g = h
    BY <1>2 DEF FoldBegin, Writable
  <2> QED BY <2>2, <2>3, <2>4, HookStep
<1>3. ASSUME FoldRow(h) PROVE IndInv'
  <2>1. PICK r \in FirstOf(cmd[h].todo), x \in cmd[h].tables.rows :
          \E t \in Folded(cmd[h].tables, x) :
            Goto(h, [at |-> "folding", todo |-> cmd[h].todo \ {r}, tables |-> t,
                     seen |-> cmd[h].seen, after |-> cmd[h].after])
    BY <1>3 DEF FoldRow
  <2> PICK t \in Folded(cmd[h].tables, x) :
        Goto(h, [at |-> "folding", todo |-> cmd[h].todo \ {r}, tables |-> t,
                 seen |-> cmd[h].seen, after |-> cmd[h].after])
    BY <2>1
  <2> DEFINE v == [at |-> "folding", todo |-> cmd[h].todo \ {r}, tables |-> t,
                   seen |-> cmd[h].seen, after |-> cmd[h].after]
  <2>2. At(h, "folding")
    BY <1>3 DEF FoldRow
  <2>3. cmd[h].todo \subseteq Row /\ cmd[h].tables \in Tables /\ cmd[h].seen \subseteq Dir /\ cmd[h].after \in Carried
    BY <1>0, <2>2, HookHolds
  <2>4. /\ Sound(cmd[h].tables) /\ cmd[h].after.at = "looking" /\ present \subseteq cmd[h].seen
        /\ \A g \in Hook : At(g, "folding") => g = h
    BY <2>2 DEF IndInv, FoldsAlone
  <2>5. t \in Tables /\ Sound(t)
    BY <2>3, <2>4, FoldedStep
  <2>6. HookReady(v) /\ v.at = "folding" /\ v.seen = cmd[h].seen
    BY <2>3, <2>4, <2>5 DEF HookReady, HookState, Past
  <2>7. StateOK' /\ present' = present /\ Goto(h, v)
    BY <1>0, <1>3, StateUnchanged DEF FoldRow
  <2> QED BY <2>4, <2>6, <2>7, HookStep
<1>4. ASSUME FoldCommit(h) PROVE IndInv'
  <2>1. At(h, "folding")
    BY <1>4 DEF FoldCommit
  <2>2. cmd[h].tables \in Tables /\ Sound(cmd[h].tables)
    BY <1>0, <2>1, HookHolds DEF IndInv
  <2>3. StateOK' /\ present' = present /\ Goto(h, cmd[h].after)
    BY <1>4, <2>2 DEF FoldCommit, StateOK, Sound
  <2> QED BY <2>1, <2>3, AfterReady, HookStep
<1>5. ASSUME FoldFails(h) PROVE IndInv'
  <2>1. At(h, "folding") /\ StateOK' /\ present' = present /\ Goto(h, cmd[h].after)
    BY <1>0, <1>5, StateUnchanged DEF FoldFails
  <2> QED BY <2>1, AfterReady, HookStep
<1>6. ASSUME OpenAsIs(h) PROVE IndInv'
  <2> DEFINE v == Carry(h, "looking", NoPath, {})
  <2>1. v \in Carried /\ v.at = "looking"
    BY <1>0, <1>6, CarryType DEF OpenAsIs, At
  <2>2. HookReady(v)
    BY <2>1 DEF HookReady, HookState, Past
  <2>3. StateOK' /\ present' = present /\ Goto(h, v)
    BY <1>0, <1>6, StateUnchanged DEF OpenAsIs
  <2> HIDE DEF v
  <2> QED BY <2>1, <2>2, <2>3, HookStep
<1>7. ASSUME Lookup(h) PROVE IndInv'
  <2> DEFINE project == Canonical(db.rows, cmd[h].key)
             v == Carry(h, "recording", project, db.rows)
  <2>1. cmd[h].at = "looking" /\ db.rows \subseteq Row
    BY <1>0, <1>7 DEF Lookup, At, TypeOK, Tables
  <2>2. cmd[h].key \in Path
    BY <1>0, <2>1, HookHolds, CarriedFields
  <2>3. project \in Path /\ Real[project] = Real[cmd[h].key]
    BY <2>1, <2>2, CanonicalSame
  <2> HIDE DEF project
  <2>4. v \in Carried /\ v.at = "recording" /\ v.key = cmd[h].key /\ v.project = project
    BY <1>0, <2>1, <2>3, CarryType DEF Past
  <2>5. HookReady(v)
    BY <2>3, <2>4 DEF HookReady, HookState, Past
  <2>6. StateOK' /\ present' = present /\ Goto(h, v)
    BY <1>0, <1>7, StateUnchanged DEF Lookup, project
  <2> HIDE DEF v
  <2> QED BY <2>4, <2>5, <2>6, HookStep
<1>8. ASSUME NEW mirror \in BOOLEAN, Stored(h, mirror), cmd[h].at \in Past,
             UNCHANGED <<present, marker, version, started>>
      PROVE  StateOK' /\ present' = present
  <2>1. cmd[h].project \in Path
    BY <1>8 DEF IndInv, KeysAgree, Past
  <2>2. db' \in Tables /\ Sound(db') /\ born' \in [Session -> Dir \cup {NoPath}]
    BY <1>0, <1>8, <2>1, StoredStep DEF Adds
  <2> QED BY <1>8, <2>2 DEF StateOK, Sound
<1>9. ASSUME Record(h) PROVE IndInv'
  <2>1. cmd[h].at \in Past
    BY <1>9 DEF Record, At, Past
  <2>2. cmd[h].mirrored \in BOOLEAN
    BY <1>0, <2>1, HookHolds, CarriedFields
  <2>3. StateOK' /\ present' = present
    <3>1. PICK usage \in BOOLEAN : Stored(h, cmd[h].mirrored /\ usage)
      BY <1>9 DEF Record
    <3>2. (cmd[h].mirrored /\ usage) \in BOOLEAN
      OBVIOUS
    <3> QED BY <1>8, <1>9, <2>1, <3>1, <3>2 DEF Record
  <2>4. Goto(h, Carry(h, "naming", cmd[h].project, cmd[h].seen))
    BY <1>9 DEF Record
  <2> QED BY <2>1, <2>3, <2>4, CarryReady, HookStep
<1>10. ASSUME NothingNew(h) PROVE IndInv'
  <2>1. cmd[h].at \in Past
    BY <1>10 DEF NothingNew, At, Past
  <2>2. StateOK' /\ present' = present /\ Goto(h, Carry(h, "naming", cmd[h].project, cmd[h].seen))
    BY <1>0, <1>10, StateUnchanged DEF NothingNew
  <2> QED BY <2>1, <2>2, CarryReady, HookStep
<1>11. ASSUME StampName(h) PROVE IndInv'
  <2>1. cmd[h].at \in Past
    BY <1>11 DEF StampName, At, Past
  <2>2. cmd[h].project \in Path /\ cmd[h].key \in Path
    BY <1>0, <2>1, HookHolds, CarriedFields DEF IndInv, KeysAgree, Past
  <2>3. StateOK' /\ present' = present
    <3> DEFINE new == IF Kit[cmd[h].key] = NoName THEN db.rows
                      ELSE WithName(db.rows, cmd[h].project, Kit[cmd[h].key])
    <3>1. db.rows \subseteq Row /\ Apart(db.rows) /\ Kit[cmd[h].key] \in Name \cup {NoName}
      BY <1>0, <2>2, SoundIsApart, ProjectsAssumption DEF TypeOK, Tables
    <3>2. Renamed(db.rows, new)
      BY <2>2, <3>1, RenameRows
    <3>3. db' = [rows |-> new, home |-> db.home]
      BY <1>11 DEF StampName
    <3> HIDE DEF new
    <3>4. db' \in Tables /\ Sound(db')
      BY <1>0, <2>2, <3>2, <3>3, UpdateRows DEF Adds, TypeOK
    <3> QED BY <1>11, <3>4 DEF StampName, StateOK, Sound
  <2>4. Goto(h, Carry(h, "sweeping", cmd[h].project, cmd[h].seen))
    BY <1>11 DEF StampName
  <2> QED BY <2>1, <2>3, <2>4, CarryReady, HookStep
<1>12. ASSUME Sweep(h) PROVE IndInv'
  <2>1. cmd[h].at \in Past
    BY <1>12 DEF Sweep, At, Past
  <2>2. StateOK' /\ present' = present /\ Goto(h, Idle)
    BY <1>8, <1>12, <2>1 DEF Sweep
  <2> QED BY <2>2, IdleReady, HookStep
<1>13. ASSUME Leave(h) PROVE IndInv'
  <2>1. StateOK' /\ present' = present /\ Goto(h, Idle)
    BY <1>0, <1>13, StateUnchanged DEF Leave
  <2> QED BY <2>1, IdleReady, HookStep
<1> QED BY <1>1, <1>2, <1>3, <1>4, <1>5, <1>6, <1>7, <1>9, <1>10, <1>11, <1>12, <1>13 DEF Capture

\* What the steps of a command write.
LEMMA CommandHolds ==
  ASSUME IndInv, NEW u \in User, Command(u)
  PROVE  IndInv'
<1> USE StateOf
<1>0. TypeOK /\ Sound(db) /\ started \in 0..MaxStarted /\ db \in Tables
  BY DEF IndInv, TypeOK
<1>1. ASSUME NEW p \in Cwd, NEW goal \in {"enable", "disable"}, Scope(u, p, goal) PROVE IndInv'
  <2>1. PICK listed \in BOOLEAN :
          Goto(u, [at |-> goal, dir |-> p, failed |-> ~listed, root |-> Canonical(db.rows, Key(p)),
                   left |-> {d \in IF listed THEN Checkouts(p) ELSE {Real[p], Real[Key(p)]} :
                               marker[d] # "none"}])
    BY <1>1 DEF Scope
  <2> DEFINE root == Canonical(db.rows, Key(p))
             left == {d \in IF listed THEN Checkouts(p) ELSE {Real[p], Real[Key(p)]} : marker[d] # "none"}
             v == [at |-> goal, dir |-> p, failed |-> ~listed, root |-> root, left |-> left]
  <2>2. p \in Path /\ Key(p) \in Path
    BY ProjectsAssumption, KeyType
  <2>3. root \in Path
    BY <1>0, <2>2, CanonicalSame DEF Tables
  <2>4. left \subseteq Dir
    BY <2>2, RealType DEF Checkouts
  <2>5. v \in UserState
    <3> HIDE DEF root, left
    <3> QED BY <2>2, <2>3, <2>4 DEF UserState
  <2>6. StateOK' /\ present' = present
    BY <1>0, <1>1, StartCounts, StateUnchanged DEF Scope
  <2> QED BY <2>1, <2>5, <2>6, UserStep
<1>2. ASSUME NEW mode \in {"central", "project"}, Enable(u, mode) PROVE IndInv'
  <2> DEFINE v == [at |-> IF mode = "central" THEN "clearing" ELSE "register", root |-> cmd[u].root]
  <2>1. cmd[u].root \in Path
    BY <1>0, <1>2, UserHolds DEF Enable, At
  <2>2. v \in UserState
    BY <2>1 DEF UserState
  <2>3. marker' \in [Dir -> {"none", "central", "project"}]
    BY <1>0, <1>2 DEF Enable, TypeOK
  <2>4. StateOK' /\ present' = present /\ Goto(u, v)
    BY <1>2, <2>3 DEF Enable, StateOK
  <2> QED BY <2>2, <2>4, UserStep
<1>3. ASSUME NEW new, Renamed(db.rows, new), db' = [rows |-> new, home |-> db.home],
             UNCHANGED <<present, marker, version, born, started>>
      PROVE  StateOK' /\ present' = present
  <2>1. Adds(NoPath)
    BY <1>0, <1>3, UpdateRows
  <2> QED BY <1>3, <2>1 DEF StateOK, Sound, Adds
<1>4. ASSUME ClearStale(u) PROVE IndInv'
  <2>1. cmd[u].root \in Path
    BY <1>0, <1>4, UserHolds DEF ClearStale, At
  <2>2. [at |-> "register", root |-> cmd[u].root] \in UserState
    BY <2>1 DEF UserState
  <2>3. Renamed(db.rows, WithMirror(db.rows, cmd[u].root, NoPath))
    BY <1>0, <2>1, RenameRows, SoundIsApart DEF Tables
  <2>4. StateOK' /\ present' = present
    BY <1>3, <1>4, <2>3 DEF ClearStale
  <2> QED BY <1>4, <2>2, <2>4, UserStep DEF ClearStale
<1>5. ASSUME NEW name \in Given, RegisterName(u, name) PROVE IndInv'
  <2>1. cmd[u].root \in Path
    BY <1>0, <1>5, UserHolds DEF RegisterName, At
  <2>2. PICK g \in GetOrCreate(db.rows, cmd[u].root) :
          db' = [rows |-> WithName(g.rows, cmd[u].root, name), home |-> db.home]
    BY <1>5 DEF RegisterName
  <2>3. db.rows \subseteq Row /\ Apart(db.rows) /\ db.home \in [Session -> 0..MaxId]
    BY <1>0, SoundIsApart DEF Tables
  <2>4. g.rows \subseteq Row /\ Apart(g.rows) /\ name \in Name \cup {NoName}
    BY <2>1, <2>3, CreateRow, ProjectsAssumption
  <2>5. Renamed(g.rows, WithName(g.rows, cmd[u].root, name))
    BY <2>1, <2>4, RenameRows
  <2>6. Adds(cmd[u].root)
    BY <1>0, <2>1, <2>2, <2>3, <2>5, WriteRows
  <2>7. StateOK' /\ present' = present /\ Goto(u, Idle)
    BY <1>5, <2>6 DEF RegisterName, StateOK, Sound, Adds
  <2> QED BY <2>7, IdleReady, UserStep
<1>6. ASSUME NEW d \in Dir, NEW ok \in BOOLEAN, Unlink(u, d, ok) PROVE IndInv'
  <2> DEFINE v == [cmd[u] EXCEPT !.left = @ \ {d}, !.failed = @ \/ ~ok]
  <2>1. cmd[u] \in [at : {"enable", "disable"}, dir : Path, failed : BOOLEAN, root : Path, left : SUBSET Dir]
    BY <1>0, <1>6, UserHolds DEF Unlink, At
  <2>2. v \in UserState
    BY <2>1 DEF UserState
  <2>3. marker' \in [Dir -> {"none", "central", "project"}]
    BY <1>0, <1>6 DEF Unlink, TypeOK
  <2>4. StateOK' /\ present' = present /\ Goto(u, v)
    BY <1>6, <2>3 DEF Unlink, StateOK
  <2> QED BY <2>2, <2>4, UserStep
<1>7. ASSUME NEW ok \in BOOLEAN, ClearMirrorMeta(u, ok) PROVE IndInv'
  <2> DEFINE new == IF ok THEN WithMirror(db.rows, cmd[u].root, NoPath) ELSE db.rows
             v == [at |-> IF ok /\ ~cmd[u].failed THEN "disabled" ELSE "idle", dir |-> cmd[u].dir]
  <2>1. cmd[u].root \in Path /\ cmd[u].dir \in Path
    BY <1>0, <1>7, UserHolds DEF ClearMirrorMeta, At
  <2>2. v \in UserState
    BY <2>1 DEF UserState
  <2>3. Renamed(db.rows, new)
    BY <1>0, <2>1, RenameRows, SoundIsApart DEF Tables
  <2>4. db' = [rows |-> new, home |-> db.home]
    BY <1>7 DEF ClearMirrorMeta
  <2> HIDE DEF new
  <2>5. StateOK' /\ present' = present
    BY <1>3, <1>7, <2>3, <2>4 DEF ClearMirrorMeta
  <2> QED BY <1>7, <2>2, <2>5, UserStep DEF ClearMirrorMeta
<1>8. ASSUME Return(u) PROVE IndInv'
  <2>1. StateOK' /\ present' = present
    BY <1>0, <1>8, StateUnchanged DEF Return
  <2> QED BY <1>8, <2>1, IdleReady, UserStep DEF Return
<1> QED BY <1>1, <1>2, <1>4, <1>5, <1>6, <1>7, <1>8 DEF Command

\* Only the files move: the tables and what anybody remembers stay.
LEMMA RemovalHolds ==
  ASSUME IndInv, NEW d \in Dir, RemoveDir(d)
  PROVE  IndInv'
<1>1. /\ present' \subseteq present /\ UNCHANGED <<db, version, cmd, born, started>>
      /\ marker' = [marker EXCEPT ![d] = "none"]
  BY DEF RemoveDir
<1>2. marker' \in [Dir -> {"none", "central", "project"}]
  BY <1>1 DEF IndInv, TypeOK
<1>3. TypeOK'
  BY <1>1, <1>2 DEF IndInv, TypeOK
<1>4. KeysAgree' /\ FoldsAlone'
  BY <1>1 DEF IndInv, KeysAgree, FoldsAlone, At
<1>5. Sound(db') /\ \A h \in Hook : At(h, "folding")' => Sound(cmd'[h].tables)
  BY <1>1 DEF IndInv, At
<1> QED BY <1>3, <1>4, <1>5 DEF IndInv, Sound

LEMMA ProjectsStep == IndInv /\ [Next]_vars => IndInv'
<1> SUFFICES ASSUME IndInv, [Next]_vars PROVE IndInv'
  OBVIOUS
<1>1. ASSUME UNCHANGED vars PROVE IndInv'
  BY <1>1 DEF vars, IndInv, TypeOK, KeysAgree, FoldsAlone, At, Sound
<1> QED BY <1>1, CaptureHolds, CommandHolds, RemovalHolds DEF Next

\* At every moment of a capture and of the fold there is one row for a path and
\* for an id, every session that was filed has its project's row, and a hook
\* records for a spelling of the directory it was started in (get_or_create,
\* insert_events, fold_worktree_projects).
THEOREM ProjectsSound == Spec => []IndInv
BY ProjectsStart, ProjectsStep, PTL DEF Spec

-----------------------------------------------------------------------------
(***************************************************************************)
(* Every step, by what it does to a hook and to the committed tables.      *)
(***************************************************************************)

LEMMA HookKinds ==
  ASSUME IndInv, [Next]_vars, NEW g \in Hook
  PROVE  \/ cmd'[g] = cmd[g]
         \/ cmd'[g].at \in {"idle", "opening", "looking"}
         \/ FoldBegin(g) \/ FoldRow(g) \/ Lookup(g)
         \/ /\ cmd[g].at \in Past /\ cmd'[g].at \in {"naming", "sweeping"}
            /\ cmd'[g].key = cmd[g].key /\ cmd'[g].project = cmd[g].project /\ cmd'[g].seen = cmd[g].seen
<1> USE DEF IndInv
<1>1. CASE UNCHANGED vars \/ \E d \in Dir : RemoveDir(d)
  BY <1>1 DEF vars, RemoveDir
<1>2. ASSUME NEW u \in User, Command(u) PROVE cmd'[g] = cmd[g]
  <2>1. g # u /\ g \in DOMAIN cmd
    BY ProjectsAssumption DEF TypeOK
  <2>2. ASSUME NEW v, Goto(u, v) PROVE cmd'[g] = cmd[g]
    BY <2>1, <2>2 DEF Goto
  <2> QED BY <1>2, <2>2 DEF Command, Scope, Enable, ClearStale, RegisterName, Unlink, ClearMirrorMeta, Return
<1>3. ASSUME NEW h \in Hook, Capture(h), h # g PROVE cmd'[g] = cmd[g]
  <2>1. ASSUME NEW v, Goto(h, v) PROVE cmd'[g] = cmd[g]
    BY <1>3, <2>1 DEF Goto, TypeOK
  <2> QED BY <1>3, <2>1 DEF Capture, Gate, FoldBegin, FoldRow, FoldCommit, FoldFails, OpenAsIs, Lookup,
                           Record, NothingNew, StampName, Sweep, Leave
<1>4. ASSUME Capture(g), ~FoldBegin(g), ~FoldRow(g), ~Lookup(g)
      PROVE  \/ cmd'[g].at \in {"idle", "opening", "looking"}
             \/ /\ cmd[g].at \in Past /\ cmd'[g].at \in {"naming", "sweeping"}
                /\ cmd'[g].key = cmd[g].key /\ cmd'[g].project = cmd[g].project /\ cmd'[g].seen = cmd[g].seen
  <2>1. ASSUME NEW v, Goto(g, v) PROVE cmd'[g] = v
    BY <2>1 DEF Goto, TypeOK
  <2>2. ASSUME NEW at \in {"naming", "sweeping"}, Goto(g, Carry(g, at, cmd[g].project, cmd[g].seen))
        PROVE  /\ cmd'[g].at = at
               /\ cmd'[g].key = cmd[g].key /\ cmd'[g].project = cmd[g].project /\ cmd'[g].seen = cmd[g].seen
    BY <2>1, <2>2 DEF Carry
  <2>3. CASE \E p \in Cwd, s \in Session : Gate(g, p, s)
    <3>1. \E v : Goto(g, v) /\ v.at = "opening"
      BY <2>3 DEF Gate
    <3> QED BY <2>1, <3>1
  <2>4. CASE FoldCommit(g) \/ FoldFails(g)
    <3>1. Goto(g, cmd[g].after) /\ cmd[g].after.at = "looking"
      BY <2>4, AfterReady DEF FoldCommit, FoldFails
    <3> QED BY <2>1, <3>1
  <2>5. CASE OpenAsIs(g)
    <3>1. \E v : Goto(g, v) /\ v.at = "looking"
      BY <2>5 DEF OpenAsIs, Carry
    <3> QED BY <2>1, <3>1
  <2>6. CASE Record(g) \/ NothingNew(g)
    <3>1. Goto(g, Carry(g, "naming", cmd[g].project, cmd[g].seen)) /\ cmd[g].at \in Past
      BY <2>6 DEF Record, NothingNew, At, Past
    <3> QED BY <2>2, <3>1
  <2>7. CASE StampName(g)
    <3>1. Goto(g, Carry(g, "sweeping", cmd[g].project, cmd[g].seen)) /\ cmd[g].at \in Past
      BY <2>7 DEF StampName, At, Past
    <3> QED BY <2>2, <3>1
  <2>8. CASE Sweep(g) \/ Leave(g)
    <3>1. Goto(g, Idle)
      BY <2>8 DEF Sweep, Leave
    <3> QED BY <2>1, <3>1, IdleReady
  <2> QED BY <1>4, <2>3, <2>4, <2>5, <2>6, <2>7, <2>8 DEF Capture
<1> QED BY <1>1, <1>2, <1>3, <1>4 DEF Next

\* A session is filed under a row of the directory that born remembers.
Files ==
  \A s \in Session :
    \/ db'.home[s] = db.home[s] /\ born'[s] = born[s]
    \/ db.home[s] = 0 /\ \E q \in db'.rows : q.id = db'.home[s] /\ Real[q.path] = born'[s]

LEMMA TableKinds ==
  ASSUME IndInv, [Next]_vars
  PROVE  /\ present' \subseteq present
         /\ \/ UNCHANGED <<db, version, born>>
            \/ /\ Writable /\ present' = present /\ version' = version
               /\ \E path : Adds(path)
               /\ Files
            \/ \E h \in Hook : FoldCommit(h)
<1>0. TypeOK /\ Sound(db) /\ db \in Tables /\ db.rows \subseteq Row /\ Apart(db.rows)
  BY SoundIsApart DEF IndInv, TypeOK, Tables
<1>1. CASE UNCHANGED vars \/ \E d \in Dir : RemoveDir(d)
  BY <1>1 DEF vars, RemoveDir
<1>2. ASSUME NEW new, Renamed(db.rows, new), db' = [rows |-> new, home |-> db.home], born' = born
      PROVE  (\E path : Adds(path)) /\ Files
  BY <1>0, <1>2, UpdateRows DEF Files
<1>3. ASSUME NEW u \in User, Command(u), ~UNCHANGED <<db, version, born>>
      PROVE  /\ Writable /\ present' = present /\ version' = version
             /\ (\E path : Adds(path)) /\ Files
  <2>1. CASE ClearStale(u)
    <3>1. cmd[u].root \in Path
      BY <1>0, <2>1, UserHolds DEF ClearStale, At
    <3>2. Renamed(db.rows, WithMirror(db.rows, cmd[u].root, NoPath))
      BY <1>0, <3>1, RenameRows
    <3> QED BY <1>2, <2>1, <3>2 DEF ClearStale
  <2>2. CASE \E name \in Given : RegisterName(u, name)
    <3>1. PICK name \in Given : RegisterName(u, name)
      BY <2>2
    <3>2. cmd[u].root \in Path
      BY <1>0, <3>1, UserHolds DEF RegisterName, At
    <3>3. PICK g \in GetOrCreate(db.rows, cmd[u].root) :
            db' = [rows |-> WithName(g.rows, cmd[u].root, name), home |-> db.home]
      BY <3>1 DEF RegisterName
    <3>4. g.rows \subseteq Row /\ Apart(g.rows) /\ name \in Name \cup {NoName}
      BY <1>0, <3>2, CreateRow, ProjectsAssumption
    <3>5. Renamed(g.rows, WithName(g.rows, cmd[u].root, name)) /\ db.home \in [Session -> 0..MaxId]
      BY <1>0, <3>2, <3>4, RenameRows DEF Tables
    <3>6. Adds(cmd[u].root)
      BY <1>0, <3>2, <3>3, <3>5, WriteRows
    <3>7. Files
      BY <3>1, <3>3 DEF Files, RegisterName
    <3> QED BY <3>1, <3>6, <3>7 DEF RegisterName
  <2>3. CASE \E ok \in BOOLEAN : ClearMirrorMeta(u, ok)
    <3>1. PICK ok \in BOOLEAN : ClearMirrorMeta(u, ok)
      BY <2>3
    <3>2. cmd[u].root \in Path
      BY <1>0, <3>1, UserHolds DEF ClearMirrorMeta, At
    <3>3. ok
      <4>1. CASE ~ok
        <5>1. db' = [rows |-> db.rows, home |-> db.home] /\ UNCHANGED <<version, born>>
          BY <3>1, <4>1 DEF ClearMirrorMeta
        <5>2. db' = db
          BY <1>0, <5>1 DEF Tables
        <5> QED BY <1>3, <5>1, <5>2
      <4> QED BY <4>1
    <3>4. Renamed(db.rows, WithMirror(db.rows, cmd[u].root, NoPath))
      BY <1>0, <3>2, RenameRows
    <3>5. Writable /\ UNCHANGED <<present, version, born>>
          /\ db' = [rows |-> WithMirror(db.rows, cmd[u].root, NoPath), home |-> db.home]
      BY <3>1, <3>3 DEF ClearMirrorMeta
    <3> QED BY <1>2, <3>4, <3>5
  <2> QED BY <1>3, <2>1, <2>2, <2>3 DEF Command, Scope, Enable, Unlink, Return
<1>4. ASSUME NEW h \in Hook, Capture(h), ~FoldCommit(h), ~UNCHANGED <<db, version, born>>
      PROVE  /\ Writable /\ present' = present /\ version' = version
             /\ (\E path : Adds(path)) /\ Files
  <2>1. cmd[h].at \in Past => cmd[h].project \in Path /\ Real[cmd[h].project] = Real[cmd[h].key]
    BY DEF IndInv, KeysAgree, Past
  <2>2. ASSUME NEW mirror \in BOOLEAN, Stored(h, mirror), cmd[h].at \in Past
        PROVE  (\E path : Adds(path)) /\ Files
    <3>1. /\ Adds(cmd[h].project)
          /\ \A s \in Session :
               \/ db'.home[s] = db.home[s] /\ born'[s] = born[s]
               \/ /\ db.home[s] = 0 /\ born'[s] = Real[cmd[h].key]
                  /\ \E q \in db'.rows : q.id = db'.home[s] /\ q.path = cmd[h].project
      BY <1>0, <2>1, <2>2, StoredStep
    <3> QED BY <2>1, <2>2, <3>1 DEF Files
  <2>3. CASE Record(h)
    <3>1. PICK usage \in BOOLEAN : Stored(h, cmd[h].mirrored /\ usage)
      BY <2>3 DEF Record
    <3>2. (cmd[h].mirrored /\ usage) \in BOOLEAN
      OBVIOUS
    <3>3. cmd[h].at \in Past
      BY <2>3 DEF Record, At, Past
    <3> QED BY <2>2, <2>3, <3>1, <3>2, <3>3 DEF Record
  <2>4. CASE Sweep(h)
    <3>1. cmd[h].at \in Past
      BY <2>4 DEF Sweep, At, Past
    <3> QED BY <2>2, <2>4, <3>1 DEF Sweep
  <2>5. CASE StampName(h)
    <3>1. cmd[h].at \in Past
      BY <2>5 DEF StampName, At, Past
    <3>2. cmd[h].project \in Path /\ cmd[h].key \in Path
      BY <1>0, <2>1, <3>1, HookHolds, CarriedFields
    <3>3. Kit[cmd[h].key] \in Name \cup {NoName}
      BY <3>2, ProjectsAssumption
    <3> DEFINE new == IF Kit[cmd[h].key] = NoName THEN db.rows
                      ELSE WithName(db.rows, cmd[h].project, Kit[cmd[h].key])
    <3>4. Renamed(db.rows, new)
      BY <1>0, <3>2, <3>3, RenameRows
    <3>5. Writable /\ db' = [rows |-> new, home |-> db.home] /\ UNCHANGED <<present, version, born>>
      BY <2>5 DEF StampName
    <3> HIDE DEF new
    <3> QED BY <1>2, <3>4, <3>5
  <2> QED BY <1>4, <2>3, <2>4, <2>5 DEF Capture, Gate, FoldBegin, FoldRow, FoldFails, OpenAsIs, Lookup, NothingNew, Leave
<1>5. present' \subseteq present
  BY DEF vars, RemoveDir, Next, Capture, Command, Gate, FoldBegin, FoldRow, FoldCommit, FoldFails, OpenAsIs, Lookup,
         Record, NothingNew, StampName, Sweep, Leave, Scope, Enable, ClearStale, RegisterName, Unlink,
         ClearMirrorMeta, Return
<1> QED BY <1>1, <1>3, <1>4, <1>5 DEF Next

\* While a hook folds, the committed tables stay as they are.
LEMMA FoldKinds ==
  ASSUME IndInv, [Next]_vars, NEW h \in Hook, At(h, "folding")'
  PROVE  /\ UNCHANGED <<db, born>>
         /\ (cmd'[h] = cmd[h] /\ At(h, "folding")) \/ FoldBegin(h) \/ FoldRow(h)
<1>1. (cmd'[h] = cmd[h] /\ At(h, "folding")) \/ FoldBegin(h) \/ FoldRow(h)
  <2>1. ~Lookup(h)
    <3>1. SUFFICES ASSUME Lookup(h) PROVE FALSE
      OBVIOUS
    <3>2. Goto(h, Carry(h, "recording", Canonical(db.rows, cmd[h].key), db.rows))
      BY <3>1 DEF Lookup
    <3>3. cmd'[h].at = "recording"
      BY <3>2 DEF Goto, Carry, IndInv, TypeOK
    <3> QED BY <3>3 DEF At
  <2> QED BY <2>1, HookKinds DEF At
<1>2. CASE At(h, "folding")
  <2>1. ~Writable
    BY <1>2 DEF Writable
  <2>2. ASSUME NEW g \in Hook, FoldCommit(g) PROVE FALSE
    <3>1. g = h
      BY <1>2, <2>2 DEF FoldCommit, IndInv, FoldsAlone
    <3>2. cmd'[h] = cmd[h].after /\ cmd[h].after.at = "looking"
      BY <1>2, <2>2, <3>1 DEF FoldCommit, Goto, IndInv, TypeOK, FoldsAlone
    <3> QED BY <3>2 DEF At
  <2> QED BY <1>1, <2>1, <2>2, TableKinds
<1>3. CASE FoldBegin(h)
  BY <1>3 DEF FoldBegin
<1>4. CASE FoldRow(h)
  BY <1>4 DEF FoldRow
<1> QED BY <1>1, <1>2, <1>3, <1>4

-----------------------------------------------------------------------------
(***************************************************************************)
(* A capture makes no second row for a directory that it could have seen.  *)
(***************************************************************************)

\* What a hook has looked up is still so: its project was among the rows it saw,
\* or is new to them all; and rows vanish only with the commit of a fold.
SeenIsKnown ==
  \A h \in Hook : cmd[h].at \in Past =>
    /\ \/ RowAt(cmd[h].seen, cmd[h].project) # {}
       \/ /\ cmd[h].project = cmd[h].key
          /\ \A r \in cmd[h].seen :
               ~ /\ <<cmd[h].key, r.path>> \in SameName
                 /\ Real[r.path] \in present /\ Real[r.path] = Real[cmd[h].key]
    /\ version = "old" => \A r \in cmd[h].seen : RowAt(db.rows, r.path) # {}

LEMMA SeenIsKnownStep == IndInv /\ SeenIsKnown /\ [Next]_vars => SeenIsKnown'
<1> SUFFICES ASSUME IndInv, SeenIsKnown, [Next]_vars, NEW h \in Hook, cmd'[h].at \in Past
             PROVE  /\ \/ RowAt(cmd'[h].seen, cmd'[h].project) # {}
                       \/ /\ cmd'[h].project = cmd'[h].key
                          /\ \A r \in cmd'[h].seen :
                               ~ /\ <<cmd'[h].key, r.path>> \in SameName
                                 /\ Real[r.path] \in present' /\ Real[r.path] = Real[cmd'[h].key]
                    /\ version' = "old" => \A r \in cmd'[h].seen : RowAt(db'.rows, r.path) # {}
  BY DEF SeenIsKnown, RowAt
<1>1. present' \subseteq present
  BY TableKinds
<1>2. version' = "old" =>
        version = "old" /\ \A p : RowAt(db.rows, p) # {} => RowAt(db'.rows, p) # {}
  BY TableKinds DEF Adds, RowAt, FoldCommit
<1>3. CASE cmd[h].at \in Past /\ cmd'[h].key = cmd[h].key /\ cmd'[h].project = cmd[h].project
           /\ cmd'[h].seen = cmd[h].seen
  BY <1>1, <1>2, <1>3 DEF SeenIsKnown
<1>4. CASE Lookup(h)
  <2> DEFINE project == Canonical(db.rows, cmd[h].key)
  <2>1. cmd'[h] = Carry(h, "recording", project, db.rows)
    BY <1>4 DEF Lookup, Goto, IndInv, TypeOK
  <2>2. UNCHANGED <<present, db>>
    BY <1>4 DEF Lookup
  <2>3. cmd[h].key \in Path /\ db.rows \subseteq Row
    BY <1>4, HookHolds, CarriedFields DEF Lookup, At, IndInv, TypeOK, Tables
  <2>4. \/ RowAt(db.rows, project) # {}
        \/ /\ project = cmd[h].key
           /\ \A r \in db.rows : ~ /\ <<cmd[h].key, r.path>> \in SameName
                                   /\ Real[r.path] \in present /\ Real[r.path] = Real[cmd[h].key]
    BY <2>3, CanonicalSame
  <2> HIDE DEF project
  <2>5. cmd'[h].key = cmd[h].key /\ cmd'[h].project = project /\ cmd'[h].seen = db.rows
    BY <2>1 DEF Carry
  <2> QED BY <2>2, <2>4, <2>5 DEF RowAt
<1>5. CASE FoldBegin(h) \/ FoldRow(h)
  <2>1. ASSUME NEW todo, NEW tables, NEW seen, NEW after,
               Goto(h, [at |-> "folding", todo |-> todo, tables |-> tables, seen |-> seen, after |-> after])
        PROVE  cmd'[h].at = "folding"
    BY <2>1 DEF Goto, IndInv, TypeOK
  <2>2. cmd'[h].at = "folding"
    BY <1>5, <2>1 DEF FoldBegin, FoldRow
  <2> QED BY <2>2 DEF Past
<1> QED BY <1>3, <1>4, <1>5, HookKinds DEF Past

\* A capture makes a second row for a directory only if the first one was
\* committed after it had looked, or if it makes again a row that it has seen and
\* that a fold has removed since (canonical_project_path, get_or_create).
THEOREM ProjectsNoUnseenTwin == Spec => NoUnseenTwin
<1>1. Init => SeenIsKnown
  BY DEF Init, SeenIsKnown, Past, Idle
<1>2. ASSUME IndInv, SeenIsKnown, [Next]_vars, NEW h \in Hook,
             cmd[h].at \in {"recording", "sweeping"}, cmd'[h].at \in {"naming", "idle"},
             NEW r \in db'.rows, NEW q \in db.rows,
             RowAt(db.rows, r.path) = {}, Real[r.path] \in present, Real[q.path] = Real[r.path],
             <<r.path, q.path>> \in SameName
      PROVE  RowAt(cmd[h].seen, q.path) = {} \/ (RowAt(cmd[h].seen, r.path) # {} /\ version = "new")
  <2>0. TypeOK
    BY <1>2 DEF IndInv
  <2>1. db' # db
    <3>1. r \notin db.rows
      <4>1. r \in db.rows => r \in RowAt(db.rows, r.path)
        BY DEF RowAt
      <4> QED BY <1>2, <4>1
    <3> QED BY <3>1
  <2>2. Record(h) \/ Sweep(h)
    <3>1. ASSUME NEW u \in User, Command(u) PROVE FALSE
      <4>1. ASSUME NEW v, Goto(u, v) PROVE cmd'[h] = cmd[h]
        BY <2>0, <4>1, ProjectsAssumption DEF Goto, TypeOK
      <4>2. cmd'[h] = cmd[h]
        BY <3>1, <4>1 DEF Command, Scope, Enable, ClearStale, RegisterName, Unlink, ClearMirrorMeta, Return
      <4> QED BY <1>2, <4>2
    <3>2. ASSUME NEW g \in Hook, Capture(g), g # h PROVE FALSE
      <4>1. ASSUME NEW v, Goto(g, v) PROVE cmd'[h] = cmd[h]
        BY <2>0, <3>2, <4>1 DEF Goto, TypeOK
      <4>2. cmd'[h] = cmd[h]
        BY <3>2, <4>1 DEF Capture, Gate, FoldBegin, FoldRow, FoldCommit, FoldFails, OpenAsIs, Lookup,
                          Record, NothingNew, StampName, Sweep, Leave
      <4> QED BY <1>2, <4>2
    <3>3. Capture(h)
      BY <1>2, <2>1, <3>1, <3>2 DEF Next, vars, RemoveDir
    <3> QED BY <1>2, <2>1, <3>3 DEF Capture, Gate, FoldBegin, FoldRow, FoldCommit, FoldFails, OpenAsIs,
                                    Lookup, NothingNew, StampName, Leave, At
  <2>3. cmd[h].at \in Past
    BY <1>2 DEF Past
  <2>4. \E mirror \in BOOLEAN : Stored(h, mirror)
    <3>1. cmd[h].mirrored \in BOOLEAN
      BY <2>0, <2>3, HookHolds, CarriedFields
    <3>2. \A usage \in BOOLEAN : (cmd[h].mirrored /\ usage) \in BOOLEAN
      BY <3>1
    <3> QED BY <2>2, <3>2 DEF Record, Sweep
  <2>5. cmd[h].project \in Path /\ Sound(db)
    BY <1>2, <2>3 DEF IndInv, KeysAgree, Past
  <2>6. Adds(cmd[h].project)
    BY <2>0, <2>3, <2>4, <2>5, StoredStep
  <2>7. r.path = cmd[h].project
    <3>1. ~ \E d \in db.rows : r.id = d.id /\ r.path = d.path
      BY <1>2 DEF RowAt
    <3> QED BY <2>6, <3>1 DEF Adds
  <2>8. CASE RowAt(cmd[h].seen, r.path) # {}
    <3>1. PICK d \in cmd[h].seen : d.path = r.path
      BY <2>8 DEF RowAt
    <3>2. version # "old"
      BY <1>2, <2>3, <3>1 DEF SeenIsKnown
    <3> QED BY <2>0, <2>8, <3>2 DEF TypeOK
  <2>9. CASE RowAt(cmd[h].seen, r.path) = {}
    <3>1. /\ cmd[h].project = cmd[h].key
          /\ \A d \in cmd[h].seen : ~ /\ <<cmd[h].key, d.path>> \in SameName
                                      /\ Real[d.path] \in present /\ Real[d.path] = Real[cmd[h].key]
      BY <1>2, <2>3, <2>7, <2>9 DEF SeenIsKnown
    <3> QED BY <1>2, <2>7, <3>1 DEF RowAt
  <2> QED BY <2>8, <2>9
<1>3. IndInv /\ SeenIsKnown /\ [Next]_vars =>
      [\A h \in Hook : cmd[h].at \in {"recording", "sweeping"} /\ cmd'[h].at \in {"naming", "idle"} =>
         \A r \in db'.rows, q \in db.rows :
           /\ RowAt(db.rows, r.path) = {}
           /\ Real[r.path] \in present /\ Real[q.path] = Real[r.path]
           /\ <<r.path, q.path>> \in SameName
           => \/ RowAt(cmd[h].seen, q.path) = {}
              \/ RowAt(cmd[h].seen, r.path) # {} /\ version = "new"]_vars
  BY <1>2
<1> QED BY <1>1, <1>3, SeenIsKnownStep, ProjectsSound, PTL DEF Spec, NoUnseenTwin

-----------------------------------------------------------------------------
(***************************************************************************)
(* The three promises of the fold.                                         *)
(***************************************************************************)

\* What the fold of x did to the tables t: the destination takes over what x
\* knew, the other rows stay, and a row that is new holds a repository.
LEMMA RefoldsTo ==
  ASSUME WorktreesBelong, NEW t \in Tables, Sound(t), NEW x \in t.rows,
         NEW new \in Tables, Sound(new), Refolds(t, x, new)
  PROVE  /\ Real[x.path] \notin present \cap GitDir
         /\ \E dest \in Row :
              /\ dest.id # x.id /\ dest.path # x.path /\ Inherit(dest, x) \in new.rows
              /\ Repo(Real[dest.path]) = Repo(Real[x.path]) \/ LostClone(Repo(Real[x.path]))
              /\ \A d \in t.rows : d.id # x.id => (IF d.id = dest.id THEN Inherit(d, x) ELSE d) \in new.rows
              /\ \A s \in Session : new.home[s] = IF t.home[s] = x.id THEN dest.id ELSE t.home[s]
         /\ \A e \in new.rows :
              /\ e.path # x.path
              /\ \/ \E d \in t.rows : d.id # x.id /\ d.id = e.id /\ d.path = e.path
                 \/ Real[e.path] \in present \cap GitDir
<1> DEFINE others == {o.path : o \in t.rows \ {x}}
           target == FoldTarget(x.path, others)
           path == FoldDest(t.rows, target)
<1>1. t.rows \subseteq Row /\ Apart(t.rows) /\ x \in Row /\ x.path \in Path
  BY SoundIsApart, RowType DEF Tables
<1>2. target # NoPath
  BY DEF Refolds
<1>a. PICK g \in GetOrCreate(t.rows, path) : \E dest \in g.rows :
        /\ dest.id = g.id /\ dest.path = path
        /\ dest.id # x.id /\ dest.path # x.path
        /\ FoldedRows(g.rows, x, dest, new.rows)
        /\ \A s \in Session : new.home[s] = IF t.home[s] = x.id THEN dest.id ELSE t.home[s]
  BY DEF Refolds
<1>3. PICK dest \in g.rows :
        /\ dest.id = g.id /\ dest.path = path
        /\ dest.id # x.id /\ dest.path # x.path
        /\ FoldedRows(g.rows, x, dest, new.rows)
        /\ \A s \in Session : new.home[s] = IF t.home[s] = x.id THEN dest.id ELSE t.home[s]
  BY <1>a
<1>4. /\ target \in Path /\ ~(HasGit(x.path) /\ MainOf(x.path) = NoPath)
      /\ Real[target] \in present \cap GitDir \/ \E o \in others : Real[o] = Real[target]
  <2> HIDE DEF others
  <2> QED BY <1>1, <1>2, FoldTargetKnown
<1>5. /\ path \in Path /\ Real[path] = Real[target]
      /\ \/ RowAt(t.rows, path) # {}
         \/ path = target /\ \A r \in t.rows : Real[r.path] # Real[target]
  <2> HIDE DEF target
  <2> QED BY <1>1, <1>4, FoldDestSame
<1>6. Repo(Real[target]) = Repo(Real[x.path]) \/ LostClone(Repo(Real[x.path]))
  <2> HIDE DEF others
  <2> QED BY <1>1, <1>2, FoldTargetHome
<1> HIDE DEF target, path
<1>7. /\ t.rows \subseteq g.rows /\ g.rows \subseteq Row
      /\ \A d \in g.rows \ t.rows : RowAt(t.rows, path) = {} /\ d.path = path
  BY <1>1, <1>5, CreateRow
<1>8. Real[x.path] \notin present \cap GitDir
  <2>1. SUFFICES ASSUME Real[x.path] \in present \cap GitDir PROVE FALSE
    OBVIOUS
  <2> QED BY <1>1, <1>4, <2>1, MainOfLinked DEF HasGit
<1>9. dest \in Row /\ Inherit(dest, x) \in new.rows
  BY <1>3, <1>7 DEF FoldedRows
<1>10. \A d \in t.rows : d.id # x.id => (IF d.id = dest.id THEN Inherit(d, x) ELSE d) \in new.rows
  BY <1>3, <1>7 DEF FoldedRows
<1>11. ASSUME NEW e \in new.rows
       PROVE  /\ e.path # x.path
              /\ \/ \E d \in t.rows : d.id # x.id /\ d.id = e.id /\ d.path = e.path
                 \/ Real[e.path] \in present \cap GitDir
  <2>1. PICK d \in g.rows : d.id # x.id /\ d.path # x.path /\ e.id = d.id /\ e.path = d.path
    BY <1>3 DEF FoldedRows
  <2>2. CASE d \in t.rows
    BY <2>1, <2>2
  <2>3. CASE d \notin t.rows
    <3>1. RowAt(t.rows, path) = {} /\ d.path = path
      BY <1>7, <2>3
    <3>2. path = target /\ \A r \in t.rows : Real[r.path] # Real[target]
      BY <1>5, <3>1
    <3>3. Real[target] \in present \cap GitDir
      BY <1>4, <3>2
    <3> QED BY <2>1, <3>1, <3>2, <3>3
  <2> QED BY <2>2, <2>3
<1>12. Repo(Real[dest.path]) = Repo(Real[x.path]) \/ LostClone(Repo(Real[x.path]))
  BY <1>3, <1>5, <1>6
<1> QED BY <1>3, <1>8, <1>9, <1>10, <1>11, <1>12

\* A step of the fold, for a folding hook.
LEMMA FoldRowStep ==
  ASSUME WorktreesBelong, IndInv, NEW h \in Hook, FoldRow(h)
  PROVE  /\ At(h, "folding") /\ At(h, "folding")'
         /\ cmd[h].todo \subseteq Row /\ cmd[h].tables \in Tables /\ Sound(cmd[h].tables)
         /\ cmd[h].tables.rows \subseteq Row
         /\ cmd'[h].tables \in Tables /\ Sound(cmd'[h].tables) /\ cmd'[h].tables.rows \subseteq Row
         /\ UNCHANGED <<present, db, born>> /\ cmd'[h].seen = cmd[h].seen
         /\ \E x \in cmd[h].tables.rows :
              /\ \A r \in cmd[h].todo : r \in cmd'[h].todo \/ r.id = x.id
              /\ \/ /\ cmd'[h].tables = cmd[h].tables
                    /\ FoldTarget(x.path, {o.path : o \in cmd[h].tables.rows \ {x}}) = NoPath
                 \/ Refolds(cmd[h].tables, x, cmd'[h].tables)
<1>1. PICK r \in FirstOf(cmd[h].todo), x \in cmd[h].tables.rows : x.id = r.id /\
        \E t \in Folded(cmd[h].tables, x) :
          Goto(h, [at |-> "folding", todo |-> cmd[h].todo \ {r}, tables |-> t,
                   seen |-> cmd[h].seen, after |-> cmd[h].after])
  BY DEF FoldRow
<1> PICK t \in Folded(cmd[h].tables, x) :
      Goto(h, [at |-> "folding", todo |-> cmd[h].todo \ {r}, tables |-> t,
               seen |-> cmd[h].seen, after |-> cmd[h].after])
  BY <1>1
<1>2. At(h, "folding") /\ UNCHANGED <<present, db, born>>
  BY DEF FoldRow
<1>3. /\ cmd[h].todo \subseteq Row /\ cmd[h].tables \in Tables /\ Sound(cmd[h].tables)
      /\ cmd[h].tables.rows \subseteq Row
  BY <1>2, HookHolds DEF IndInv, Tables
<1>4. cmd'[h] = [at |-> "folding", todo |-> cmd[h].todo \ {r}, tables |-> t,
                 seen |-> cmd[h].seen, after |-> cmd[h].after]
  BY DEF Goto, IndInv, TypeOK
<1>5. t \in Tables /\ Sound(t) /\ t.rows \subseteq Row
  BY <1>3, FoldedStep DEF Tables
<1>6. \/ t = cmd[h].tables /\ FoldTarget(x.path, {o.path : o \in cmd[h].tables.rows \ {x}}) = NoPath
      \/ Refolds(cmd[h].tables, x, t)
  <2> DEFINE others == {o.path : o \in cmd[h].tables.rows \ {x}}
             target == FoldTarget(x.path, others)
  <2>1. \/ t = cmd[h].tables /\ (target = NoPath \/ Real[target] = Real[x.path])
        \/ Refolds(cmd[h].tables, x, t)
    BY <1>3, FoldedStep
  <2>2. x.path \in Path
    BY <1>3, RowType
  <2>3. target # NoPath => Real[target] # Real[x.path]
    <3> HIDE DEF others
    <3> QED BY <2>2, FoldTargetHome
  <2> QED BY <2>1, <2>3
<1>7. cmd'[h].tables = t /\ cmd'[h].todo = cmd[h].todo \ {r} /\ cmd'[h].at = "folding" /\ cmd'[h].seen = cmd[h].seen
  BY <1>4
<1> QED BY <1>1, <1>2, <1>3, <1>5, <1>6, <1>7 DEF At

\* The fold starts on all rows of the committed tables.
LEMMA FoldBeginStep ==
  ASSUME IndInv, NEW h \in Hook, FoldBegin(h)
  PROVE  cmd'[h].todo = db.rows /\ cmd'[h].tables = db /\ UNCHANGED <<present, db, born>>
<1>1. cmd'[h] = [at |-> "folding", todo |-> db.rows, tables |-> db, seen |-> present,
                 after |-> Carry(h, "looking", NoPath, {})]
  BY DEF FoldBegin, Goto, IndInv, TypeOK
<1> QED BY <1>1 DEF FoldBegin

\* A clone that was deleted stays deleted.
LEMMA LostForGood ==
  ASSUME IndInv, [Next]_vars, NEW d PROVE LostClone(d) => LostClone(d)'
BY TableKinds DEF LostClone

AtHome(t) ==
  \A s \in Session, r \in t.rows : r.id = t.home[s] =>
    Repo(Real[r.path]) = Repo(born[s]) \/ LostClone(Repo(born[s]))

HomeInv == AtHome(db) /\ \A h \in Hook : At(h, "folding") => AtHome(cmd[h].tables)

LEMMA HomeStep == WorktreesBelong /\ IndInv /\ HomeInv /\ [Next]_vars => HomeInv'
<1> SUFFICES ASSUME WorktreesBelong, IndInv, HomeInv, [Next]_vars PROVE HomeInv'
  OBVIOUS
<1>1. IndInv' /\ \A d : LostClone(d) => LostClone(d)'
  BY ProjectsStep, LostForGood
<1>2. ASSUME NEW t, AtHome(t), born' = born PROVE AtHome(t)'
  BY <1>1, <1>2 DEF AtHome, Repo
<1>3. AtHome(db)'
  <2>1. CASE UNCHANGED <<db, version, born>>
    BY <1>1, <2>1 DEF AtHome, Repo, HomeInv
  <2>2. ASSUME NEW path, Adds(path), Files, NEW s \in Session, NEW q \in db'.rows, q.id = db'.home[s]
        PROVE  Repo(Real[q.path]) = Repo(born'[s]) \/ LostClone(Repo(born[s]))'
    <3>1. db'.rows \subseteq Row /\ Apart(db'.rows) /\ Sound(db) /\ db.rows \subseteq Row
      BY <2>2, SoundIsApart DEF Adds, Tables, IndInv, TypeOK
    <3>2. CASE db'.home[s] = db.home[s] /\ born'[s] = born[s]
      <4>1. q.id \in 1..MaxId
        BY <3>1, RowType
      <4>2. PICK r \in db.rows : r.id = db.home[s]
        BY <2>2, <3>1, <3>2, <4>1 DEF Sound
      <4>3. PICK e \in db'.rows : e.id = r.id /\ e.path = r.path
        BY <2>2 DEF Adds
      <4>4. e = q
        BY <2>2, <3>1, <3>2, <4>2, <4>3 DEF Apart
      <4>5. Repo(Real[r.path]) = Repo(born[s]) \/ LostClone(Repo(born[s]))
        BY <4>2 DEF HomeInv, AtHome
      <4>6. LostClone(Repo(born[s])) => LostClone(Repo(born[s]))'
        BY <1>1, <3>2 DEF LostClone
      <4> QED BY <3>2, <4>3, <4>4, <4>5, <4>6
    <3>3. CASE \E e \in db'.rows : e.id = db'.home[s] /\ Real[e.path] = born'[s]
      BY <2>2, <3>1, <3>3 DEF Apart
    <3> QED BY <2>2, <3>2, <3>3 DEF Files
  <2>3. ASSUME NEW h \in Hook, FoldCommit(h) PROVE AtHome(db)'
    <3>1. AtHome(cmd[h].tables) /\ db' = cmd[h].tables /\ born' = born
      BY <2>3 DEF FoldCommit, HomeInv
    <3> QED BY <1>1, <3>1 DEF AtHome, Repo
  <2>4. ASSUME NEW path, Adds(path), Files PROVE AtHome(db)'
    BY <2>2, <2>4 DEF AtHome, Repo
  <2> QED BY <2>1, <2>3, <2>4, TableKinds
<1>4. ASSUME NEW h \in Hook, At(h, "folding")' PROVE AtHome(cmd[h].tables)'
  <2>0. UNCHANGED <<db, born>>
    BY <1>4, FoldKinds
  <2>1. CASE cmd'[h] = cmd[h] /\ At(h, "folding")
    BY <1>1, <2>0, <2>1 DEF HomeInv, AtHome, Repo
  <2>2. CASE FoldBegin(h)
    <3>1. cmd'[h].tables = db
      BY <2>2, FoldBeginStep
    <3> QED BY <1>1, <2>0, <3>1 DEF HomeInv, AtHome, Repo
  <2>3. CASE FoldRow(h)
    <3> DEFINE t == cmd[h].tables
               new == cmd'[h].tables
    <3>1. /\ At(h, "folding") /\ t \in Tables /\ Sound(t) /\ t.rows \subseteq Row
          /\ new \in Tables /\ Sound(new) /\ new.rows \subseteq Row
      BY <2>3, FoldRowStep
    <3>2. PICK x \in t.rows : new = t \/ Refolds(t, x, new)
      BY <2>3, FoldRowStep
    <3>3. AtHome(t)
      BY <3>1 DEF HomeInv
    <3> HIDE DEF t, new
    <3>4. ASSUME Refolds(t, x, new), NEW s \in Session, NEW e \in new.rows, e.id = new.home[s]
          PROVE  Repo(Real[e.path]) = Repo(born[s]) \/ LostClone(Repo(born[s]))
      <4>1. PICK dest \in Row :
              /\ dest.id # x.id /\ Inherit(dest, x) \in new.rows
              /\ Repo(Real[dest.path]) = Repo(Real[x.path]) \/ LostClone(Repo(Real[x.path]))
              /\ \A d \in t.rows : d.id # x.id => (IF d.id = dest.id THEN Inherit(d, x) ELSE d) \in new.rows
              /\ new.home[s] = IF t.home[s] = x.id THEN dest.id ELSE t.home[s]
        BY <3>1, <3>4, RefoldsTo
      <4>2. Apart(new.rows) /\ e.id \in 1..MaxId
        BY <3>1, SoundIsApart, RowType
      <4>3. \A d : Inherit(d, x).id = d.id /\ Inherit(d, x).path = d.path
        BY DEF Inherit
      <4>4. CASE t.home[s] = x.id
        <5>1. e = Inherit(dest, x)
          BY <3>4, <4>1, <4>2, <4>3, <4>4 DEF Apart
        <5>2. Repo(Real[x.path]) = Repo(born[s]) \/ LostClone(Repo(born[s]))
          BY <3>3, <4>4 DEF AtHome
        <5> QED BY <4>1, <4>3, <5>1, <5>2
      <4>5. CASE t.home[s] # x.id
        <5>1. PICK d \in t.rows : d.id = t.home[s]
          BY <3>1, <3>4, <4>1, <4>2, <4>5 DEF Sound
        <5>2. \E q \in new.rows : q.id = d.id /\ q.path = d.path
          BY <4>1, <4>3, <4>5, <5>1
        <5>3. e.path = d.path
          BY <3>4, <4>1, <4>2, <4>5, <5>1, <5>2 DEF Apart
        <5> QED BY <3>3, <5>1, <5>3 DEF AtHome
      <4> QED BY <4>4, <4>5
    <3>5. AtHome(new)
      BY <3>2, <3>3, <3>4 DEF AtHome
    <3> QED BY <1>1, <2>0, <3>5 DEF AtHome, Repo, new
  <2> QED BY <1>4, <2>1, <2>2, <2>3, FoldKinds
<1> QED BY <1>3, <1>4 DEF HomeInv

\* A session's usage stays in the repository it was first filed under, through
\* any number of captures elsewhere and through the fold, unless the repository
\* is a clone that was deleted (insert_events, fold_worktree_projects).
THEOREM ProjectsFiledAtHome ==
  ASSUME WorktreesBelong PROVE Spec => []FiledAtHome
<1>1. Init => HomeInv
  <2> SUFFICES ASSUME Init PROVE HomeInv
    OBVIOUS
  <2>1. IndInv /\ db.rows \subseteq Row /\ Apart(db.rows)
    BY ProjectsStart, SoundIsApart DEF IndInv, TypeOK, Tables
  <2>2. ASSUME NEW s \in Session, NEW r \in db.rows, r.id = db.home[s] PROVE born[s] = Real[r.path]
    <3>1. db.home[s] # 0
      BY <2>1, <2>2, RowType
    <3>2. born[s] = CHOOSE d \in Dir : \E q \in db.rows : q.id = db.home[s] /\ d = Real[q.path]
      BY <3>1 DEF Init
    <3>3. Real[r.path] \in Dir
      BY <2>1, RowType, RealType
    <3>4. \E d \in Dir : \E q \in db.rows : q.id = db.home[s] /\ d = Real[q.path]
      BY <2>2, <3>3
    <3>5. \E q \in db.rows : q.id = db.home[s] /\ born[s] = Real[q.path]
      BY <3>2, <3>4
    <3> QED BY <2>1, <2>2, <3>5 DEF Apart
  <2>3. \A h \in Hook : ~At(h, "folding")
    BY DEF Init, At, Idle
  <2> QED BY <2>2, <2>3 DEF HomeInv, AtHome
<1>2. IndInv /\ HomeInv /\ [Next]_vars => HomeInv'
  BY HomeStep
<1>3. HomeInv => FiledAtHome
  BY DEF HomeInv, AtHome, FiledAtHome
<1> QED BY <1>1, <1>2, <1>3, ProjectsSound, PTL DEF Spec

Others(t, r) == {o.path : o \in t.rows \ {r}}

\* A row the fold has looked at belongs to no other row, as long as no directory
\* has disappeared since the fold began.
Settled ==
  \A h \in Hook : At(h, "folding") /\ cmd[h].seen = present =>
    \A r \in cmd[h].tables.rows :
      (\A d \in cmd[h].todo : d.id # r.id) => FoldTarget(r.path, Others(cmd[h].tables, r)) = NoPath

\* A directory that holds a repository of its own is folded into no other, and
\* its row makes no other row foldable that was not so before.
LEMMA TargetFromFewer ==
  ASSUME NEW p \in Path, NEW old, NEW new, FoldTarget(p, new) # NoPath,
         \A o \in new : o \in old \/ Real[o] \in present \cap GitDir
  PROVE  FoldTarget(p, old) # NoPath
BY RealType, MainOfLinked DEF FoldTarget

LEMMA SettledStep == WorktreesBelong /\ IndInv /\ Settled /\ [Next]_vars => Settled'
<1> SUFFICES ASSUME WorktreesBelong, IndInv, Settled, [Next]_vars,
                    NEW h \in Hook, At(h, "folding")', cmd'[h].seen = present',
                    NEW e \in cmd'[h].tables.rows, \A d \in cmd'[h].todo : d.id # e.id,
                    (FoldTarget(e.path, Others(cmd[h].tables, e)) # NoPath)'
             PROVE  FALSE
  BY DEF Settled, Others, FoldTarget, HasGit, MainOf
<1>1. CASE cmd'[h] = cmd[h] /\ At(h, "folding")
  <2>1. present' = present
    BY <1>1, TableKinds DEF IndInv, FoldsAlone
  <2> QED BY <1>1, <2>1 DEF Settled, Others, FoldTarget, HasGit, MainOf
<1>2. CASE FoldBegin(h)
  BY <1>2, FoldBeginStep
<1>3. CASE FoldRow(h)
  <2> DEFINE t == cmd[h].tables
             new == cmd'[h].tables
  <2>1. /\ At(h, "folding") /\ t \in Tables /\ Sound(t) /\ t.rows \subseteq Row
        /\ new \in Tables /\ Sound(new) /\ new.rows \subseteq Row
        /\ present' = present /\ cmd'[h].seen = cmd[h].seen
    BY <1>3, FoldRowStep
  <2>2. PICK x \in t.rows :
          /\ \A r \in cmd[h].todo : r \in cmd'[h].todo \/ r.id = x.id
          /\ \/ new = t /\ FoldTarget(x.path, {o.path : o \in t.rows \ {x}}) = NoPath
             \/ Refolds(t, x, new)
    BY <1>3, FoldRowStep
  <2>3. FoldTarget(e.path, Others(new, e)) # NoPath
    BY <2>1 DEF FoldTarget, HasGit, MainOf, Others
  <2>4. \A r \in t.rows : (\A d \in cmd[h].todo : d.id # r.id) => FoldTarget(r.path, Others(t, r)) = NoPath
    BY <2>1 DEF Settled
  <2>5. \A d \in cmd[h].todo : d.id # e.id \/ d.id = x.id
    BY <2>2
  <2>6. e \in new.rows /\ e.path \in Path
    BY <2>1, RowType
  <2> HIDE DEF t, new
  <2>7. CASE new = t /\ FoldTarget(x.path, Others(t, x)) = NoPath
    <3>1. e # x
      BY <2>3, <2>7
    <3>2. e.id # x.id
      BY <2>1, <2>6, <2>7, <3>1 DEF Sound
    <3> QED BY <2>3, <2>4, <2>5, <2>6, <2>7, <3>2
  <2>8. CASE Refolds(t, x, new)
    <3>1. \A q \in new.rows :
            /\ q.path # x.path
            /\ \/ \E d \in t.rows : d.id # x.id /\ d.id = q.id /\ d.path = q.path
               \/ Real[q.path] \in present \cap GitDir
      BY <2>1, <2>8, RefoldsTo
    <3>2. CASE Real[e.path] \in present \cap GitDir
      <4>1. HasGit(e.path) /\ MainOf(e.path) = NoPath
        BY <2>6, <3>2, MainOfLinked DEF HasGit
      <4> QED BY <2>3, <4>1 DEF FoldTarget
    <3>3. CASE Real[e.path] \notin present \cap GitDir
      <4>1. PICK d \in t.rows : d.id # x.id /\ d.id = e.id /\ d.path = e.path
        BY <2>6, <3>1, <3>3
      <4>2. \A o \in Others(new, e) : o \in Others(t, d) \/ Real[o] \in present \cap GitDir
        <5>1. SUFFICES ASSUME NEW q \in new.rows, q # e, Real[q.path] \notin present \cap GitDir
                       PROVE  q.path \in Others(t, d)
          BY DEF Others
        <5>2. q.path # e.path
          BY <2>1, <2>6, <5>1 DEF Sound
        <5>3. PICK o \in t.rows : o.path = q.path
          BY <3>1, <5>1
        <5> QED BY <4>1, <5>2, <5>3 DEF Others
      <4>3. FoldTarget(d.path, Others(t, d)) # NoPath
        BY <2>3, <2>6, <4>1, <4>2, TargetFromFewer
      <4>4. \A r \in cmd[h].todo : r.id # d.id
        BY <2>5, <4>1
      <4> QED BY <2>4, <4>1, <4>3, <4>4
    <3> QED BY <3>2, <3>3
  <2> QED BY <2>2, <2>7, <2>8 DEF Others
<1> QED BY <1>1, <1>2, <1>3, FoldKinds

\* When the fold commits no row of a linked worktree is left that belongs to
\* another row, so a second fold would change nothing (fold_worktree_projects,
\* which runs on every upgrade).
THEOREM ProjectsFoldIsFinal ==
  ASSUME WorktreesBelong PROVE Spec => []FoldIsFinal
<1>1. Init => Settled
  BY DEF Init, Settled, At, Idle
<1>2. IndInv /\ Settled /\ [Next]_vars => Settled'
  BY SettledStep
<1>3. Settled => FoldIsFinal
  BY DEF Settled, FoldIsFinal, Others
<1> QED BY <1>1, <1>2, <1>3, ProjectsSound, PTL DEF Spec

\* What d in the tables t knows of what the row r knew.
Knows(t, r, d) ==
  /\ IF RowAt(t.rows, r.path) # {} THEN d.path = r.path
     ELSE Repo(Real[d.path]) = Repo(Real[r.path]) \/ LostClone(Repo(Real[r.path]))
  /\ r.name # NoName => IF d.path = r.path THEN d.name = r.name ELSE d.name # NoName
  /\ r.mirror # NoPath => IF d.path = r.path THEN d.mirror = r.mirror ELSE d.mirror # NoPath

\* A row that was folded away cannot come back: its directory holds no repository.
KeepsAll ==
  \A h \in Hook : At(h, "folding") => \A r \in db.rows :
    /\ \E d \in cmd[h].tables.rows : Knows(cmd[h].tables, r, d)
    /\ RowAt(cmd[h].tables.rows, r.path) = {} => Real[r.path] \notin present \cap GitDir

LEMMA KeepsRefolded ==
  ASSUME WorktreesBelong, NEW t \in Tables, Sound(t), NEW x \in t.rows,
         NEW new \in Tables, Sound(new), Refolds(t, x, new),
         NEW r \in Row, NEW d \in t.rows, Knows(t, r, d),
         RowAt(t.rows, r.path) = {} => Real[r.path] \notin present \cap GitDir
  PROVE  /\ \E e \in new.rows : Knows(new, r, e)
         /\ RowAt(new.rows, r.path) = {} => Real[r.path] \notin present \cap GitDir
<1>1. PICK dest \in Row :
        /\ dest.id # x.id /\ dest.path # x.path /\ Inherit(dest, x) \in new.rows
        /\ Repo(Real[dest.path]) = Repo(Real[x.path]) \/ LostClone(Repo(Real[x.path]))
        /\ \A q \in t.rows : q.id # x.id => (IF q.id = dest.id THEN Inherit(q, x) ELSE q) \in new.rows
  BY RefoldsTo
<1>2. /\ Real[x.path] \notin present \cap GitDir
      /\ \A e \in new.rows :
           /\ e.path # x.path
           /\ \/ \E q \in t.rows : q.id # x.id /\ q.id = e.id /\ q.path = e.path
              \/ Real[e.path] \in present \cap GitDir
  BY RefoldsTo
<1>3. \A q : /\ Inherit(q, x).path = q.path
             /\ Inherit(q, x).name = IF q.name = NoName THEN x.name ELSE q.name
             /\ Inherit(q, x).mirror = IF q.mirror = NoPath THEN x.mirror ELSE q.mirror
  BY DEF Inherit
<1>4. \A q \in t.rows : q.path = x.path \/ q.id = x.id => q = x
  BY DEF Sound
<1>5. CASE r.path = x.path
  <2>1. RowAt(t.rows, r.path) # {} /\ d = x
    BY <1>4, <1>5 DEF RowAt, Knows
  <2>2. RowAt(new.rows, r.path) = {}
    BY <1>2, <1>5 DEF RowAt
  <2>3. Knows(new, r, Inherit(dest, x))
    BY <1>1, <1>3, <1>5, <2>1, <2>2 DEF Knows
  <2> QED BY <1>1, <1>2, <1>5, <2>3
<1>6. CASE r.path # x.path /\ RowAt(t.rows, r.path) # {}
  <2>1. d.path = r.path /\ d.id # x.id
    BY <1>4, <1>6 DEF Knows
  <2> DEFINE e == IF d.id = dest.id THEN Inherit(d, x) ELSE d
  <2>2. e \in new.rows /\ e.path = r.path
    BY <1>1, <1>3, <2>1
  <2>3. RowAt(new.rows, r.path) # {}
    BY <2>2 DEF RowAt
  <2>4. Knows(new, r, e)
    BY <1>3, <2>1, <2>2, <2>3 DEF Knows
  <2> QED BY <2>2, <2>3, <2>4
<1>7. CASE r.path # x.path /\ RowAt(t.rows, r.path) = {}
  <2>1. RowAt(new.rows, r.path) = {}
    BY <1>2, <1>7 DEF RowAt
  <2>2. d.path # r.path
    BY <1>7 DEF RowAt
  <2>3. \A e \in new.rows : e.path # r.path
    BY <2>1 DEF RowAt
  <2>4. Repo(Real[d.path]) = Repo(Real[r.path]) \/ LostClone(Repo(Real[r.path]))
    BY <1>7 DEF Knows
  <2>5. CASE d = x
    <3>1. Knows(new, r, Inherit(dest, x))
      BY <1>1, <1>3, <2>1, <2>2, <2>3, <2>4, <2>5 DEF Knows
    <3> QED BY <1>1, <1>7, <3>1
  <2>6. CASE d # x
    <3> DEFINE e == IF d.id = dest.id THEN Inherit(d, x) ELSE d
    <3>1. e \in new.rows /\ e.path = d.path
      BY <1>1, <1>3, <1>4, <2>6
    <3>2. Knows(new, r, e)
      BY <1>3, <2>1, <2>2, <2>4, <3>1 DEF Knows
    <3> QED BY <1>7, <3>1, <3>2
  <2> QED BY <2>5, <2>6
<1> QED BY <1>5, <1>6, <1>7

LEMMA KeepsAllStep == WorktreesBelong /\ IndInv /\ KeepsAll /\ [Next]_vars => KeepsAll'
<1> SUFFICES ASSUME WorktreesBelong, IndInv, KeepsAll, [Next]_vars,
                    NEW h \in Hook, At(h, "folding")', NEW r \in db'.rows
             PROVE  /\ \E d \in cmd'[h].tables.rows : Knows(cmd[h].tables, r, d)'
                    /\ RowAt(cmd'[h].tables.rows, r.path) = {} => Real[r.path] \notin present' \cap GitDir
  BY DEF KeepsAll, RowAt, Knows
<1>1. UNCHANGED <<db, born>> /\ present' \subseteq present
  BY FoldKinds, TableKinds
<1>2. r \in db.rows /\ db.rows \subseteq Row
  BY <1>1 DEF IndInv, TypeOK, Tables
<1>3. ASSUME NEW t, NEW d, Knows(t, r, d), t = cmd'[h].tables
      PROVE  Knows(cmd[h].tables, r, d)'
  <2>1. LostClone(Repo(Real[r.path])) => LostClone(Repo(Real[r.path]))'
    BY LostForGood
  <2> QED BY <1>3, <2>1 DEF Knows, RowAt, Repo
<1>4. CASE cmd'[h] = cmd[h] /\ At(h, "folding")
  <2>1. PICK d \in cmd[h].tables.rows : Knows(cmd[h].tables, r, d)
    BY <1>2, <1>4 DEF KeepsAll
  <2>2. RowAt(cmd[h].tables.rows, r.path) = {} => Real[r.path] \notin present \cap GitDir
    BY <1>2, <1>4 DEF KeepsAll
  <2> QED BY <1>1, <1>3, <1>4, <2>1, <2>2
<1>5. CASE FoldBegin(h)
  <2>1. cmd'[h].tables = db
    BY <1>5, FoldBeginStep
  <2>2. RowAt(db.rows, r.path) # {}
    BY <1>2 DEF RowAt
  <2>3. Knows(db, r, r)
    BY <2>2 DEF Knows
  <2> QED BY <1>2, <1>3, <2>1, <2>2, <2>3
<1>6. CASE FoldRow(h)
  <2> DEFINE t == cmd[h].tables
             new == cmd'[h].tables
  <2>1. /\ At(h, "folding") /\ t \in Tables /\ Sound(t) /\ new \in Tables /\ Sound(new)
        /\ present' = present
    BY <1>6, FoldRowStep
  <2>2. PICK x \in t.rows : new = t \/ Refolds(t, x, new)
    BY <1>6, FoldRowStep
  <2>3. PICK d \in t.rows : Knows(t, r, d)
    BY <1>2, <2>1 DEF KeepsAll
  <2>4. RowAt(t.rows, r.path) = {} => Real[r.path] \notin present \cap GitDir
    BY <1>2, <2>1 DEF KeepsAll
  <2> HIDE DEF t, new
  <2>5. /\ \E e \in new.rows : Knows(new, r, e)
        /\ RowAt(new.rows, r.path) = {} => Real[r.path] \notin present \cap GitDir
    BY <1>2, <2>1, <2>2, <2>3, <2>4, KeepsRefolded
  <2> QED BY <1>3, <2>1, <2>5 DEF new
<1> QED BY <1>4, <1>5, <1>6, FoldKinds

\* The fold forgets nothing: a row that stays keeps its name and mirror, and what
\* a folded row knew is known of its repository afterwards
\* (fold_worktree_projects, which copies the columns before it deletes the row).
THEOREM ProjectsFoldKeepsKnown ==
  ASSUME WorktreesBelong PROVE Spec => []FoldKeepsKnown
<1>1. Init => KeepsAll
  BY DEF Init, KeepsAll, At, Idle
<1>2. IndInv /\ KeepsAll /\ [Next]_vars => KeepsAll'
  BY KeepsAllStep
<1>3. KeepsAll => FoldKeepsKnown
  BY DEF KeepsAll, Knows, FoldKeepsKnown
<1> QED BY <1>1, <1>2, <1>3, ProjectsSound, PTL DEF Spec

-----------------------------------------------------------------------------
(***************************************************************************)
(* A disabled repository is off.                                           *)
(***************************************************************************)

\* The checkouts of a repository that /disable has not visited are still to come.
Visited ==
  \A u \in User : At(u, "disable") /\ ~cmd[u].failed =>
    \A d \in Checkouts(cmd[u].dir) : d \in cmd[u].left \/ marker[d] = "none"

\* A checkout whose main directory disappears is a repository of its own.
LEMMA CheckoutsShrink ==
  ASSUME NEW p \in Path, present' \subseteq present
  PROVE  Checkouts(p)' \subseteq Checkouts(p) /\ Checkouts(p) \subseteq Dir
<1>1. CASE MainOf(p)' = MainOf(p)
  <2>1. Checkouts(p)' = Checkouts(p)
    BY <1>1 DEF Checkouts, Key
  <2> QED BY <2>1, KeyType, RealType DEF Checkouts
<1>2. CASE MainOf(p)' # MainOf(p)
  <2>1. MainOf(p) # NoPath /\ MainOf(p)' = NoPath
    BY <1>2 DEF MainOf
  <2>2. Real[p] \notin GitDir
    BY <2>1, MainOfLinked
  <2>3. Checkouts(p)' = {Real[p]}
    BY <2>1, <2>2 DEF Checkouts, Key
  <2> QED BY <2>3, KeyType, RealType DEF Checkouts
<1> QED BY <1>1, <1>2

LEMMA VisitedStep == OneUser /\ IndInv /\ Visited /\ [Next]_vars => Visited'
<1> SUFFICES ASSUME OneUser, IndInv, Visited, [Next]_vars,
                    NEW u \in User, cmd'[u].at = "disable", ~cmd'[u].failed,
                    NEW d \in Checkouts(cmd[u].dir)', marker'[d] # "none"
             PROVE  d \in cmd'[u].left
  BY DEF Visited, At
<1>0. TypeOK
  BY DEF IndInv
<1>1. present' \subseteq present
  BY TableKinds
<1>a. ASSUME NEW p \in Path, cmd'[u].dir = p PROVE d \in Checkouts(p) /\ d \in Dir
  <2>1. Checkouts(cmd[u].dir)' = Checkouts(p)'
    BY <1>a DEF Checkouts, Key, MainOf
  <2> QED BY <1>1, <2>1, CheckoutsShrink
<1>2. CASE cmd'[u] = cmd[u] /\ (marker' = marker \/ \E e \in Dir : marker' = [marker EXCEPT ![e] = "none"])
  <2>1. cmd[u].dir \in Path
    BY <1>0, <1>2, UserHolds
  <2>2. d \in Checkouts(cmd[u].dir) /\ d \in Dir
    BY <1>a, <1>2, <2>1
  <2>3. marker[d] # "none"
    BY <1>0, <1>2, <2>2 DEF TypeOK
  <2> QED BY <1>2, <2>2, <2>3 DEF Visited, At
<1>3. ASSUME NEW h \in Hook, Capture(h) PROVE cmd'[u] = cmd[u] /\ marker' = marker
  <2>1. ASSUME NEW v, Goto(h, v) PROVE cmd'[u] = cmd[u]
    BY <1>0, <2>1, ProjectsAssumption DEF Goto, TypeOK
  <2> QED BY <1>3, <2>1 DEF Capture, Gate, FoldBegin, FoldRow, FoldCommit, FoldFails, OpenAsIs, Lookup,
                           Record, NothingNew, StampName, Sweep, Leave
<1>4. ASSUME Command(u) PROVE d \in cmd'[u].left
  <2>1. ASSUME NEW v, Goto(u, v) PROVE cmd'[u] = v
    BY <1>0, <2>1 DEF Goto, TypeOK
  <2>2. ASSUME NEW p \in Cwd, NEW goal \in {"enable", "disable"}, Scope(u, p, goal) PROVE d \in cmd'[u].left
    <3>1. PICK listed \in IF Real[Key(p)] \in GitDir THEN BOOLEAN ELSE {TRUE} :
            Goto(u, [at |-> goal, dir |-> p, failed |-> ~listed, root |-> Canonical(db.rows, Key(p)),
                     left |-> {e \in IF listed THEN Checkouts(p) ELSE {Real[p], Real[Key(p)]} : marker[e] # "none"}])
      BY <2>2 DEF Scope
    <3>2. /\ cmd'[u].dir = p /\ cmd'[u].failed = ~listed
          /\ cmd'[u].left = {e \in IF listed THEN Checkouts(p) ELSE {Real[p], Real[Key(p)]} : marker[e] # "none"}
      BY <2>1, <3>1
    <3>3. p \in Path
      BY ProjectsAssumption
    <3>4. d \in Checkouts(p)
      BY <1>a, <3>2, <3>3
    <3>5. marker' = marker
      BY <2>2 DEF Scope
    <3> QED BY <3>2, <3>4, <3>5
  <2>3. ASSUME NEW e \in Dir, NEW ok \in BOOLEAN, Unlink(u, e, ok) PROVE d \in cmd'[u].left
    <3>1. /\ At(u, "disable") /\ e \in cmd[u].left /\ UNCHANGED present
          /\ marker' = [marker EXCEPT ![e] = IF ok THEN "none" ELSE @]
          /\ cmd'[u] = [cmd[u] EXCEPT !.left = @ \ {e}, !.failed = @ \/ ~ok]
      BY <2>1, <2>3 DEF Unlink
    <3>2. cmd[u] \in [at : {"enable", "disable"}, dir : Path, failed : BOOLEAN, root : Path, left : SUBSET Dir]
      BY <1>0, <3>1, UserHolds DEF At
    <3>3. /\ cmd'[u].dir = cmd[u].dir /\ cmd'[u].left = cmd[u].left \ {e}
          /\ cmd'[u].failed = (cmd[u].failed \/ ~ok)
      BY <3>1, <3>2
    <3>4. ok /\ ~cmd[u].failed
      BY <3>3
    <3>5. d \in Checkouts(cmd[u].dir) /\ d \in Dir
      BY <1>a, <3>2, <3>3
    <3>6. d # e /\ marker[d] # "none"
      BY <1>0, <3>1, <3>4, <3>5 DEF TypeOK
    <3>7. d \in cmd[u].left
      BY <3>1, <3>4, <3>5, <3>6 DEF Visited
    <3> QED BY <3>3, <3>6, <3>7
  <2>4. ASSUME ~ \E p \in Cwd, goal \in {"enable", "disable"} : Scope(u, p, goal),
               ~ \E e \in Dir, ok \in BOOLEAN : Unlink(u, e, ok)
        PROVE  cmd'[u].at # "disable"
    <3>1. CASE \E mode \in {"central", "project"} : Enable(u, mode)
      <4>1. PICK mode \in {"central", "project"} :
              Goto(u, [at |-> IF mode = "central" THEN "clearing" ELSE "register", root |-> cmd[u].root])
        BY <3>1 DEF Enable
      <4> QED BY <2>1, <4>1
    <3>2. CASE ClearStale(u)
      <4>1. cmd'[u] = [at |-> "register", root |-> cmd[u].root]
        BY <2>1, <3>2 DEF ClearStale
      <4> QED BY <4>1
    <3>3. CASE (\E name \in Given : RegisterName(u, name)) \/ Return(u)
      <4>1. cmd'[u] = Idle
        BY <2>1, <3>3 DEF RegisterName, Return
      <4> QED BY <4>1, IdleReady
    <3>4. CASE \E ok \in BOOLEAN : ClearMirrorMeta(u, ok)
      <4>1. PICK ok \in BOOLEAN :
              Goto(u, [at |-> IF ok /\ ~cmd[u].failed THEN "disabled" ELSE "idle", dir |-> cmd[u].dir])
        BY <3>4 DEF ClearMirrorMeta
      <4> QED BY <2>1, <4>1
    <3> QED BY <1>4, <2>4, <3>1, <3>2, <3>3, <3>4 DEF Command
  <2> QED BY <2>2, <2>3, <2>4
<1> QED BY <1>2, <1>3, <1>4 DEF Next, vars, RemoveDir, OneUser

\* When /disable reports success, no checkout of the repository is captured,
\* through whichever spelling or worktree (repo_scope, disable).
THEOREM ProjectsDisabledIsOff ==
  ASSUME OneUser PROVE Spec => DisabledIsOff
<1>1. Init => Visited
  BY DEF Init, Visited, At, Idle
<1>2. IndInv /\ Visited /\ [Next]_vars => Visited'
  BY VisitedStep
<1>3. ASSUME IndInv, Visited, [Next]_vars, NEW u \in User, ~At(u, "disabled"), cmd'[u].at = "disabled",
             NEW p \in Path, Real[Key(p)] = Real[Key(cmd[u].dir)]
      PROVE  ~IsEnabled(p)
  <2>0. TypeOK
    BY <1>3 DEF IndInv
  <2>1. ASSUME NEW h \in Hook, Capture(h) PROVE cmd'[u] = cmd[u]
    <3>1. ASSUME NEW v, Goto(h, v) PROVE cmd'[u] = cmd[u]
      BY <2>0, <3>1, ProjectsAssumption DEF Goto, TypeOK
    <3> QED BY <2>1, <3>1 DEF Capture, Gate, FoldBegin, FoldRow, FoldCommit, FoldFails, OpenAsIs, Lookup,
                             Record, NothingNew, StampName, Sweep, Leave
  <2>2. Command(u)
    BY <1>3, <2>1 DEF Next, vars, RemoveDir, OneUser, At
  <2>3. At(u, "disable") /\ cmd[u].left = {} /\ ~cmd[u].failed
    <3>1. ASSUME NEW v, Goto(u, v) PROVE cmd'[u] = v
      BY <2>0, <3>1 DEF Goto, TypeOK
    <3>2. ASSUME NEW ok \in BOOLEAN, ClearMirrorMeta(u, ok) PROVE At(u, "disable") /\ cmd[u].left = {} /\ ~cmd[u].failed
      <4>1. cmd'[u].at = IF ok /\ ~cmd[u].failed THEN "disabled" ELSE "idle"
        BY <3>1, <3>2 DEF ClearMirrorMeta
      <4> QED BY <1>3, <3>2, <4>1 DEF ClearMirrorMeta
    <3>3. ASSUME NEW p1 \in Cwd, NEW goal \in {"enable", "disable"}, Scope(u, p1, goal) PROVE FALSE
      <4>1. PICK listed : Goto(u, [at |-> goal, dir |-> p1, failed |-> ~listed, root |-> Canonical(db.rows, Key(p1)),
                left |-> {d \in IF listed THEN Checkouts(p1) ELSE {Real[p1], Real[Key(p1)]} : marker[d] # "none"}])
        BY <3>3 DEF Scope
      <4>2. cmd'[u].at = goal
        BY <3>1, <4>1
      <4> QED BY <1>3, <4>2
    <3>4. ASSUME NEW mode \in {"central", "project"}, Enable(u, mode) PROVE FALSE
      <4>1. cmd'[u] = [at |-> IF mode = "central" THEN "clearing" ELSE "register", root |-> cmd[u].root]
        BY <3>1, <3>4 DEF Enable
      <4> QED BY <1>3, <4>1
    <3>5. ASSUME ClearStale(u) PROVE FALSE
      <4>1. cmd'[u] = [at |-> "register", root |-> cmd[u].root]
        BY <3>1, <3>5 DEF ClearStale
      <4> QED BY <1>3, <4>1
    <3>6. ASSUME (\E name \in Given : RegisterName(u, name)) \/ Return(u) PROVE FALSE
      <4>1. cmd'[u] = Idle
        BY <3>1, <3>6 DEF RegisterName, Return
      <4> QED BY <1>3, <4>1, IdleReady
    <3>7. ASSUME NEW d \in Dir, NEW ok \in BOOLEAN, Unlink(u, d, ok) PROVE FALSE
      <4>1. cmd'[u] = [cmd[u] EXCEPT !.left = @ \ {d}, !.failed = @ \/ ~ok] /\ At(u, "disable")
        BY <3>1, <3>7 DEF Unlink
      <4>2. cmd[u] \in [at : {"enable", "disable"}, dir : Path, failed : BOOLEAN, root : Path, left : SUBSET Dir]
        BY <2>0, <4>1, UserHolds DEF At
      <4> QED BY <1>3, <4>1, <4>2 DEF At
    <3> QED BY <2>2, <3>2, <3>3, <3>4, <3>5, <3>6, <3>7 DEF Command
  <2> DEFINE dir == cmd[u].dir
  <2>4. \A d \in Checkouts(dir) : marker[d] = "none"
    BY <1>3, <2>3 DEF Visited
  <2>5. ~Marked(MainOf(p))
    <3>1. MainOf(p) # NoPath => Real[MainOf(p)] = Real[Key(dir)]
      BY <1>3 DEF Key
    <3> QED BY <2>4, <3>1 DEF Marked, Checkouts
  <2>6. ~Marked(p)
    <3>1. CASE MainOf(p) = NoPath
      <4>1. Real[p] = Real[Key(dir)]
        BY <1>3, <3>1 DEF Key
      <4> QED BY <2>4, <4>1 DEF Marked, Checkouts
    <3>2. CASE MainOf(p) # NoPath
      <4>1. Linked[Real[p]] = Real[Key(dir)] /\ Real[Key(dir)] \in GitDir
        BY <1>3, <3>2, MainOfLinked DEF Key
      <4>2. Real[p] \in Checkouts(dir)
        BY <4>1, RealType DEF Checkouts
      <4> QED BY <2>4, <4>2 DEF Marked
    <3> QED BY <3>1, <3>2
  <2> QED BY <2>5, <2>6 DEF IsEnabled
<1>4. IndInv /\ Visited /\ [Next]_vars =>
      [\A u \in User : ~At(u, "disabled") /\ cmd'[u].at = "disabled" =>
         \A p \in Path : Real[Key(p)] = Real[Key(cmd[u].dir)] => ~IsEnabled(p)]_vars
  BY <1>3
<1> QED BY <1>1, <1>2, <1>4, ProjectsSound, PTL DEF Spec, DisabledIsOff

=============================================================================
