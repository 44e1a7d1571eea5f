----------------------------- MODULE CategoryTree -----------------------------
(***************************************************************************)
(* The category tree of the catalog: parents, and the materialized paths   *)
(* that listing and filtering go by (createCategory, moveCategory).        *)
(*                                                                         *)
(* Neither operation locks what it reads, and the transactions are READ    *)
(* COMMITTED: each one reads the tree, then writes rows that stay locked   *)
(* until it commits.  The database's own cycle check runs at the write and *)
(* sees what is committed then.                                            *)
(***************************************************************************)
EXTENDS Naturals, Sequences, SequencesExt

CONSTANTS Categories, TreeEdits, MaximumDepth, Root

VARIABLES parents,     \* category -> its parent, Root, or itself when it does not exist
          paths,       \* category -> its path, a sequence of categories
          treeEdits,   \* the transactions under way
          interleaved  \* kept for the property: an edit was written after another
                       \* one had committed since it read, or was yet to commit

treeVars == <<parents, paths, treeEdits, interleaved>>

Exists(c) == paths[c] # <<>>
NoEdit    == [at |-> "idle", category |-> Root, parent |-> Root, paths |-> <<>>]

TreeInit ==
  /\ parents = [c \in Categories |-> c]
  /\ paths = [c \in Categories |-> <<>>]
  /\ treeEdits = [e \in TreeEdits |-> NoEdit]
  /\ interleaved = FALSE

PathUnder(parent, c) == IF parent = Root THEN <<c>> ELSE Append(paths[parent], c)

Descendants(c) == {d \in Categories : Exists(d) /\ d # c /\ IsPrefix(paths[c], paths[d])}

\* How far the subtree of c reaches below c.
Heights(c) == {0} \cup {Len(paths[d]) - Len(paths[c]) : d \in Descendants(c)}

RewrittenAlone(c, path) == [d \in {c} |-> path]

\* The row of c and of every descendant, the old path replaced by the new one.
Rewritten(c, path) ==
  [d \in {c} \cup Descendants(c) |->
     path \o SubSeq(paths[d], Len(paths[c]) + 1, Len(paths[d]))]

Read(e, c, parent, rewritten) ==
  /\ ~ interleaved     \* bound: no edit starts once the property claims nothing
  /\ treeEdits[e].at = "idle"
  /\ treeEdits' = [treeEdits EXCEPT ![e] =
                 [at |-> "read", category |-> c, parent |-> parent, paths |-> rewritten]]
  /\ UNCHANGED <<parents, paths, interleaved>>

CreateCategory(e, c, parent) ==
  /\ ~ Exists(c)
  /\ \A f \in TreeEdits : treeEdits[f].category # c      \* a fresh identifier
  /\ parent # Root => parent # c /\ Exists(parent)
  /\ Len(PathUnder(parent, c)) <= MaximumDepth
  /\ Read(e, c, parent, [d \in {c} |-> PathUnder(parent, c)])

MoveCategory(e, c, parent) ==
  /\ c # parent
  /\ Exists(c)
  /\ parent # Root => Exists(parent) /\ ~ IsPrefix(paths[c], paths[parent])
  /\ \A h \in Heights(c) : Len(PathUnder(parent, c)) + h <= MaximumDepth
  /\ Read(e, c, parent, Rewritten(c, PathUnder(parent, c)))

Written == {e \in TreeEdits : treeEdits[e].at = "written"}
Locked(e) == UNION {DOMAIN treeEdits[f].paths : f \in Written \ {e}}

\* category_parent_cycle_trigger, on an update only.
TriggerPasses(e) ==
  LET c == treeEdits[e].category
      parent == treeEdits[e].parent
  IN Exists(c) /\ parent # Root => ~ IsPrefix(paths[c], paths[parent])

Write(e) ==
  /\ treeEdits[e].at = "read"
  /\ DOMAIN treeEdits[e].paths \cap Locked(e) = {}
  /\ TriggerPasses(e)
  /\ treeEdits' = [treeEdits EXCEPT ![e].at = "written"]
  /\ UNCHANGED <<parents, paths, interleaved>>

\* Another transaction that has read the tree will act on what is no longer so.
Commit(e) ==
  LET edit == treeEdits[e]
  IN /\ edit.at = "written"
     /\ parents' = [parents EXCEPT ![edit.category] = edit.parent]
     /\ paths' = [d \in Categories |->
                    IF d \in DOMAIN edit.paths THEN edit.paths[d] ELSE paths[d]]
     /\ interleaved' = (interleaved \/ \E f \in TreeEdits \ {e} : treeEdits[f].at # "idle")
     /\ treeEdits' = [treeEdits EXCEPT ![e] = NoEdit]

\* Any error, the trigger's among them, rolls the transaction back.
Rollback(e) ==
  /\ treeEdits[e].at # "idle"
  /\ treeEdits' = [treeEdits EXCEPT ![e] = NoEdit]
  /\ UNCHANGED <<parents, paths, interleaved>>

TreeNext ==
  \E e \in TreeEdits :
    \/ \E c \in Categories, parent \in Categories \cup {Root} :
         \/ CreateCategory(e, c, parent)
         \/ MoveCategory(e, c, parent)
    \/ Write(e)
    \/ Commit(e)
    \/ Rollback(e)

TreeSpec == TreeInit /\ [][TreeNext]_treeVars

-------------------------------------------------------------------------------
\* The type of every variable.
TreeTypeOK ==
  /\ parents \in [Categories -> Categories \cup {Root}]
  /\ \A c \in Categories : \A i \in DOMAIN paths[c] : paths[c][i] \in Categories
  /\ \A e \in TreeEdits :
       /\ treeEdits[e].at \in {"idle", "read", "written"}
       /\ DOMAIN treeEdits[e].paths \subseteq Categories
       /\ treeEdits[e].category \in Categories \cup {Root}
       /\ treeEdits[e].parent \in Categories \cup {Root}
  /\ interleaved \in BOOLEAN

\* As long as no edit acted on a tree another one had changed since it read it,
\* every path spells the chain of parents up to the root, hence there is no
\* cycle, and none is deeper than the maximum: moving a subtree rewrites all of
\* it and counts its height (createCategory, moveCategory).  Two edits at once
\* do break it: nothing is locked, and the trigger sees committed rows only.
PathsSpellTheTree ==
  interleaved \/
  \A c \in Categories : Exists(c) =>
    /\ paths[c] = PathUnder(parents[c], c)
    /\ Len(paths[c]) <= MaximumDepth
    /\ IsInjective(paths[c])
===============================================================================
