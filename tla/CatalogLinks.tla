----------------------------- MODULE CatalogLinks -----------------------------
(***************************************************************************)
(* The public addresses of the catalog in one locale: slugs, the history   *)
(* that redirects from old ones, and publication (CatalogService and its   *)
(* repository).  Products, collections and categories each have slugs of   *)
(* their own; a behaviour is about one of the three kinds.                 *)
(*                                                                         *)
(* An upsert of a translation reads the status of its entity before its    *)
(* transaction, then checks the history, then writes; a publication or an  *)
(* archiving reads the status before it writes it.  Nothing that was read  *)
(* is locked or read again.                                                *)
(***************************************************************************)
EXTENDS Naturals, FiniteSets

CONSTANTS Entities, Slugs, Edits, None

VARIABLES kind,      \* the kind of the entities
          status,    \* entity -> its status; a category is always public
          slug,      \* entity -> the slug of its translation, or None
          history,   \* slug_history: old slug -> the entity it redirects to
          edits,     \* upserts and transitions under way
          shown,     \* kept for the property: <<slug, entity>> once public
          disputed   \* kept for the property: the slugs that were written about
                     \* by an edit whose reading was not true any more

linkVars == <<kind, status, slug, history, edits, shown, disputed>>

Kinds      == {"PRODUCT", "COLLECTION", "CATEGORY"}
NoLinkEdit == [at |-> "idle", entity |-> None, slug |-> None, status |-> "DRAFT",
               old |-> None, target |-> "ARCHIVED"]

LinksInit ==
  /\ kind \in Kinds
  /\ status = [e \in Entities |-> IF kind = "CATEGORY" THEN "PUBLISHED" ELSE "DRAFT"]
  /\ slug = [e \in Entities |-> None]
  /\ history = [s \in Slugs |-> None]
  /\ edits = [u \in Edits |-> NoLinkEdit]
  /\ shown = {}
  /\ disputed = {}

Public(e, st, sl) == st[e] = "PUBLISHED" /\ sl[e] # None

ShownAfter(st, sl) == shown \cup {<<sl[e], e>> : e \in {e \in Entities : Public(e, st, sl)}}

LinkEditEnds(u) == edits' = [edits EXCEPT ![u] = NoLinkEdit]

(***************************************************************************)
(* Upserting a translation                                                 *)
(***************************************************************************)
ReadStatus(u, e, s) ==
  /\ edits[u].at = "idle"
  /\ edits' = [edits EXCEPT ![u] = [NoLinkEdit EXCEPT !.at = "read", !.entity = e, !.slug = s,
                                                  !.status = status[e]]]
  /\ UNCHANGED <<kind, status, slug, history, shown, disputed>>

AlwaysAvailable(e, s) == TRUE

SlugAvailable(e, s) == history[s] \in {None, e}

\* The slug the edit replaces, if it replaces one.
OldSlug(e, s) == IF slug[e] = s THEN None ELSE slug[e]

CheckSlug(u) ==
  LET edit == edits[u]
  IN /\ edit.at = "read"
     /\ SlugAvailable(edit.entity, edit.slug)
     /\ edits' = [edits EXCEPT ![u].at = "checked",
                               ![u].old = OldSlug(edit.entity, edit.slug)]
     /\ UNCHANGED <<kind, status, slug, history, shown, disputed>>

\* upsert with an empty update: a slug that is already history stays as it is.
Remembered(old, e) == IF old # None /\ history[old] = None
                      THEN [history EXCEPT ![old] = e] ELSE history

\* The slug was remembered for another entity since, the translation has another
\* slug than the one to be remembered, or its entity has become public.
UpsertMistaken(u) ==
  LET edit == edits[u]
      e == edit.entity
  IN \/ ~ SlugAvailable(e, edit.slug)
     \/ edit.old # OldSlug(e, edit.slug)
     \/ status[e] = "PUBLISHED" /\ edit.status # "PUBLISHED"

\* The unique index of (locale, slug) decides between two entities.
Upsert(u, remembers) ==
  LET edit == edits[u]
      e == edit.entity
      sl == [slug EXCEPT ![e] = edit.slug]
  IN /\ edit.at = "checked"
     /\ \A f \in Entities \ {e} : slug[f] # edit.slug
     /\ slug' = sl
     /\ history' = IF remembers THEN Remembered(edit.old, e) ELSE history
     /\ shown' = ShownAfter(status, sl)
     /\ disputed' = IF UpsertMistaken(u)
                    THEN disputed \cup ({edit.slug, edit.old, slug[e]} \ {None}) ELSE disputed
     /\ LinkEditEnds(u)
     /\ UNCHANGED <<kind, status>>

UpsertProductTranslation(u) ==
  kind = "PRODUCT" /\ Upsert(u, edits[u].status = "PUBLISHED")

UpsertCollectionTranslation(u) ==
  kind = "COLLECTION" /\ Upsert(u, edits[u].status = "PUBLISHED")

UpsertCategoryTranslation(u) ==
  kind = "CATEGORY" /\ Upsert(u, TRUE)

\* A slug that is taken, or any other error, rolls the edit back.
LinkEditFails(u) ==
  /\ edits[u].at # "idle"
  /\ LinkEditEnds(u)
  /\ UNCHANGED <<kind, status, slug, history, shown, disputed>>

(***************************************************************************)
(* Publication.  It asks for a translation (and for variants, a primary    *)
(* category and media, which are not modelled): of a product in the        *)
(* transaction that writes, of a collection where its status is read.      *)
(***************************************************************************)
Translated(e, target) == target = "PUBLISHED" => slug[e] # None

CheckTransition(u, e, target) ==
  /\ kind # "CATEGORY" /\ edits[u].at = "idle"
  /\ status[e] # "ARCHIVED"
  /\ kind = "COLLECTION" => Translated(e, target)
  /\ edits' = [edits EXCEPT ![u] = [NoLinkEdit EXCEPT !.at = "target", !.entity = e,
                                                  !.target = target]]
  /\ UNCHANGED <<kind, status, slug, history, shown, disputed>>

\* The entity was archived since: its slugs were given up, and it is public again.
Revives(u) == edits[u].target = "PUBLISHED" /\ status[edits[u].entity] = "ARCHIVED"

Transition(u) ==
  LET e == edits[u].entity
      st == [status EXCEPT ![e] = edits[u].target]
  IN /\ edits[u].at = "target"
     /\ status' = st
     /\ shown' = ShownAfter(st, slug)
     /\ disputed' = IF Revives(u) THEN disputed \cup {s \in Slugs : <<s, e>> \in shown}
                    ELSE disputed
     /\ LinkEditEnds(u)
     /\ UNCHANGED <<kind, slug, history>>

TransitionProduct(u) ==
  kind = "PRODUCT" /\ Translated(edits[u].entity, edits[u].target) /\ Transition(u)

TransitionCollection(u) == kind = "COLLECTION" /\ Transition(u)

LinksNext ==
  \E u \in Edits :
    \/ \E e \in Entities, s \in Slugs : ReadStatus(u, e, s)
    \/ CheckSlug(u)
    \/ UpsertProductTranslation(u)
    \/ UpsertCollectionTranslation(u)
    \/ UpsertCategoryTranslation(u)
    \/ \E e \in Entities, target \in {"PUBLISHED", "ARCHIVED"} : CheckTransition(u, e, target)
    \/ TransitionProduct(u)
    \/ TransitionCollection(u)
    \/ LinkEditFails(u)

LinksSpec == LinksInit /\ [][LinksNext]_linkVars

(***************************************************************************)
(* Properties                                                              *)
(***************************************************************************)
\* The type of every variable.
LinksTypeOK ==
  /\ kind \in Kinds
  /\ status \in [Entities -> {"DRAFT", "PUBLISHED", "ARCHIVED"}]
  /\ slug \in [Entities -> Slugs \cup {None}]
  /\ history \in [Slugs -> Entities \cup {None}]
  /\ edits \in [Edits -> [at : {"idle", "read", "checked", "target"},
                          entity : Entities \cup {None}, slug : Slugs \cup {None},
                          status : {"DRAFT", "PUBLISHED", "ARCHIVED"}, old : Slugs \cup {None},
                          target : {"PUBLISHED", "ARCHIVED"}]]
  /\ shown \subseteq Slugs \X Entities
  /\ disputed \subseteq Slugs

\* resolveProductSlug and its like: the public entity that has the slug, else
\* the public entity the history redirects to, else nothing.
Resolved(s) ==
  LET found == {e \in Entities : slug[e] = s /\ Public(e, status, slug)}
      redirected == {e \in Entities : history[s] = e /\ Public(e, status, slug)}
  IN IF found # {} THEN found ELSE redirected

\* docs/seo-strategy.md:21, "slug changes redirect, they never 404": a slug a
\* public entity was ever shown under leads to that entity as long as it is
\* public, after any sequence of renamings and publications.  Excepted are the
\* slugs an upsert wrote about when what it had read of them was not true any
\* more, and those of an archived entity that a late publication revives.
LinksNeverBreak ==
  \A l \in shown :
    Public(l[2], status, slug) /\ l[1] \notin disputed => Resolved(l[1]) = {l[2]}
===============================================================================
