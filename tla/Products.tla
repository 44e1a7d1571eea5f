------------------------------ MODULE Products ------------------------------
(***************************************************************************)
(* One product of the catalog: its status, its variants with the default   *)
(* one, and its categories with the primary one (CatalogService, through   *)
(* the repository).  An edit reads and checks outside its transaction and  *)
(* writes in it with what it read, so edits of the staff overlap; the      *)
(* triggers and the unique index of the database see what is committed.    *)
(* Translations and publication are the business of CatalogLinks, media of *)
(* Media; categories are never deleted.                                    *)
(***************************************************************************)
EXTENDS Naturals, FiniteSets

CONSTANTS Variants, Categories, Edits, None

VARIABLES
  status,     \* of the product
  variants,   \* product_variant
  default,    \* product.default_variant_id
  members,    \* product_category
  primary,    \* product.primary_category_id
  edits,      \* edits of the staff between their check and their transaction
  overtaken,  \* kinds of edits written after another made their check untrue
  retired     \* the product was archived once

productVars == <<status, variants, default, members, primary, edits, overtaken, retired>>

NoVariant == [status |-> "absent", isDefault |-> FALSE]
NoEdit    == [kind |-> "none", id |-> None, to |-> "none", stale |-> FALSE]

ProductsInit ==
  /\ status = "DRAFT"
  /\ variants = [v \in Variants |-> NoVariant]
  /\ default = None
  /\ members = {}
  /\ primary = None
  /\ edits = [e \in Edits |-> NoEdit]
  /\ overtaken = {}
  /\ retired = FALSE

-----------------------------------------------------------------------------
Check(e, kind, id, to) ==
  /\ edits[e] = NoEdit
  /\ edits' = [edits EXCEPT ![e] = [kind |-> kind, id |-> id, to |-> to, stale |-> FALSE]]
  /\ UNCHANGED <<status, variants, default, members, primary, overtaken, retired>>

\* The edit e is over; the checks of the edits in S do not hold any more.
Over(e, S) ==
  /\ edits' = [f \in Edits |-> IF f = e THEN NoEdit
                               ELSE IF f \in S THEN [edits[f] EXCEPT !.stale = TRUE]
                               ELSE edits[f]]
  /\ overtaken' = IF edits[e].stale THEN overtaken \cup {edits[e].kind} ELSE overtaken

\* An error in the transaction.
RolledBack(e) ==
  /\ edits' = [edits EXCEPT ![e] = NoEdit]
  /\ UNCHANGED <<status, variants, default, members, primary, overtaken, retired>>

CreateVariant(v) ==
  /\ variants[v].status = "absent"
  /\ variants' = [variants EXCEPT ![v].status = "DRAFT"]
  /\ UNCHANGED <<status, default, members, primary, edits, overtaken, retired>>

-----------------------------------------------------------------------------
(* updateVariantStatus                                                     *)
CheckVariantStatus(e, v, to) ==
  /\ variants[v].status \notin {"absent", to, "ARCHIVED"}
  /\ to = "ARCHIVED" => ~variants[v].isDefault
  /\ Check(e, "variant", v, to)

UpdateVariantStatus(e) ==
  /\ edits[e].kind = "variant"
  /\ variants' = [variants EXCEPT ![edits[e].id].status = edits[e].to]
  /\ Over(e, {})
  /\ UNCHANGED <<status, default, members, primary, retired>>

(* setDefaultVariant.  The unique index refuses one of two transactions    *)
(* that overlap, the trigger of the product a variant that is archived.    *)
DefaultUnchecked(v) == TRUE
DefaultAccepted(v)  == variants[v].status # "ARCHIVED"
ClearedDefaults     == [v \in Variants |-> [variants[v] EXCEPT !.isDefault = FALSE]]

CheckDefault(e, v) ==
  /\ variants[v].status \notin {"absent", "ARCHIVED"}
  /\ Check(e, "default", v, "none")

SetDefaultVariant(e) ==
  LET picked == edits[e].id
  IN  /\ edits[e].kind = "default"
      /\ \/ /\ DefaultAccepted(picked)
            /\ variants' = [ClearedDefaults EXCEPT ![picked].isDefault = TRUE]
            /\ default' = picked
            /\ Over(e, {f \in Edits : edits[f].kind = "variant" /\ edits[f].id = picked
                                      /\ edits[f].to = "ARCHIVED"})
            /\ UNCHANGED <<status, members, primary, retired>>
         \/ RolledBack(e)

-----------------------------------------------------------------------------
(* transitionProduct, and what of assertPublicationCompleteness is about   *)
(* variants and categories: it reads the product in the transaction.       *)
CheckTransition(e, to) ==
  /\ status # "ARCHIVED"
  /\ Check(e, "transition", None, to)

Publishable ==
  /\ Cardinality({v \in Variants : variants[v].status = "PUBLISHED" /\ variants[v].isDefault}) = 1
  /\ primary # None /\ primary \in members

TransitionProduct(e) ==
  LET to == edits[e].to
  IN  /\ edits[e].kind = "transition"
      /\ \/ /\ to = "PUBLISHED" => Publishable
            /\ status' = to
            /\ retired' = (retired \/ to = "ARCHIVED")
            /\ Over(e, IF to = "ARCHIVED"
                       THEN {f \in Edits : edits[f].kind = "transition" /\ edits[f].to = "PUBLISHED"}
                       ELSE {})
            /\ UNCHANGED <<variants, default, members, primary>>
         \/ to = "PUBLISHED" /\ ~Publishable /\ RolledBack(e)

-----------------------------------------------------------------------------
AssignCategory(c, isPrimary) ==
  /\ members' = members \cup {c}
  /\ primary' = IF isPrimary THEN c ELSE primary
  /\ UNCHANGED <<status, variants, default, edits, overtaken, retired>>

CheckUnassign(e, c) ==
  /\ primary # c
  /\ c \in members
  /\ Check(e, "unassign", c, "none")

\* honey_catalog_validate_membership_delete
RemovalAccepted(c)  == c \in members /\ primary # c

UnassignCategory(e) ==
  LET c == edits[e].id
  IN  /\ edits[e].kind = "unassign"
      /\ \/ /\ RemovalAccepted(c)
            /\ members' = members \ {c}
            /\ Over(e, {})
            /\ UNCHANGED <<status, variants, default, primary, retired>>
         \/ ~RemovalAccepted(c) /\ RolledBack(e)

-----------------------------------------------------------------------------
ProductsNext ==
  \/ \E v \in Variants : CreateVariant(v)
  \/ \E c \in Categories, isPrimary \in BOOLEAN : AssignCategory(c, isPrimary)
  \/ \E e \in Edits :
       \/ \E v \in Variants, to \in {"PUBLISHED", "ARCHIVED"} : CheckVariantStatus(e, v, to)
       \/ \E v \in Variants : CheckDefault(e, v)
       \/ \E to \in {"PUBLISHED", "ARCHIVED"} : CheckTransition(e, to)
       \/ \E c \in Categories : CheckUnassign(e, c)
       \/ UpdateVariantStatus(e) \/ SetDefaultVariant(e)
       \/ TransitionProduct(e) \/ UnassignCategory(e)

ProductsSpec == ProductsInit /\ [][ProductsNext]_productVars

-----------------------------------------------------------------------------
ProductsTypeOK ==
  /\ status \in {"DRAFT", "PUBLISHED", "ARCHIVED"}
  /\ variants \in [Variants -> [status : {"absent", "DRAFT", "PUBLISHED", "ARCHIVED"},
                                isDefault : BOOLEAN]]
  /\ default \in Variants \cup {None} /\ primary \in Categories \cup {None}
  /\ members \subseteq Categories
  /\ overtaken \subseteq {"variant", "transition"} /\ retired \in BOOLEAN

(* Edits that overlap leave one default variant, the one the product names,*)
(* and the primary category among the categories.  The default variant is  *)
(* archived only where it was made the default between the check and the   *)
(* write of the archiving, and an archived product comes back only where   *)
(* it was archived between the check and the write of another transition.  *)
ProductsStayWhole ==
  /\ {v \in Variants : variants[v].isDefault} = {default} \ {None}
  /\ primary # None => primary \in members
  /\ default # None /\ variants[default].status = "ARCHIVED" => "variant" \in overtaken
  /\ retired /\ status # "ARCHIVED" => "transition" \in overtaken
=============================================================================
