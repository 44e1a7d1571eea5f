-------------------------- MODULE BackOfficeProofs --------------------------
(***************************************************************************)
(* What the staff do in the back office, for every number of uploads,      *)
(* calls, objects and failures, and of variants, categories and edits.  An *)
(* asset that can be found has its objects, unless the answer to its       *)
(* insert was lost, and an upload is completed only when its asset was     *)
(* created.  Edits of a product that overlap leave it whole, except for    *)
(* what an edit wrote after another made its check untrue.  The units of   *)
(* an order are sent once, and those of a purchase received once.          *)
(***************************************************************************)
EXTENDS Media, Products, Reviews, Procurement, Sequences, SumTheorems

(***************************************************************************)
(* Media.                                                                  *)
(***************************************************************************)
Phases == {"idle", "inspect", "store", "audit", "mark", "clean", "undo", "fail"}
MediaTypes ==
  /\ intents \in [Uploads -> {"absent", "PENDING", "PROCESSING", "COMPLETED", "expired"}]
  /\ stored \in [Uploads -> SUBSET Objects]
  /\ assets \in [Uploads -> {"absent", "present", "deleted"}]
  /\ calls \in [Calls -> [at : Phases, upload : Uploads \cup {"none"}, left : SUBSET Objects]]
  /\ \A c \in Calls : calls[c].at # "idle" => calls[c].upload \in Uploads

Claimed(u) == intents[u] \in {"PROCESSING", "COMPLETED", "expired"}

\* The call that claimed the intent, until the row is there or given up.
Builds(c) == calls[c].at \in {"inspect", "store", "undo"}

\* An upload is built by one call, the one that claimed its intent.
OneBuilder ==
  /\ \A c \in Calls : Builds(c) => Claimed(Of(c))
  /\ \A c, d \in Calls : Builds(c) /\ Builds(d) /\ Of(c) = Of(d) => c = d

\* Before the claim there is no row; the builder makes it at the end.
RowsComeLast ==
  /\ \A u \in Uploads : assets[u] # "absent" => Claimed(u)
  /\ \A c \in Calls : calls[c].at \in {"inspect", "store"} => assets[Of(c)] = "absent"
  /\ \A c \in Calls : calls[c].at \in {"audit", "mark", "clean"} => assets[Of(c)] # "absent"

\* What is taken back has no row, or one nobody knows of.
TakenBackUnseen ==
  \A c \in Calls : calls[c].at = "undo" => assets[Of(c)] = "absent" \/ Of(c) \in unsure

\* What is not left to store is stored.
NothingMissing ==
  \A c \in Calls : calls[c].at = "store" => Objects \subseteq stored[Of(c)] \cup calls[c].left

\* A call that has just claimed has everything left to store.
AllLeft == \A c \in Calls : calls[c].at = "inspect" => calls[c].left = Objects

MediaInv ==
  /\ MediaTypes /\ OneBuilder /\ RowsComeLast /\ TakenBackUnseen /\ NothingMissing /\ AllLeft
  /\ AssetHasItsObjects

LEMMA InitMediaInv == MediaInit => MediaInv
  BY DEF MediaInit, MediaInv, MediaTypes, Phases, OneBuilder, Builds, RowsComeLast, TakenBackUnseen,
         NothingMissing, AllLeft, AssetHasItsObjects, NoCall

-----------------------------------------------------------------------------
\* What the invariant says of the other calls does not change when one call moves on.
LEMMA CallMoves ==
  ASSUME MediaInv, NEW c \in Calls, NEW at \in Phases,
         calls' = [calls EXCEPT ![c].at = at] \/ (at = "idle" /\ calls' = [calls EXCEPT ![c] = NoCall])
  PROVE  /\ calls' \in [Calls -> [at : Phases, upload : Uploads \cup {"none"}, left : SUBSET Objects]]
         /\ calls'[c].at = at
         /\ at # "idle" => calls'[c].upload = calls[c].upload /\ calls'[c].left = calls[c].left
         /\ \A d \in Calls \ {c} : calls'[d] = calls[d]
<1>1. calls \in [Calls -> [at : Phases, upload : Uploads \cup {"none"}, left : SUBSET Objects]]
  BY DEF MediaInv, MediaTypes
<1>2. NoCall \in [at : Phases, upload : Uploads \cup {"none"}, left : SUBSET Objects] /\ NoCall.at = "idle"
  BY DEF NoCall, Phases
<1> QED
  BY <1>1, <1>2

\* The way of a call that writes nothing, or marks the intent as completed.
Way(from, to) ==
  \/ to \in {"idle", "fail"}
  \/ from = "inspect" /\ to = "store"
  \/ from = "store" /\ to = "undo"
  \/ from = "audit" /\ to = "mark"
  \/ from = "mark" /\ to = "clean"

LEMMA WayKeeps ==
  ASSUME MediaInv, NEW c \in Calls, NEW at \in Phases, calls[c].at # "idle", Way(calls[c].at, at),
         calls' = [calls EXCEPT ![c].at = at] \/ (at = "idle" /\ calls' = [calls EXCEPT ![c] = NoCall]),
         UNCHANGED <<stored, assets, unsure>>,
         \/ intents' = intents
         \/ calls[c].at = "mark" /\ intents' = [intents EXCEPT ![Of(c)] = "COMPLETED"]
  PROVE  MediaInv'
<1> DEFINE u == calls[c].upload
<1>1. /\ calls' \in [Calls -> [at : Phases, upload : Uploads \cup {"none"}, left : SUBSET Objects]]
      /\ calls'[c].at = at
      /\ at # "idle" => calls'[c].upload = u /\ calls'[c].left = calls[c].left
      /\ \A d \in Calls \ {c} : calls'[d] = calls[d]
  BY CallMoves
<1>2. u \in Uploads /\ MediaTypes
  BY DEF MediaInv, MediaTypes
<1>3. /\ intents' \in [Uploads -> {"absent", "PENDING", "PROCESSING", "COMPLETED", "expired"}]
      /\ \A w \in Uploads : Claimed(w) => Claimed(w)'
      /\ \A w \in Uploads : intents'[w] = "COMPLETED" => assets[w] # "absent"
  <2>1. calls[c].at = "mark" => assets[u] # "absent" /\ Of(c) = u
    BY DEF MediaInv, RowsComeLast, Of
  <2>2. \A w \in Uploads : intents[w] = "COMPLETED" => assets[w] # "absent"
    BY DEF MediaInv, AssetHasItsObjects
  <2>3. intents \in [Uploads -> {"absent", "PENDING", "PROCESSING", "COMPLETED", "expired"}]
    BY <1>2 DEF MediaTypes
  <2> HIDE DEF u
  <2>4. CASE intents' = intents
    BY <2>2, <2>3, <2>4 DEF Claimed
  <2>5. CASE calls[c].at = "mark" /\ intents' = [intents EXCEPT ![Of(c)] = "COMPLETED"]
    BY <1>2, <2>1, <2>2, <2>3, <2>5 DEF Claimed
  <2> QED
    BY <2>4, <2>5
<1> HIDE DEF u
<1>4. MediaTypes'
  BY <1>1, <1>2, <1>3 DEF MediaTypes
<1>5. \A d \in Calls : /\ Builds(d)' => Builds(d) /\ Of(d)' = Of(d)
                       /\ calls'[d].at # "idle" => Of(d)' = Of(d) /\ Of(d) \in Uploads
  BY <1>1, <1>2 DEF Builds, Of, u, Way, MediaTypes
<1>6. OneBuilder'
  <2>1. ASSUME NEW d \in Calls, Builds(d)'
        PROVE  Claimed(Of(d))'
    <3>1. Builds(d) /\ Of(d)' = Of(d) /\ Of(d) \in Uploads
      BY <1>5, <2>1 DEF Builds
    <3>2. Claimed(Of(d))
      BY <3>1 DEF MediaInv, OneBuilder
    <3> QED
      BY <1>3, <3>1, <3>2 DEF Claimed
  <2>2. ASSUME NEW d \in Calls, NEW e \in Calls, Builds(d)', Builds(e)', Of(d)' = Of(e)'
        PROVE  d = e
    BY <1>5, <2>2 DEF MediaInv, OneBuilder
  <2> QED
    BY <2>1, <2>2 DEF OneBuilder
<1>7. RowsComeLast'
  BY <1>1, <1>3, <1>5 DEF MediaInv, RowsComeLast, Way
<1>8. TakenBackUnseen'
  BY <1>1, <1>5 DEF MediaInv, TakenBackUnseen, RowsComeLast, Way
<1>9. NothingMissing' /\ AllLeft'
  BY <1>1, <1>5 DEF MediaInv, NothingMissing, AllLeft, Way, Of
<1>10. AssetHasItsObjects'
  BY <1>3 DEF MediaInv, AssetHasItsObjects
<1> QED
  BY <1>4, <1>6, <1>7, <1>8, <1>9, <1>10 DEF MediaInv

LEMMA WaysKeep ==
  ASSUME MediaInv, NEW c \in Calls,
         \/ InspectMissing(c) \/ InspectInvalid(c) \/ InspectValid(c) \/ Audit(c)
         \/ MarkCompleted(c) \/ DeleteQuarantine(c) \/ StepFails(c) \/ Fails(c) \/ ProcessDies(c)
  PROVE  MediaInv'
<1>1. UNCHANGED <<stored, assets, unsure>>
  BY DEF InspectMissing, InspectInvalid, InspectValid, Audit, MarkCompleted, DeleteQuarantine,
         StepFails, Fails, ProcessDies
<1>2. calls[c].at # "idle"
  BY DEF InspectMissing, InspectInvalid, InspectValid, Audit, MarkCompleted, DeleteQuarantine,
         StepFails, Fails, ProcessDies, Here
<1>3. \/ intents' = intents
      \/ calls[c].at = "mark" /\ intents' = [intents EXCEPT ![Of(c)] = "COMPLETED"]
  BY DEF InspectMissing, InspectInvalid, InspectValid, Audit, MarkCompleted, DeleteQuarantine,
         StepFails, Fails, ProcessDies, Here
<1>4. \E at \in Phases :
        /\ Way(calls[c].at, at)
        /\ \/ calls' = [calls EXCEPT ![c].at = at]
           \/ at = "idle" /\ calls' = [calls EXCEPT ![c] = NoCall]
  <2>1. CASE InspectMissing(c) \/ InspectInvalid(c) \/ DeleteQuarantine(c) \/ Fails(c) \/ ProcessDies(c)
    <3>1. calls' = [calls EXCEPT ![c] = NoCall] /\ "idle" \in Phases /\ Way(calls[c].at, "idle")
      BY <2>1 DEF InspectMissing, InspectInvalid, DeleteQuarantine, Fails, ProcessDies, Ends, Phases, Way
    <3> QED
      BY <3>1
  <2>2. CASE InspectValid(c)
    BY <2>2 DEF InspectValid, Here, Goes, Phases, Way
  <2>3. CASE Audit(c)
    BY <2>3 DEF Audit, Here, Goes, Phases, Way
  <2>4. CASE MarkCompleted(c)
    BY <2>4 DEF MarkCompleted, Here, Goes, Phases, Way
  <2>5. CASE StepFails(c)
    BY <2>5 DEF StepFails, TakenBack, Goes, Phases, Way
  <2> QED
    BY <2>1, <2>2, <2>3, <2>4, <2>5
<1> QED
  BY <1>1, <1>2, <1>3, <1>4, WayKeeps

-----------------------------------------------------------------------------
\* Intents that are created or expire.
LEMMA IntentsKeep ==
  ASSUME MediaInv, NEW u \in Uploads, CreateIntent(u) \/ IntentExpires(u)
  PROVE  MediaInv'
<1>1. UNCHANGED <<stored, assets, unsure, calls>>
  BY DEF CreateIntent, IntentExpires
<1>2. /\ intents' \in [Uploads -> {"absent", "PENDING", "PROCESSING", "COMPLETED", "expired"}]
      /\ \A w \in Uploads : Claimed(w) => Claimed(w)'
      /\ \A w \in Uploads : intents'[w] = "COMPLETED" => intents[w] = "COMPLETED"
  BY DEF CreateIntent, IntentExpires, MediaInv, MediaTypes, Claimed
<1>3. MediaTypes'
  BY <1>1, <1>2 DEF MediaInv, MediaTypes
<1>4. OneBuilder' /\ RowsComeLast'
  <2>1. \A c \in Calls : Builds(c) => Of(c) \in Uploads
    BY DEF MediaInv, MediaTypes, Builds, Of
  <2> QED
    BY <1>1, <1>2, <2>1 DEF MediaInv, OneBuilder, RowsComeLast, Builds, Of
<1>5. TakenBackUnseen' /\ NothingMissing' /\ AllLeft'
  BY <1>1 DEF MediaInv, TakenBackUnseen, NothingMissing, AllLeft, Of
<1>6. AssetHasItsObjects'
  BY <1>1, <1>2 DEF MediaInv, AssetHasItsObjects
<1> QED
  BY <1>3, <1>4, <1>5, <1>6 DEF MediaInv

\* Nothing the invariant speaks of.
LEMMA OthersKeep ==
  ASSUME MediaInv, UNCHANGED <<intents, stored, assets, unsure, calls>>
  PROVE  MediaInv'
  BY DEF MediaInv, MediaTypes, OneBuilder, Builds, Of, Claimed, RowsComeLast, TakenBackUnseen,
         NothingMissing, AllLeft, AssetHasItsObjects

\* The claim makes the one builder; a call that finds the row goes on behind it.
LEMMA BeginKeeps ==
  ASSUME MediaInv, NEW c \in Calls, NEW u \in Uploads, BeginCompletion(c, u)
  PROVE  MediaInv'
<1>1. UNCHANGED <<stored, assets, unsure>> /\ calls[c].at = "idle"
  BY DEF BeginCompletion, Here
<1>2. MediaTypes
  BY DEF MediaInv
<1>3. CASE Claimable(u)
  <2>1. /\ intents[u] = "PENDING" /\ intents' = [intents EXCEPT ![u] = "PROCESSING"]
        /\ calls' = [calls EXCEPT ![c] = [at |-> "inspect", upload |-> u, left |-> Objects]]
    BY <1>3 DEF BeginCompletion, Claimable
  <2>2. /\ MediaTypes' /\ calls'[c] = [at |-> "inspect", upload |-> u, left |-> Objects]
        /\ \A d \in Calls \ {c} : calls'[d] = calls[d]
        /\ intents'[u] = "PROCESSING" /\ \A w \in Uploads \ {u} : intents'[w] = intents[w]
    BY <1>1, <1>2, <2>1 DEF MediaTypes, Phases
  <2>3. assets[u] = "absent" /\ \A d \in Calls : Builds(d) => Of(d) # u /\ Of(d) \in Uploads
    BY <1>2, <2>1 DEF MediaInv, RowsComeLast, OneBuilder, Claimed, MediaTypes, Builds, Of
  <2>4. OneBuilder'
    BY <2>2, <2>3 DEF MediaInv, OneBuilder, Builds, Of, Claimed
  <2>5. RowsComeLast'
    BY <1>1, <2>2, <2>3 DEF MediaInv, RowsComeLast, Of, Claimed
  <2>6. TakenBackUnseen' /\ NothingMissing' /\ AllLeft'
    BY <1>1, <2>2 DEF MediaInv, TakenBackUnseen, NothingMissing, AllLeft, Of
  <2>7. AssetHasItsObjects'
    BY <1>1, <2>2 DEF MediaInv, AssetHasItsObjects
  <2> QED
    BY <2>2, <2>4, <2>5, <2>6, <2>7 DEF MediaInv
<1>4. CASE ~Claimable(u)
  <2>1. /\ assets[u] = "present" /\ intents' = intents
        /\ calls' = [calls EXCEPT ![c] = [at |-> "audit", upload |-> u, left |-> {}]]
    BY <1>4 DEF BeginCompletion
  <2>2. /\ MediaTypes' /\ calls'[c] = [at |-> "audit", upload |-> u, left |-> {}]
        /\ \A d \in Calls \ {c} : calls'[d] = calls[d]
    BY <1>1, <1>2, <2>1 DEF MediaTypes, Phases
  <2>3. OneBuilder'
    BY <2>1, <2>2 DEF MediaInv, OneBuilder, Builds, Of, Claimed
  <2>4. RowsComeLast'
    BY <1>1, <2>1, <2>2 DEF MediaInv, RowsComeLast, Of, Claimed
  <2>5. TakenBackUnseen' /\ NothingMissing' /\ AllLeft'
    BY <1>1, <2>2 DEF MediaInv, TakenBackUnseen, NothingMissing, AllLeft, Of
  <2>6. AssetHasItsObjects'
    BY <1>1, <2>1 DEF MediaInv, AssetHasItsObjects
  <2> QED
    BY <2>2, <2>3, <2>4, <2>5, <2>6 DEF MediaInv
<1> QED
  BY <1>3, <1>4

\* The builder stores an object.
LEMMA PutKeeps ==
  ASSUME MediaInv, NEW c \in Calls, NEW x \in Objects, PutTrusted(c, x)
  PROVE  MediaInv'
<1> DEFINE u == calls[c].upload
<1>1. /\ UNCHANGED <<intents, assets, unsure>> /\ calls[c].at = "store"
      /\ stored' = [stored EXCEPT ![u] = stored[u] \cup {x}]
      /\ calls' = [calls EXCEPT ![c].left = calls[c].left \ {x}]
  BY DEF PutTrusted, Here, Of
<1>2. MediaTypes /\ u \in Uploads
  BY <1>1 DEF MediaInv, MediaTypes
<1>3. /\ calls' \in [Calls -> [at : Phases, upload : Uploads \cup {"none"}, left : SUBSET Objects]]
      /\ calls'[c].at = "store" /\ calls'[c].upload = u /\ calls'[c].left = calls[c].left \ {x}
      /\ \A d \in Calls \ {c} : calls'[d] = calls[d]
      /\ stored' \in [Uploads -> SUBSET Objects] /\ stored'[u] = stored[u] \cup {x}
      /\ \A w \in Uploads \ {u} : stored'[w] = stored[w]
  BY <1>1, <1>2 DEF MediaTypes
<1>4. MediaTypes'
  BY <1>1, <1>2, <1>3 DEF MediaTypes
<1>5. assets[u] = "absent"
  BY <1>1 DEF MediaInv, RowsComeLast, Of
<1>6. OneBuilder' /\ RowsComeLast' /\ TakenBackUnseen' /\ AllLeft'
  BY <1>1, <1>3 DEF MediaInv, OneBuilder, RowsComeLast, TakenBackUnseen, AllLeft, Builds, Of, Claimed
<1>7. NothingMissing'
  <2>1. ASSUME NEW d \in Calls \ {c}, calls'[d].at = "store"
        PROVE  Objects \subseteq stored'[calls'[d].upload] \cup calls'[d].left
    <3>1. calls'[d] = calls[d] /\ calls[d].upload \in Uploads
      BY <1>2, <1>3, <2>1 DEF MediaTypes
    <3>2. Objects \subseteq stored[calls[d].upload] \cup calls[d].left
      BY <2>1, <3>1 DEF MediaInv, NothingMissing, Of
    <3> QED
      BY <1>3, <3>1, <3>2
  <2>2. Objects \subseteq stored'[calls'[c].upload] \cup calls'[c].left
    BY <1>1, <1>3 DEF MediaInv, NothingMissing, Of
  <2> QED
    BY <2>1, <2>2 DEF NothingMissing, Of
<1>8. AssetHasItsObjects'
  BY <1>1, <1>3, <1>5 DEF MediaInv, AssetHasItsObjects
<1> QED
  BY <1>4, <1>6, <1>7, <1>8 DEF MediaInv

\* The row is created, and its answer arrives or not.
LEMMA CreateKeeps ==
  ASSUME MediaInv, NEW c \in Calls, CreateAsset(c) \/ CreateAssetAnswerLost(c)
  PROVE  MediaInv'
<1> DEFINE u == calls[c].upload
<1>1. /\ UNCHANGED <<intents, stored>> /\ calls[c].at = "store" /\ calls[c].left = {}
      /\ assets' = [assets EXCEPT ![u] = "present"]
  BY DEF CreateAsset, CreateAssetAnswerLost, Here, Of
<1>2. PICK at \in {"audit", "undo"} :
        /\ calls' = [calls EXCEPT ![c].at = at]
        /\ at = "audit" => unsure' = unsure
        /\ at = "undo" => unsure' = unsure \cup {u}
  BY DEF CreateAsset, CreateAssetAnswerLost, Goes, Of
<1>3. MediaTypes /\ u \in Uploads
  BY <1>1 DEF MediaInv, MediaTypes
<1>4. /\ calls' \in [Calls -> [at : Phases, upload : Uploads \cup {"none"}, left : SUBSET Objects]]
      /\ calls'[c].at = at /\ calls'[c].upload = u
      /\ \A d \in Calls \ {c} : calls'[d] = calls[d]
      /\ assets' \in [Uploads -> {"absent", "present", "deleted"}] /\ assets'[u] = "present"
      /\ \A w \in Uploads \ {u} : assets'[w] = assets[w]
  BY <1>1, <1>2, <1>3 DEF MediaTypes, Phases
<1>5. MediaTypes'
  BY <1>1, <1>3, <1>4 DEF MediaTypes
<1>6. stored[u] = Objects /\ Claimed(u)
  BY <1>1, <1>3 DEF MediaInv, MediaTypes, NothingMissing, OneBuilder, Builds, Of
<1>7. \A d \in Calls \ {c} : Builds(d) => Of(d) # u
  BY <1>1 DEF MediaInv, OneBuilder, Builds, Of
<1>8. OneBuilder'
  BY <1>1, <1>4, <1>6 DEF MediaInv, OneBuilder, Builds, Of, Claimed
<1>9. RowsComeLast'
  BY <1>1, <1>3, <1>4, <1>6, <1>7 DEF MediaInv, RowsComeLast, Builds, Of, Claimed, MediaTypes
<1>10. TakenBackUnseen' /\ NothingMissing' /\ AllLeft'
  BY <1>1, <1>2, <1>4, <1>7 DEF MediaInv, TakenBackUnseen, NothingMissing, AllLeft, Builds, Of
<1>11. AssetHasItsObjects'
  BY <1>1, <1>2, <1>4, <1>6 DEF MediaInv, AssetHasItsObjects
<1> QED
  BY <1>5, <1>8, <1>9, <1>10, <1>11 DEF MediaInv

\* What is taken back belonged to no row that is known.
LEMMA TakeBackKeeps ==
  ASSUME MediaInv, NEW c \in Calls, TakeBack(c)
  PROVE  MediaInv'
<1> DEFINE u == calls[c].upload
<1>1. /\ UNCHANGED <<intents, assets, unsure>> /\ calls[c].at = "undo"
      /\ stored' = [stored EXCEPT ![u] = stored[u] \cap calls[c].left]
      /\ calls' = [calls EXCEPT ![c] = NoCall]
  BY DEF TakeBack, Here, Of, Ends
<1>2. MediaTypes /\ u \in Uploads
  BY <1>1 DEF MediaInv, MediaTypes
<1>3. /\ calls' \in [Calls -> [at : Phases, upload : Uploads \cup {"none"}, left : SUBSET Objects]]
      /\ calls'[c].at = "idle" /\ \A d \in Calls \ {c} : calls'[d] = calls[d]
  BY CallMoves, <1>1 DEF Phases
<1>4. /\ stored' \in [Uploads -> SUBSET Objects]
      /\ \A w \in Uploads \ {u} : stored'[w] = stored[w]
  BY <1>1, <1>2 DEF MediaTypes
<1>5. MediaTypes'
  BY <1>1, <1>2, <1>3, <1>4 DEF MediaTypes
<1>6. \A d \in Calls \ {c} : Builds(d) => Of(d) # u /\ Of(d) \in Uploads
  BY <1>1, <1>2 DEF MediaInv, OneBuilder, Builds, Of, MediaTypes
<1>7. OneBuilder' /\ RowsComeLast' /\ TakenBackUnseen' /\ AllLeft'
  BY <1>1, <1>3 DEF MediaInv, OneBuilder, RowsComeLast, TakenBackUnseen, AllLeft, Builds, Of, Claimed
<1>8. NothingMissing'
  BY <1>3, <1>4, <1>6 DEF MediaInv, NothingMissing, Builds, Of
<1>9. AssetHasItsObjects'
  <2>1. assets[u] = "absent" \/ u \in unsure
    BY <1>1 DEF MediaInv, TakenBackUnseen, Of
  <2> QED
    BY <1>1, <1>4, <2>1 DEF MediaInv, AssetHasItsObjects
<1> QED
  BY <1>5, <1>7, <1>8, <1>9 DEF MediaInv

\* A row is deleted with its objects.
LEMMA DeleteKeeps ==
  ASSUME MediaInv, NEW u \in Uploads, NEW kept \in SUBSET Objects, DeleteAsset(u, kept)
  PROVE  MediaInv'
<1>1. /\ UNCHANGED <<intents, unsure, calls>> /\ assets[u] = "present"
      /\ assets' = [assets EXCEPT ![u] = "deleted"] /\ stored' = [stored EXCEPT ![u] = kept]
  BY DEF DeleteAsset
<1>2. MediaTypes
  BY DEF MediaInv
<1>3. /\ MediaTypes' /\ assets'[u] = "deleted"
      /\ \A w \in Uploads \ {u} : assets'[w] = assets[w] /\ stored'[w] = stored[w]
  BY <1>1, <1>2 DEF MediaTypes
<1>4. \A d \in Calls : calls[d].at # "idle" => Of(d) \in Uploads
  BY <1>2 DEF MediaTypes, Of
<1>5. OneBuilder' /\ AllLeft'
  BY <1>1 DEF MediaInv, OneBuilder, AllLeft, Builds, Of, Claimed
<1>6. RowsComeLast'
  BY <1>1, <1>3, <1>4 DEF MediaInv, RowsComeLast, Of, Claimed
<1>7. TakenBackUnseen'
  BY <1>1, <1>3, <1>4 DEF MediaInv, TakenBackUnseen, Of
<1>8. NothingMissing'
  <2>1. \A d \in Calls : calls[d].at = "store" => Of(d) # u
    BY <1>1 DEF MediaInv, RowsComeLast
  <2> QED
    BY <1>1, <1>3, <1>4, <2>1 DEF MediaInv, NothingMissing, Of
<1>9. AssetHasItsObjects'
  BY <1>1, <1>3 DEF MediaInv, AssetHasItsObjects
<1> QED
  BY <1>3, <1>5, <1>6, <1>7, <1>8, <1>9 DEF MediaInv

-----------------------------------------------------------------------------
LEMMA NextMediaInv ==
  ASSUME MediaInv, [MediaNext]_mediaVars
  PROVE  MediaInv'
<1>1. ASSUME NEW c \in Calls, Step(c)
      PROVE  MediaInv'
  BY <1>1, WaysKeep, PutKeeps, CreateKeeps, TakeBackKeeps DEF Step
<1>2. ASSUME NEW u \in Uploads, NEW content \in {"valid", "invalid"}, PutObject(u, content)
      PROVE  MediaInv'
  BY <1>2, OthersKeep DEF PutObject
<1>3. CASE UNCHANGED mediaVars
  BY <1>3, OthersKeep DEF mediaVars
<1> QED
  BY <1>1, <1>2, <1>3, IntentsKeep, BeginKeeps, DeleteKeeps DEF MediaNext

\* Intents, calls, objects and rows fit together in every reachable state.
THEOREM MediaInvariant == MediaSpec => []MediaInv
BY InitMediaInv, NextMediaInv, PTL DEF MediaSpec

\* MediaService.completeUpload and deleteAsset: an asset that can be found has all
\* of its objects, and an upload is only completed when its asset was created.
THEOREM AssetsWhole == MediaSpec => []AssetHasItsObjects
<1>1. MediaInv => AssetHasItsObjects
  BY DEF MediaInv
<1> QED
  BY <1>1, MediaInvariant, PTL

-----------------------------------------------------------------------------
(***************************************************************************)
(* Products.                                                               *)
(***************************************************************************)
\* The name that stands for no variant and no category is neither.
Named == None \notin Variants /\ None \notin Categories

VariantRow == [status : {"absent", "DRAFT", "PUBLISHED", "ARCHIVED"}, isDefault : BOOLEAN]
EditRow ==
  [kind : {"none", "variant", "default", "transition", "unassign"},
   id : Variants \cup Categories \cup {None}, to : {"none", "PUBLISHED", "ARCHIVED"},
   stale : BOOLEAN]

ProductTypes ==
  /\ variants \in [Variants -> VariantRow] /\ edits \in [Edits -> EditRow]
  /\ default \in Variants \cup {None} /\ retired \in BOOLEAN
  /\ \A e \in Edits : edits[e].kind \in {"variant", "default"} => edits[e].id \in Variants
  /\ \A e \in Edits : edits[e].kind \in {"variant", "transition"} => edits[e].to # "none"

\* The product names the default variant, and the variant knows.
DefaultKnown == \A v \in Variants : variants[v].isDefault <=> v = default

\* An archiving whose check still holds is not of the default variant.
ArchivingsHold ==
  \A e \in Edits :
    edits[e].kind = "variant" /\ edits[e].to = "ARCHIVED" /\ ~edits[e].stale => edits[e].id # default

\* A publication whose check still holds is of a product that was never archived,
\* unless it came back the way the property excepts.
PublicationsHold ==
  \A e \in Edits :
    edits[e].kind = "transition" /\ edits[e].to = "PUBLISHED" /\ ~edits[e].stale
      /\ retired => "transition" \in overtaken

PrimaryIsMember   == primary # None => primary \in members
DefaultIsSold     == default # None /\ variants[default].status = "ARCHIVED" => "variant" \in overtaken
ArchivedIsForGood == retired /\ status # "ARCHIVED" => "transition" \in overtaken

ProductInv ==
  /\ ProductTypes /\ DefaultKnown /\ ArchivingsHold /\ PublicationsHold
  /\ PrimaryIsMember /\ DefaultIsSold /\ ArchivedIsForGood

LEMMA InitProductInv ==
  ASSUME Named, ProductsInit
  PROVE  ProductInv
<1>1. NoVariant \in VariantRow /\ NoEdit \in EditRow
  BY DEF NoVariant, NoEdit, VariantRow, EditRow
<1>2. ProductTypes
  BY <1>1 DEF ProductsInit, ProductTypes, NoEdit
<1> QED
  BY <1>2 DEF Named, ProductsInit, ProductInv, NoVariant, NoEdit, DefaultKnown, ArchivingsHold, PublicationsHold,
              PrimaryIsMember, DefaultIsSold, ArchivedIsForGood

-----------------------------------------------------------------------------
\* A check that is true when it is made.
LEMMA CheckKeeps ==
  ASSUME ProductInv, NEW e \in Edits, NEW kind \in {"variant", "default", "transition", "unassign"},
         NEW id \in Variants \cup Categories \cup {None}, NEW to \in {"none", "PUBLISHED", "ARCHIVED"},
         Check(e, kind, id, to),
         kind \in {"variant", "default"} => id \in Variants,
         kind \in {"variant", "transition"} => to # "none",
         kind = "variant" /\ to = "ARCHIVED" => ~variants[id].isDefault,
         kind = "transition" => status # "ARCHIVED"
  PROVE  ProductInv'
<1> DEFINE row == [kind |-> kind, id |-> id, to |-> to, stale |-> FALSE]
<1>1. /\ UNCHANGED <<status, variants, default, members, primary, overtaken, retired>>
      /\ edits' = [edits EXCEPT ![e] = row]
  BY DEF Check
<1>2. ProductTypes /\ row \in EditRow
  BY DEF ProductInv, EditRow
<1>3. edits' \in [Edits -> EditRow] /\ edits'[e] = row /\ \A f \in Edits \ {e} : edits'[f] = edits[f]
  BY <1>1, <1>2 DEF ProductTypes
<1>4. ProductTypes'
  BY <1>1, <1>2, <1>3 DEF ProductTypes
<1>5. ArchivingsHold'
  BY <1>1, <1>3 DEF ProductInv, ArchivingsHold, DefaultKnown
<1>6. PublicationsHold'
  BY <1>1, <1>3 DEF ProductInv, PublicationsHold, ArchivedIsForGood
<1> QED
  BY <1>1, <1>4, <1>5, <1>6 DEF ProductInv, DefaultKnown, PrimaryIsMember, DefaultIsSold, ArchivedIsForGood

\* What an edit that is over leaves of the others.
LEMMA OverLeaves ==
  ASSUME ProductTypes, NEW e \in Edits, NEW S, Over(e, S)
  PROVE  /\ edits' \in [Edits -> EditRow] /\ edits'[e] = NoEdit
         /\ \A f \in Edits \ {e} :
              /\ edits'[f].kind = edits[f].kind /\ edits'[f].id = edits[f].id
              /\ edits'[f].to = edits[f].to
              /\ ~edits'[f].stale => ~edits[f].stale /\ f \notin S
         /\ overtaken \subseteq overtaken'
         /\ edits[e].stale => edits[e].kind \in overtaken'
<1>1. NoEdit \in EditRow
  BY DEF NoEdit, EditRow
<1>2. \A f \in Edits : edits[f] \in EditRow
  BY DEF ProductTypes
<1>3. \A f \in Edits : [edits[f] EXCEPT !.stale = TRUE] \in EditRow
  BY <1>2 DEF EditRow
<1>4. edits' = [f \in Edits |-> IF f = e THEN NoEdit
                                ELSE IF f \in S THEN [edits[f] EXCEPT !.stale = TRUE]
                                ELSE edits[f]]
  BY DEF Over
<1>5. edits' \in [Edits -> EditRow] /\ edits'[e] = NoEdit
  BY <1>1, <1>2, <1>3, <1>4
<1>6. ASSUME NEW f \in Edits \ {e}
      PROVE  /\ edits'[f].kind = edits[f].kind /\ edits'[f].id = edits[f].id
             /\ edits'[f].to = edits[f].to
             /\ ~edits'[f].stale => ~edits[f].stale /\ f \notin S
  <2>1. CASE f \in S
    BY <1>2, <1>4, <2>1 DEF EditRow
  <2>2. CASE f \notin S
    BY <1>4, <2>2
  <2> QED
    BY <2>1, <2>2
<1> QED
  BY <1>5, <1>6 DEF Over

\* The rows of edits, after one of them is over.
LEMMA OverTyped ==
  ASSUME ProductTypes, NEW e \in Edits, NEW S, Over(e, S),
         variants' \in [Variants -> VariantRow], default' \in Variants \cup {None},
         retired' \in BOOLEAN
  PROVE  ProductTypes'
<1>1. \A f \in Edits :
        /\ edits'[f].kind \in {"variant", "default"} => edits'[f].id \in Variants
        /\ edits'[f].kind \in {"variant", "transition"} => edits'[f].to # "none"
  BY OverLeaves DEF ProductTypes, NoEdit
<1> QED
  BY <1>1, OverLeaves DEF ProductTypes

LEMMA RolledBackKeeps ==
  ASSUME ProductInv, NEW e \in Edits, RolledBack(e)
  PROVE  ProductInv'
<1>1. NoEdit \in EditRow
  BY DEF NoEdit, EditRow
<1>2. /\ UNCHANGED <<status, variants, default, members, primary, overtaken, retired>>
      /\ edits' \in [Edits -> EditRow] /\ edits'[e] = NoEdit
      /\ \A f \in Edits \ {e} : edits'[f] = edits[f]
  BY <1>1 DEF RolledBack, ProductInv, ProductTypes
<1>3. ProductTypes' /\ ArchivingsHold' /\ PublicationsHold'
  BY <1>2 DEF ProductInv, ProductTypes, ArchivingsHold, PublicationsHold, NoEdit
<1> QED
  BY <1>2, <1>3 DEF ProductInv, DefaultKnown, PrimaryIsMember, DefaultIsSold, ArchivedIsForGood

-----------------------------------------------------------------------------
\* A new variant, or a new status of one.
LEMMA CreateVariantKeeps ==
  ASSUME Named, ProductInv, NEW v \in Variants, CreateVariant(v)
  PROVE  ProductInv'
<1>1. /\ UNCHANGED <<status, default, members, primary, edits, overtaken, retired>>
      /\ variants' = [variants EXCEPT ![v].status = "DRAFT"]
  BY DEF CreateVariant
<1>2. variants \in [Variants -> VariantRow] /\ default \in Variants \cup {None}
  BY DEF ProductInv, ProductTypes
<1>3. /\ variants' \in [Variants -> VariantRow]
      /\ \A w \in Variants : /\ variants'[w].isDefault = variants[w].isDefault
                             /\ variants'[w].status # "DRAFT" => variants'[w].status = variants[w].status
  BY <1>1, <1>2 DEF VariantRow
<1>4. ProductTypes' /\ DefaultKnown'
  BY <1>1, <1>3 DEF ProductInv, ProductTypes, DefaultKnown
<1>5. DefaultIsSold'
  BY <1>1, <1>2, <1>3 DEF ProductInv, DefaultIsSold
<1> QED
  BY <1>1, <1>4, <1>5 DEF ProductInv, ArchivingsHold, PublicationsHold, PrimaryIsMember, ArchivedIsForGood

LEMMA VariantStatusKeeps ==
  ASSUME ProductInv, NEW e \in Edits, UpdateVariantStatus(e)
  PROVE  ProductInv'
<1> DEFINE v == edits[e].id
           to == edits[e].to
<1>1. /\ UNCHANGED <<status, default, members, primary, retired>> /\ edits[e].kind = "variant"
      /\ variants' = [variants EXCEPT ![v].status = to] /\ Over(e, {})
  BY DEF UpdateVariantStatus
<1>2. /\ variants \in [Variants -> VariantRow] /\ default \in Variants \cup {None} /\ ProductTypes
      /\ v \in Variants /\ to \in {"PUBLISHED", "ARCHIVED"} /\ retired \in BOOLEAN
  BY <1>1 DEF ProductInv, ProductTypes, EditRow
<1> HIDE DEF v, to
<1>3. /\ variants' \in [Variants -> VariantRow] /\ variants'[v].status = to
      /\ \A w \in Variants : variants'[w].isDefault = variants[w].isDefault
      /\ \A w \in Variants \ {v} : variants'[w].status = variants[w].status
  BY <1>1, <1>2 DEF VariantRow
<1>4. ProductTypes'
  BY <1>1, <1>2, <1>3, OverTyped
<1>5. DefaultKnown'
  BY <1>1, <1>3 DEF ProductInv, DefaultKnown
<1>6. ArchivingsHold' /\ PublicationsHold' /\ PrimaryIsMember' /\ ArchivedIsForGood'
  <2>1. ArchivingsHold'
    BY <1>1, <1>2, OverLeaves DEF ProductInv, ArchivingsHold, NoEdit
  <2>2. PublicationsHold'
    BY <1>1, <1>2, OverLeaves DEF ProductInv, PublicationsHold, NoEdit
  <2> QED
    BY <1>1, <1>2, <2>1, <2>2, OverLeaves DEF ProductInv, PrimaryIsMember, ArchivedIsForGood
<1>7. DefaultIsSold'
  <2>1. CASE default = v /\ to = "ARCHIVED"
    <3>1. edits[e].stale
      BY <1>1, <2>1 DEF ProductInv, ArchivingsHold, v, to
    <3> QED
      BY <1>1, <1>2, <3>1, OverLeaves DEF DefaultIsSold
  <2>2. CASE default = v /\ to # "ARCHIVED"
    BY <1>1, <1>3, <2>2 DEF DefaultIsSold
  <2>3. CASE default # v
    BY <1>1, <1>2, <1>3, <2>3, OverLeaves DEF ProductInv, DefaultIsSold
  <2> QED
    BY <2>1, <2>2, <2>3
<1> QED
  BY <1>4, <1>5, <1>6, <1>7 DEF ProductInv

-----------------------------------------------------------------------------
\* Another default variant, a status of the product, other categories.
LEMMA DefaultKeeps ==
  ASSUME Named, ProductInv, NEW e \in Edits, SetDefaultVariant(e)
  PROVE  ProductInv'
<1> DEFINE picked == edits[e].id
           S == {f \in Edits : edits[f].kind = "variant" /\ edits[f].id = picked
                               /\ edits[f].to = "ARCHIVED"}
<1>1. CASE RolledBack(e)
  BY <1>1, RolledBackKeeps
<1>2. CASE ~RolledBack(e)
  <2>1. /\ UNCHANGED <<status, members, primary, retired>> /\ edits[e].kind = "default"
        /\ variants[picked].status # "ARCHIVED" /\ default' = picked /\ Over(e, S)
        /\ variants' = [[v \in Variants |-> [variants[v] EXCEPT !.isDefault = FALSE]]
                          EXCEPT ![picked].isDefault = TRUE]
    BY <1>2 DEF SetDefaultVariant, DefaultAccepted, ClearedDefaults
  <2>2. ProductTypes /\ picked \in Variants /\ retired \in BOOLEAN /\ variants \in [Variants -> VariantRow]
    BY <2>1 DEF ProductInv, ProductTypes
  <2>3. \A f \in Edits : edits[f].kind = "variant" /\ edits[f].to = "ARCHIVED" /\ f \notin S
                         => edits[f].id # picked
    OBVIOUS
  <2> HIDE DEF picked, S
  <2>4. /\ variants' \in [Variants -> VariantRow]
        /\ \A v \in Variants : /\ variants'[v].isDefault <=> v = picked
                               /\ variants'[v].status = variants[v].status
    BY <2>1, <2>2 DEF VariantRow
  <2>5. ProductTypes'
    BY <2>1, <2>2, <2>4, OverTyped
  <2>6. DefaultKnown' /\ DefaultIsSold'
    BY <2>1, <2>2, <2>4 DEF DefaultKnown, DefaultIsSold
  <2>7. ArchivingsHold'
    BY <2>1, <2>2, <2>3, OverLeaves DEF ArchivingsHold, NoEdit
  <2>8. PublicationsHold'
    BY <2>1, <2>2, OverLeaves DEF ProductInv, PublicationsHold, NoEdit
  <2>9. PrimaryIsMember' /\ ArchivedIsForGood'
    BY <2>1, <2>2, OverLeaves DEF ProductInv, PrimaryIsMember, ArchivedIsForGood
  <2> QED
    BY <2>5, <2>6, <2>7, <2>8, <2>9 DEF ProductInv
<1> QED
  BY <1>1, <1>2

LEMMA TransitionKeeps ==
  ASSUME ProductInv, NEW e \in Edits, TransitionProduct(e)
  PROVE  ProductInv'
<1> DEFINE to == edits[e].to
           S == IF to = "ARCHIVED"
                THEN {f \in Edits : edits[f].kind = "transition" /\ edits[f].to = "PUBLISHED"}
                ELSE {}
<1>1. CASE RolledBack(e)
  BY <1>1, RolledBackKeeps
<1>2. CASE ~RolledBack(e)
  <2>1. /\ UNCHANGED <<variants, default, members, primary>> /\ edits[e].kind = "transition"
        /\ status' = to /\ retired' = (retired \/ to = "ARCHIVED") /\ Over(e, S)
    BY <1>2 DEF TransitionProduct
  <2>2. /\ ProductTypes /\ variants \in [Variants -> VariantRow] /\ default \in Variants \cup {None}
        /\ to \in {"PUBLISHED", "ARCHIVED"} /\ retired \in BOOLEAN
    BY <2>1 DEF ProductInv, ProductTypes, EditRow
  <2>3. \A f \in Edits : edits[f].kind = "transition" /\ edits[f].to = "PUBLISHED" /\ f \notin S
                         => to # "ARCHIVED"
    OBVIOUS
  <2>4. ~edits[e].stale /\ to # "ARCHIVED" /\ retired => "transition" \in overtaken
    BY <2>1, <2>2 DEF ProductInv, PublicationsHold
  <2> HIDE DEF to, S
  <2>5. retired' \in BOOLEAN
    BY <2>1, <2>2
  <2>6. /\ to = "ARCHIVED" => retired'
        /\ to # "ARCHIVED" => (retired' <=> retired)
    BY <2>1, <2>2
  <2>7. Over(e, S) /\ status' = to /\ edits[e].kind = "transition"
    BY <2>1
  <2>8. ProductTypes'
    BY <2>1, <2>2, <2>5, OverTyped
  <2>9. ArchivingsHold'
    BY <2>1, <2>2, OverLeaves DEF ProductInv, ArchivingsHold, NoEdit
  <2>10. PublicationsHold'
    <3>1. CASE to = "ARCHIVED"
      <4>1. ASSUME NEW f \in Edits,
                   edits'[f].kind = "transition", edits'[f].to = "PUBLISHED", ~edits'[f].stale
            PROVE  FALSE
        <5>1. f # e
          BY <2>2, <2>7, <4>1, OverLeaves DEF NoEdit
        <5>2. edits[f].kind = "transition" /\ edits[f].to = "PUBLISHED" /\ f \notin S
          BY <2>2, <2>7, <4>1, <5>1, OverLeaves
        <5> QED
          BY <2>3, <3>1, <5>2
      <4> QED
        BY <4>1 DEF PublicationsHold
    <3>2. CASE to # "ARCHIVED"
      <4>1. SUFFICES ASSUME NEW f \in Edits, retired',
                            edits'[f].kind = "transition", edits'[f].to = "PUBLISHED", ~edits'[f].stale
                     PROVE  "transition" \in overtaken'
        BY DEF PublicationsHold
      <4>2. f # e /\ overtaken \subseteq overtaken'
        BY <2>2, <2>7, <4>1, OverLeaves DEF NoEdit
      <4>3. retired
        BY <2>6, <3>2, <4>1, Zenon
      <4>4. edits[f].kind = "transition" /\ edits[f].to = "PUBLISHED" /\ ~edits[f].stale
        BY <2>2, <2>7, <4>1, <4>2, OverLeaves
      <4>5. PublicationsHold
        BY DEF ProductInv
      <4>6. "transition" \in overtaken
        BY <4>3, <4>4, <4>5 DEF PublicationsHold
      <4> QED
        BY <4>2, <4>6
    <3> QED
      BY <3>1, <3>2
  <2>11. ArchivedIsForGood'
    <3>1. CASE to = "ARCHIVED"
      BY <2>7, <3>1 DEF ArchivedIsForGood
    <3>2. CASE to # "ARCHIVED" /\ edits[e].stale
      BY <2>2, <2>7, <3>2, OverLeaves DEF ArchivedIsForGood
    <3>3. CASE to # "ARCHIVED" /\ ~edits[e].stale
      <4>1. overtaken \subseteq overtaken'
        BY <2>2, <2>7, OverLeaves
      <4>2. retired' => retired
        BY <2>6, <3>3, Zenon
      <4> QED
        BY <2>4, <3>3, <4>1, <4>2, Zenon DEF ArchivedIsForGood
    <3> QED
      BY <3>1, <3>2, <3>3
  <2>12. DefaultKnown' /\ PrimaryIsMember' /\ DefaultIsSold'
    BY <2>1, <2>2, OverLeaves DEF ProductInv, DefaultKnown, PrimaryIsMember, DefaultIsSold
  <2> QED
    BY <2>8, <2>9, <2>10, <2>11, <2>12 DEF ProductInv
<1> QED
  BY <1>1, <1>2

LEMMA AssignKeeps ==
  ASSUME ProductInv, NEW c \in Categories, NEW isPrimary \in BOOLEAN, AssignCategory(c, isPrimary)
  PROVE  ProductInv'
BY DEF AssignCategory, ProductInv, ProductTypes, DefaultKnown, ArchivingsHold, PublicationsHold, PrimaryIsMember,
       DefaultIsSold, ArchivedIsForGood

LEMMA UnassignKeeps ==
  ASSUME ProductInv, NEW e \in Edits, UnassignCategory(e)
  PROVE  ProductInv'
<1> DEFINE c == edits[e].id
<1>1. CASE RolledBack(e)
  BY <1>1, RolledBackKeeps
<1>2. CASE ~RolledBack(e)
  <2>1. /\ UNCHANGED <<status, variants, default, primary, retired>> /\ Over(e, {})
        /\ primary # c /\ members' = members \ {c}
    BY <1>2 DEF UnassignCategory, RemovalAccepted
  <2>2. /\ ProductTypes /\ retired \in BOOLEAN /\ variants \in [Variants -> VariantRow]
        /\ default \in Variants \cup {None}
    BY DEF ProductInv, ProductTypes
  <2> HIDE DEF c
  <2>3. ProductTypes'
    BY <2>1, <2>2, OverTyped
  <2>4. ArchivingsHold'
    BY <2>1, <2>2, OverLeaves DEF ProductInv, ArchivingsHold, NoEdit
  <2>5. PublicationsHold'
    BY <2>1, <2>2, OverLeaves DEF ProductInv, PublicationsHold, NoEdit
  <2>6. DefaultKnown' /\ PrimaryIsMember'
    BY <2>1 DEF ProductInv, DefaultKnown, PrimaryIsMember
  <2>7. DefaultIsSold' /\ ArchivedIsForGood'
    BY <2>1, <2>2, OverLeaves DEF ProductInv, DefaultIsSold, ArchivedIsForGood
  <2> QED
    BY <2>3, <2>4, <2>5, <2>6, <2>7 DEF ProductInv
<1> QED
  BY <1>1, <1>2

-----------------------------------------------------------------------------
LEMMA NextProductInv ==
  ASSUME Named, ProductInv, [ProductsNext]_productVars
  PROVE  ProductInv'
<1>1. CASE UNCHANGED productVars
  BY <1>1 DEF productVars, ProductInv, ProductTypes, DefaultKnown, ArchivingsHold, PublicationsHold, PrimaryIsMember,
              DefaultIsSold, ArchivedIsForGood
<1>2. ASSUME NEW v \in Variants, CreateVariant(v) PROVE ProductInv'
  BY <1>2, CreateVariantKeeps
<1>3. ASSUME NEW c \in Categories, NEW isPrimary \in BOOLEAN, AssignCategory(c, isPrimary)
      PROVE  ProductInv'
  BY <1>3, AssignKeeps
<1>4. ASSUME NEW e \in Edits, NEW v \in Variants, NEW to \in {"PUBLISHED", "ARCHIVED"},
             CheckVariantStatus(e, v, to)
      PROVE  ProductInv'
  <2>1. Check(e, "variant", v, to) /\ (to = "ARCHIVED" => ~variants[v].isDefault)
    BY <1>4 DEF CheckVariantStatus
  <2> QED
    BY <2>1, CheckKeeps
<1>5. ASSUME NEW e \in Edits, NEW v \in Variants, CheckDefault(e, v) PROVE ProductInv'
  <2>1. Check(e, "default", v, "none")
    BY <1>5 DEF CheckDefault
  <2> QED
    BY <2>1, CheckKeeps
<1>6. ASSUME NEW e \in Edits, NEW to \in {"PUBLISHED", "ARCHIVED"}, CheckTransition(e, to) PROVE ProductInv'
  <2>1. Check(e, "transition", None, to) /\ status # "ARCHIVED"
    BY <1>6 DEF CheckTransition
  <2> QED
    BY <2>1, CheckKeeps
<1>7. ASSUME NEW e \in Edits, NEW c \in Categories, CheckUnassign(e, c) PROVE ProductInv'
  <2>1. Check(e, "unassign", c, "none")
    BY <1>7 DEF CheckUnassign
  <2> QED
    BY <2>1, CheckKeeps
<1>8. ASSUME NEW e \in Edits,
             \/ UpdateVariantStatus(e) \/ SetDefaultVariant(e)
             \/ TransitionProduct(e) \/ UnassignCategory(e)
      PROVE  ProductInv'
  BY <1>8, VariantStatusKeeps, DefaultKeeps, TransitionKeeps, UnassignKeeps
<1> QED
  BY <1>1, <1>2, <1>3, <1>4, <1>5, <1>6, <1>7, <1>8 DEF ProductsNext

\* The invariant, for any number of variants, categories and edits of the staff at once.
THEOREM ProductsInvariant ==
  ASSUME Named
  PROVE  ProductsSpec => []ProductInv
<1>1. ProductsInit => ProductInv
  BY InitProductInv
<1>2. ProductInv /\ [ProductsNext]_productVars => ProductInv'
  BY NextProductInv
<1> QED
  BY <1>1, <1>2, PTL DEF ProductsSpec

LEMMA ProductIsWhole ==
  ASSUME Named, ProductInv
  PROVE  ProductsStayWhole
<1>1. {v \in Variants : variants[v].isDefault} = {default} \ {None}
  BY DEF ProductInv, ProductTypes, DefaultKnown, Named
<1> QED
  BY <1>1 DEF ProductInv, ProductsStayWhole, PrimaryIsMember, DefaultIsSold, ArchivedIsForGood

(* Edits that overlap (CatalogService checks outside its transaction) leave *)
(* one default variant, the one the product names, and the primary category *)
(* among the categories; a default variant that is archived and an archived *)
(* product that is back are the work of an edit that was overtaken.         *)
THEOREM ProductsWhole ==
  ASSUME Named
  PROVE  ProductsSpec => []ProductsStayWhole
BY ProductIsWhole, ProductsInvariant, PTL

(***************************************************************************)
(* Shipments and reviews.  Reservations and shipments are finitely many,   *)
(* and units are numbers.                                                  *)
(***************************************************************************)
Sold ==
  /\ IsFiniteSet(Reservations) /\ Reservations \subseteq Nat /\ IsFiniteSet(Shipments)
  /\ UnitsOf \in [Reservations -> Nat] /\ Others \in [Reservations -> Nat]
  /\ Refundable \in Nat

\* What is drafted stays within the reservation, and what left is what was sent.
DraftsFit  == \A r \in Reservations : AllocatedIn(AnyStatus, r) <= UnitsOf[r]
SentLeft   == \A r \in Reservations : dispatched[r] = AllocatedIn(Sent, r)

\* An order waits for what was not sent of it, or was cancelled with nothing drafted.
Waits ==
  \/ /\ order.status # "CANCELLED"
     /\ \A r \in Reservations : allocated[r] = Others[r] + UnitsOf[r] - dispatched[r]
  \/ /\ order.status \in {"CANCELLED", "REFUNDED"} /\ order.payment # "UNPAID"
     /\ Existing(AnyStatus) = {} /\ order.fulfilment = "UNFULFILLED"
     /\ \A r \in Reservations : allocated[r] = Others[r]

\* The parts of the order's status agree.
StatusAgrees ==
  /\ order.payment = "UNPAID" => order.status = "PENDING_PAYMENT"
  /\ order.status = "FULFILLED" => order.fulfilment = "FULFILLED"

ShipmentsInv ==
  /\ TypeOK /\ DraftsFit /\ SentLeft /\ Waits /\ StatusAgrees /\ FulfilmentFollowsShipments

SalesInv == ShipmentsInv /\ ReviewsTypeOK /\ OnlyVerifiedPurchases

ShipmentRow == [status : AnyStatus \cup {"absent"}, alloc : [Reservations -> Nat]]

\* What shipments of some statuses have of a reservation is a number, and more
\* statuses have more.
LEMMA AllocatedNat ==
  ASSUME Sold, TypeOK, NEW r \in Reservations, NEW S, NEW T, S \subseteq T
  PROVE  /\ IsFiniteSet(Existing(T)) /\ AllocatedIn(S, r) \in Nat
         /\ AllocatedIn(S, r) <= AllocatedIn(T, r)
<1> DEFINE f == [s \in Shipments |-> shipments[s].alloc[r]]
<1>1. \A s \in Shipments : f[s] \in Nat
  BY DEF TypeOK
<1>2. IsFiniteSet(Existing(S)) /\ IsFiniteSet(Existing(T)) /\ Existing(S) \subseteq Existing(T)
      /\ Existing(T) \subseteq Shipments
  BY FS_Subset DEF Sold, Existing
<1>3. /\ AllocatedIn(S, r) = SumFunctionOnSet(f, Existing(S))
      /\ AllocatedIn(T, r) = SumFunctionOnSet(f, Existing(T))
  BY DEF AllocatedIn
<1> HIDE DEF f
<1> QED
  BY <1>1, <1>2, <1>3, SumNat, SumSubset

MoreHaveMore ==
  \A r \in Reservations : \A S, T :
    S \subseteq T => AllocatedIn(S, r) \in Nat /\ AllocatedIn(S, r) <= AllocatedIn(T, r)

LEMMA AllocatedNatNext ==
  ASSUME Sold
  PROVE  TypeOK' => MoreHaveMore'
<1>1. TypeOK => MoreHaveMore
  BY AllocatedNat DEF MoreHaveMore
<1> QED
  BY <1>1, PTL

\* Of what shipments of some statuses have of a reservation, m units leave one
\* status and n enter another.
UnitsGo(S, r, from, m, to, n) ==
  /\ AllocatedIn(S, r) \in Nat /\ AllocatedIn(S, r)' \in Nat
  /\ AllocatedIn(S, r)' + (IF from \in S THEN m ELSE 0) =
       AllocatedIn(S, r) + (IF to \in S THEN n ELSE 0)

\* A shipment that is written takes its units with it from status to status.
LEMMA RowWritten ==
  ASSUME Sold, TypeOK, NEW s \in Shipments, NEW row \in ShipmentRow,
         shipments' = [shipments EXCEPT ![s] = row], NEW r \in Reservations, NEW S
  PROVE  UnitsGo(S, r, shipments[s].status, shipments[s].alloc[r], row.status, row.alloc[r])
<1> DEFINE f == [t \in Shipments |-> shipments[t].alloc[r]]
           g == [t \in Shipments |-> shipments'[t].alloc[r]]
           E == Existing(S)
           F == Existing(S)'
<1>1. /\ \A t \in Shipments : f[t] \in Nat /\ g[t] \in Nat
      /\ \A t \in Shipments \ {s} : g[t] = f[t]
      /\ f[s] = shipments[s].alloc[r] /\ g[s] = row.alloc[r]
  BY DEF TypeOK, ShipmentRow
<1>2. /\ E \ {s} = F \ {s} /\ s \notin E \ {s} /\ E \subseteq Shipments /\ F \subseteq Shipments
      /\ s \in E <=> shipments[s].status \in S
      /\ s \in F <=> row.status \in S
  BY DEF TypeOK, Existing, ShipmentRow
<1>3. IsFiniteSet(E) /\ IsFiniteSet(F)
  BY <1>2, FS_Subset DEF Sold
<1>4. AllocatedIn(S, r) = SumFunctionOnSet(f, E) /\ AllocatedIn(S, r)' = SumFunctionOnSet(g, F)
  BY DEF AllocatedIn
<1> HIDE DEF f, g, E, F
<1>5. /\ SumFunctionOnSet(f, E) \in Nat /\ SumFunctionOnSet(g, F) \in Nat
      /\ SumFunctionOnSet(g, F) + (IF s \in E THEN f[s] ELSE 0) =
           SumFunctionOnSet(f, E) + (IF s \in F THEN g[s] ELSE 0)
  BY <1>1, <1>2, <1>3, SumExchange
<1> QED
  BY <1>1, <1>2, <1>4, <1>5 DEF UnitsGo

\* The same of the units of a line.
LEMMA LineUnitsNat ==
  ASSUME Sold, TypeOK, NEW S, NEW T, S \subseteq T, NEW l
  PROVE  LineUnits(S, l) \in Nat /\ LineUnits(S, l) <= LineUnits(T, l)
<1> DEFINE f == [r \in Reservations |-> AllocatedIn(S, r)]
           g == [r \in Reservations |-> AllocatedIn(T, r)]
<1>1. \A r \in Reservations : f[r] \in Nat /\ g[r] \in Nat /\ f[r] <= g[r]
  BY AllocatedNat
<1>2. IsFiniteSet(ReservationsOf(l)) /\ ReservationsOf(l) \subseteq Reservations
  BY FS_Subset DEF Sold, ReservationsOf
<1>3. /\ LineUnits(S, l) = SumFunctionOnSet(f, ReservationsOf(l))
      /\ LineUnits(T, l) = SumFunctionOnSet(g, ReservationsOf(l))
  BY DEF LineUnits
<1> HIDE DEF f, g
<1> QED
  BY <1>1, <1>2, <1>3, SumNat, SumMonotone

\* What was drafted of a line stays within what was ordered.
LEMMA LineFits ==
  ASSUME Sold, TypeOK, DraftsFit, NEW l
  PROVE  LineUnits(AnyStatus, l) <= Ordered(l) /\ Ordered(l) \in Nat
<1> DEFINE f == [r \in Reservations |-> AllocatedIn(AnyStatus, r)]
<1>1. \A r \in Reservations : f[r] \in Nat /\ UnitsOf[r] \in Nat /\ f[r] <= UnitsOf[r]
  BY AllocatedNat DEF DraftsFit, Sold
<1>2. IsFiniteSet(ReservationsOf(l)) /\ ReservationsOf(l) \subseteq Reservations
  BY FS_Subset DEF Sold, ReservationsOf
<1>3. LineUnits(AnyStatus, l) = SumFunctionOnSet(f, ReservationsOf(l))
  BY DEF LineUnits
<1> HIDE DEF f
<1> QED
  BY <1>1, <1>2, <1>3, SumNat, SumMonotone DEF Ordered

\* Units of lines are as they were where those of the reservations are.
LEMMA LinesKept ==
  ASSUME NEW S, \A r \in Reservations : AllocatedIn(S, r)' = AllocatedIn(S, r)
  PROVE  /\ \A l : LineUnits(S, l)' = LineUnits(S, l)
         /\ Complete(S)' <=> Complete(S)
<1>1. [r \in Reservations |-> AllocatedIn(S, r)]' = [r \in Reservations |-> AllocatedIn(S, r)]
  OBVIOUS
<1>2. \A l : LineUnits(S, l)' = LineUnits(S, l)
  BY <1>1 DEF LineUnits
<1> QED
  BY <1>2 DEF Complete

LEMMA InitSales == Sold /\ ReviewsInit => SalesInv
<1> SUFFICES ASSUME Sold, ReviewsInit
             PROVE  SalesInv
  OBVIOUS
<1>1. TypeOK /\ ReviewsTypeOK
  BY DEF ReviewsInit, Init, TypeOK, ReviewsTypeOK, NoShipment, NoAllocation, AnyStatus, Sold
<1>2. /\ \A S : S \subseteq AnyStatus => Existing(S) = {}
      /\ Sent \subseteq AnyStatus
  BY DEF ReviewsInit, Init, Existing, NoShipment, AnyStatus, Sent
<1>3. \A S, r : S \subseteq AnyStatus => AllocatedIn(S, r) = 0
  BY <1>2, SumEmpty DEF AllocatedIn
<1>4. DraftsFit /\ SentLeft
  BY <1>2, <1>3 DEF DraftsFit, SentLeft, Sold, ReviewsInit, Init, NoAllocation
<1>5. \A r \in Reservations : allocated[r] = Others[r] + UnitsOf[r] - dispatched[r]
  BY DEF ReviewsInit, Init, NoAllocation, Sold
<1>6. Waits /\ StatusAgrees
  BY <1>5 DEF ReviewsInit, Init, Waits, StatusAgrees
<1>7. FulfilmentFollowsShipments
  BY <1>2 DEF ReviewsInit, Init, FulfilmentFollowsShipments
<1>8. OnlyVerifiedPurchases
  BY DEF ReviewsInit, OnlyVerifiedPurchases
<1> QED
  BY <1>1, <1>4, <1>6, <1>7, <1>8 DEF SalesInv, ShipmentsInv

\* Payments touch no shipment.
LEMMA PaymentKeeps ==
  ASSUME Sold, ShipmentsInv, Capture \/ Refund
  PROVE  /\ ShipmentsInv' /\ UNCHANGED shipments /\ order'.fulfilment = order.fulfilment
<1>1. UNCHANGED <<shipments, allocated, dispatched>> /\ order'.fulfilment = order.fulfilment
  BY DEF Capture, Refund, ShipmentsInv, TypeOK
<1>2. TypeOK'
  <2>1. order' \in [status : {"PENDING_PAYMENT", "PAID", "PARTIALLY_FULFILLED", "FULFILLED",
                             "CANCELLED", "REFUNDED"},
                   payment : {"UNPAID", "PAID", "PARTIALLY_REFUNDED", "REFUNDED"},
                   fulfilment : {"UNFULFILLED", "PARTIAL", "FULFILLED"}]
    BY DEF Capture, Refund, ShipmentsInv, TypeOK
  <2>2. refunded' \in 0..Refundable
    BY DEF Capture, Refund, ShipmentsInv, TypeOK, Sold
  <2> QED
    BY <1>1, <2>1, <2>2 DEF ShipmentsInv, TypeOK
<1>3. DraftsFit' /\ SentLeft' /\ FulfilmentFollowsShipments'
  BY <1>1 DEF ShipmentsInv, DraftsFit, SentLeft, FulfilmentFollowsShipments, AllocatedIn, Existing,
     Complete, LineUnits
<1>4. Waits'
  BY <1>1 DEF ShipmentsInv, TypeOK, Waits, StatusAgrees, Capture, Refund, Existing
<1>5. StatusAgrees'
  BY <1>1 DEF ShipmentsInv, TypeOK, StatusAgrees, Capture, Refund
<1> QED
  BY <1>1, <1>2, <1>3, <1>4, <1>5 DEF ShipmentsInv

\* A new shipment takes no more than what is free of a reservation.
LEMMA AllocationFits ==
  ASSUME Sold, TypeOK, DraftsFit, NEW request \in Requests, NEW r \in Reservations
  PROVE  /\ Allocation(request)[r] \in Nat
         /\ AllocatedIn(AnyStatus, r) + Allocation(request)[r] <= UnitsOf[r]
<1> DEFINE Q == {q \in ReservationsOf(LineOf[r]) : q < r}
           f == [q \in Reservations |-> Free(q)]
<1>1. \A q \in Reservations : Free(q) \in Nat /\ AllocatedIn(AnyStatus, q) \in Nat
      /\ Free(q) = UnitsOf[q] - AllocatedIn(AnyStatus, q)
  BY AllocatedNat DEF DraftsFit, Sold, Free
<1>2. IsFiniteSet(Q) /\ Q \subseteq Reservations
  BY FS_Subset DEF Sold, ReservationsOf
<1>3. FreeIn(Q) \in Nat
  <2>1. \A q \in Q : f[q] \in Nat
    BY <1>1, <1>2
  <2>2. FreeIn(Q) = SumFunctionOnSet(f, Q)
    BY DEF FreeIn
  <2> HIDE DEF f, Q
  <2> QED
    BY <1>2, <2>1, <2>2, SumNat
<1>4. LineOf[r] \in Lines /\ request[LineOf[r]] \in Nat
  BY DEF Lines, Requests
<1>5. Allocation(request)[r] =
        IF request[LineOf[r]] <= FreeIn(Q) THEN 0
        ELSE Smaller(Free(r), request[LineOf[r]] - FreeIn(Q))
  BY DEF Allocation
<1> HIDE DEF Q, f
<1>6. UnitsOf[r] \in Nat
  BY DEF Sold
<1> QED
  BY <1>1, <1>3, <1>4, <1>5, <1>6 DEF Smaller

LEMMA CreateShipmentKeeps ==
  ASSUME Sold, ShipmentsInv, NEW s \in Shipments, NEW request \in Requests,
         CreateShipment(s, request)
  PROVE  /\ ShipmentsInv' /\ order' = order
         /\ Complete({"DELIVERED"}) => Complete({"DELIVERED"})'
<1>0. PICK row : row = [status |-> "PENDING", alloc |-> Allocation(request)]
  OBVIOUS
<1>1. /\ shipments' = [shipments EXCEPT ![s] = row] /\ shipments[s].status = "absent" /\ Fulfillable
      /\ UNCHANGED <<order, allocated, dispatched, refunded>>
  BY <1>0 DEF CreateShipment
<1>2. row \in ShipmentRow /\ row.status = "PENDING" /\ row.alloc = Allocation(request)
  BY <1>0, AllocationFits DEF ShipmentsInv, ShipmentRow, AnyStatus, Allocation
<1>3. TypeOK'
  BY <1>1, <1>2 DEF ShipmentsInv, TypeOK, ShipmentRow
<1>4. ASSUME NEW r \in Reservations
      PROVE  /\ AllocatedIn(AnyStatus, r)' = AllocatedIn(AnyStatus, r) + Allocation(request)[r]
             /\ AllocatedIn(Sent, r)' = AllocatedIn(Sent, r)
             /\ AllocatedIn({"DELIVERED"}, r)' = AllocatedIn({"DELIVERED"}, r)
  <2>0. TypeOK
    BY DEF ShipmentsInv
  <2>1. ASSUME NEW S
        PROVE  UnitsGo(S, r, shipments[s].status, shipments[s].alloc[r], row.status, row.alloc[r])
    <3>1. shipments' = [shipments EXCEPT ![s] = row] /\ row \in ShipmentRow
      BY <1>1, <1>2
    <3> QED
      BY ONLY Sold, <2>0, <3>1, RowWritten, ZenonT(30)
  <2>3. "absent" \notin AnyStatus /\ "PENDING" \in AnyStatus
    BY DEF AnyStatus
  <2>4. "absent" \notin Sent /\ "PENDING" \notin Sent
    BY DEF Sent
  <2>5. AllocatedIn(AnyStatus, r)' = AllocatedIn(AnyStatus, r) + Allocation(request)[r]
    BY <1>1, <1>2, <2>1, <2>3 DEF UnitsGo
  <2>6. AllocatedIn(Sent, r)' = AllocatedIn(Sent, r)
    BY <1>1, <1>2, <2>1, <2>4 DEF UnitsGo
  <2>7. AllocatedIn({"DELIVERED"}, r)' = AllocatedIn({"DELIVERED"}, r)
    BY <1>1, <1>2, <2>1 DEF UnitsGo
  <2> QED
    BY <2>5, <2>6, <2>7
<1>5. DraftsFit'
  BY <1>4, AllocationFits DEF ShipmentsInv, DraftsFit
<1>6. SentLeft'
  BY <1>1, <1>4 DEF ShipmentsInv, SentLeft
<1>7. Waits'
  BY <1>1 DEF ShipmentsInv, Waits, Fulfillable
<1>8. StatusAgrees'
  BY <1>1 DEF ShipmentsInv, StatusAgrees
<1>9. Complete(Sent)' <=> Complete(Sent)
  BY <1>4, LinesKept
<1>10. Complete({"DELIVERED"})' <=> Complete({"DELIVERED"})
  BY <1>4, LinesKept
<1>11. Existing(Sent)' = Existing(Sent)
  BY <1>1, <1>2 DEF ShipmentsInv, TypeOK, Existing, Sent
<1>12. FulfilmentFollowsShipments'
  BY <1>1, <1>9, <1>11 DEF ShipmentsInv, FulfilmentFollowsShipments
<1> QED
  BY <1>1, <1>3, <1>5, <1>6, <1>7, <1>8, <1>10, <1>12 DEF ShipmentsInv

\* A shipment that goes on takes its units with it from status to status.
LEMMA StatusWritten ==
  ASSUME Sold, TypeOK, NEW s \in Shipments, NEW to \in AnyStatus,
         shipments' = [shipments EXCEPT ![s].status = to], NEW r \in Reservations
  PROVE  /\ shipments[s].alloc[r] \in Nat
         /\ \A S : UnitsGo(S, r, shipments[s].status, shipments[s].alloc[r], to, shipments[s].alloc[r])
<1>1. PICK row : row = [shipments[s] EXCEPT !.status = to]
  OBVIOUS
<1>2. /\ shipments' = [shipments EXCEPT ![s] = row] /\ row \in ShipmentRow
      /\ row.status = to /\ row.alloc = shipments[s].alloc
  BY <1>1 DEF TypeOK, ShipmentRow
<1>3. ASSUME NEW S
      PROVE  UnitsGo(S, r, shipments[s].status, shipments[s].alloc[r], row.status, row.alloc[r])
  <2>1. shipments' = [shipments EXCEPT ![s] = row] /\ row \in ShipmentRow
    BY <1>2
  <2> QED
    BY ONLY Sold, TypeOK, <2>1, RowWritten, ZenonT(30)
<1>4. shipments[s].alloc[r] \in Nat
  BY DEF TypeOK
<1> QED
  BY <1>2, <1>3, <1>4

LEMMA MarkShippedKeeps ==
  ASSUME Sold, ShipmentsInv, NEW s \in Shipments, MarkShipped(s)
  PROVE  /\ ShipmentsInv' /\ order.fulfilment # "FULFILLED"
<1> DEFINE alloc == shipments[s].alloc
<1>1. /\ shipments' = [shipments EXCEPT ![s].status = "IN_TRANSIT"]
      /\ shipments[s].status = "PENDING" /\ Fulfillable /\ refunded' = refunded
      /\ \A r \in Reservations : alloc[r] <= allocated[r]
      /\ allocated' = [r \in Reservations |-> allocated[r] - alloc[r]]
      /\ dispatched' = [r \in Reservations |-> dispatched[r] + alloc[r]]
      /\ order' = IF CompleteWith(s)
                  THEN [order EXCEPT !.fulfilment = "FULFILLED", !.status = "FULFILLED"]
                  ELSE [order EXCEPT !.fulfilment = "PARTIAL", !.status = "PARTIALLY_FULFILLED"]
  BY DEF MarkShipped
<1>2. /\ TypeOK /\ alloc \in [Reservations -> Nat] /\ allocated \in [Reservations -> Nat]
      /\ dispatched \in [Reservations -> Nat]
  BY DEF ShipmentsInv, TypeOK
<1> HIDE DEF alloc
<1>3. TypeOK'
  <2>1. /\ order' \in [status : {"PENDING_PAYMENT", "PAID", "PARTIALLY_FULFILLED", "FULFILLED",
                                 "CANCELLED", "REFUNDED"},
                       payment : {"UNPAID", "PAID", "PARTIALLY_REFUNDED", "REFUNDED"},
                       fulfilment : {"UNFULFILLED", "PARTIAL", "FULFILLED"}]
        /\ refunded' \in 0..Refundable
    BY <1>1, <1>2 DEF TypeOK
  <2>2. shipments' \in [Shipments -> [status : AnyStatus \cup {"absent"},
                                       alloc : [Reservations -> Nat]]]
    BY <1>1, <1>2 DEF TypeOK, AnyStatus
  <2>3. allocated' \in [Reservations -> Nat] /\ dispatched' \in [Reservations -> Nat]
    BY <1>1, <1>2
  <2> QED
    BY <2>1, <2>2, <2>3 DEF TypeOK
<1>4. ASSUME NEW r \in Reservations
      PROVE  /\ AllocatedIn(AnyStatus, r)' = AllocatedIn(AnyStatus, r)
             /\ AllocatedIn(Sent, r)' = AllocatedIn(Sent, r) + alloc[r] /\ AllocatedIn(Sent, r) \in Nat
  <2>1. /\ "IN_TRANSIT" \in AnyStatus /\ "PENDING" \in AnyStatus
        /\ "IN_TRANSIT" \in Sent /\ "PENDING" \notin Sent
    BY DEF AnyStatus, Sent
  <2>2. /\ alloc[r] \in Nat
        /\ \A S : UnitsGo(S, r, shipments[s].status, alloc[r], "IN_TRANSIT", alloc[r])
    <3>1. shipments' = [shipments EXCEPT ![s].status = "IN_TRANSIT"]
      BY <1>1
    <3> QED
      BY ONLY Sold, <1>2, <2>1, <3>1, StatusWritten, ZenonT(30) DEF alloc
  <2>3. AllocatedIn(AnyStatus, r)' = AllocatedIn(AnyStatus, r)
    BY <1>1, <2>1, <2>2 DEF UnitsGo
  <2>4. AllocatedIn(Sent, r)' = AllocatedIn(Sent, r) + alloc[r] /\ AllocatedIn(Sent, r) \in Nat
    BY <1>1, <2>1, <2>2 DEF UnitsGo
  <2> QED
    BY <2>3, <2>4
<1>5. DraftsFit' /\ SentLeft'
  BY <1>1, <1>2, <1>4 DEF ShipmentsInv, DraftsFit, SentLeft
<1>6. Waits'
  <2>1. /\ order.status \notin {"CANCELLED", "REFUNDED"}
        /\ order'.status \in {"FULFILLED", "PARTIALLY_FULFILLED"}
    BY <1>1, <1>2 DEF Fulfillable, TypeOK
  <2>2. \A r \in Reservations : allocated[r] = Others[r] + UnitsOf[r] - dispatched[r]
    BY <2>1 DEF ShipmentsInv, Waits
  <2>3. \A r \in Reservations : allocated'[r] = Others[r] + UnitsOf[r] - dispatched'[r]
    BY <1>1, <1>2, <2>2 DEF Sold
  <2> QED
    BY <2>1, <2>3 DEF Waits
<1>7. StatusAgrees'
  BY <1>1, <1>2 DEF ShipmentsInv, StatusAgrees, Fulfillable, TypeOK
<1>8. CompleteWith(s) <=> Complete(Sent)'
  <2>1. ASSUME NEW l
        PROVE  LineUnits(Sent, l)' = LineUnits(Sent, l) + SumFunctionOnSet(alloc, ReservationsOf(l))
    <3> DEFINE f == [r \in Reservations |-> AllocatedIn(Sent, r)]
               h == [r \in Reservations |-> AllocatedIn(Sent, r)']
    <3>1. \A r \in Reservations : f[r] \in Nat /\ alloc[r] \in Nat /\ h[r] = f[r] + alloc[r]
      BY <1>2, <1>4
    <3>2. IsFiniteSet(ReservationsOf(l)) /\ ReservationsOf(l) \subseteq Reservations
      BY FS_Subset DEF Sold, ReservationsOf
    <3>3. /\ LineUnits(Sent, l) = SumFunctionOnSet(f, ReservationsOf(l))
          /\ LineUnits(Sent, l)' = SumFunctionOnSet(h, ReservationsOf(l))
      BY DEF LineUnits, ReservationsOf
    <3> HIDE DEF f, h
    <3> QED
      BY <3>1, <3>2, <3>3, SumPlus
  <2> QED
    BY <2>1 DEF CompleteWith, Complete, alloc, Ordered, ReservationsOf, Lines
<1>9. s \in Existing(Sent)'
  BY <1>1, <1>2 DEF TypeOK, Existing, Sent
<1>10. FulfilmentFollowsShipments'
  BY <1>1, <1>2, <1>8, <1>9 DEF FulfilmentFollowsShipments, TypeOK
<1> QED
  BY <1>1, <1>3, <1>5, <1>6, <1>7, <1>10 DEF ShipmentsInv, Fulfillable

LEMMA MarkDeliveredKeeps ==
  ASSUME Sold, ShipmentsInv, NEW s \in Shipments, MarkDelivered(s)
  PROVE  /\ ShipmentsInv' /\ order' = order
         /\ Complete({"DELIVERED"}) => Complete({"DELIVERED"})'
<1>1. /\ shipments' = [shipments EXCEPT ![s].status = "DELIVERED"]
      /\ shipments[s].status = "IN_TRANSIT" /\ UNCHANGED <<order, allocated, dispatched, refunded>>
  BY DEF MarkDelivered
<1>2. TypeOK
  BY DEF ShipmentsInv
<1>3. TypeOK'
  BY <1>1, <1>2 DEF TypeOK, AnyStatus
<1>4. ASSUME NEW r \in Reservations
      PROVE  /\ AllocatedIn(AnyStatus, r)' = AllocatedIn(AnyStatus, r)
             /\ AllocatedIn(Sent, r)' = AllocatedIn(Sent, r)
             /\ AllocatedIn({"DELIVERED"}, r) \in Nat /\ AllocatedIn({"DELIVERED"}, r)' \in Nat
             /\ AllocatedIn({"DELIVERED"}, r) <= AllocatedIn({"DELIVERED"}, r)'
  <2>1. /\ "IN_TRANSIT" \in AnyStatus /\ "DELIVERED" \in AnyStatus
        /\ "IN_TRANSIT" \in Sent /\ "DELIVERED" \in Sent
    BY DEF AnyStatus, Sent
  <2>2. PICK n \in Nat :
          \A S : UnitsGo(S, r, shipments[s].status, n, "DELIVERED", n)
    <3>1. shipments' = [shipments EXCEPT ![s].status = "DELIVERED"]
      BY <1>1
    <3> QED
      BY ONLY Sold, <1>2, <2>1, <3>1, StatusWritten, ZenonT(30)
  <2>3. AllocatedIn(AnyStatus, r)' = AllocatedIn(AnyStatus, r)
    BY <1>1, <2>1, <2>2 DEF UnitsGo
  <2>4. AllocatedIn(Sent, r)' = AllocatedIn(Sent, r)
    BY <1>1, <2>1, <2>2 DEF UnitsGo
  <2>5. /\ AllocatedIn({"DELIVERED"}, r) \in Nat /\ AllocatedIn({"DELIVERED"}, r)' \in Nat
        /\ AllocatedIn({"DELIVERED"}, r) <= AllocatedIn({"DELIVERED"}, r)'
    BY <1>1, <2>2 DEF UnitsGo
  <2> QED
    BY <2>3, <2>4, <2>5
<1>5. DraftsFit' /\ SentLeft' /\ StatusAgrees'
  BY <1>1, <1>4 DEF ShipmentsInv, DraftsFit, SentLeft, StatusAgrees
<1>6. Existing(Sent)' = Existing(Sent) /\ Existing(AnyStatus)' = Existing(AnyStatus)
  BY <1>1, <1>2 DEF TypeOK, Existing, Sent, AnyStatus
<1>7. Waits'
  BY <1>1, <1>6 DEF ShipmentsInv, Waits
<1>8. FulfilmentFollowsShipments'
  <2>1. Complete(Sent)' <=> Complete(Sent)
    BY <1>4, LinesKept
  <2> QED
    BY <1>1, <1>6, <2>1 DEF ShipmentsInv, FulfilmentFollowsShipments
<1>9. ASSUME Complete({"DELIVERED"}), NEW l \in Lines
      PROVE  LineUnits({"DELIVERED"}, l)' = Ordered(l)
  <2> DEFINE R == ReservationsOf(l)
             f == [r \in Reservations |-> AllocatedIn({"DELIVERED"}, r)]
             g == [r \in Reservations |-> AllocatedIn({"DELIVERED"}, r)']
             h == [r \in Reservations |-> AllocatedIn(AnyStatus, r)']
  <2>0. IsFiniteSet(R) /\ R \subseteq Reservations
    BY FS_Subset DEF Sold, ReservationsOf
  <2>1. \A r \in Reservations : AllocatedIn({"DELIVERED"}, r)' <= AllocatedIn(AnyStatus, r)'
    BY <1>3, AllocatedNatNext DEF AnyStatus, MoreHaveMore
  <2>2. /\ \A r \in R : f[r] \in Nat /\ g[r] \in Nat /\ f[r] <= g[r]
        /\ \A r \in R : g[r] \in Nat /\ h[r] \in Nat /\ g[r] <= h[r]
        /\ \A r \in R : h[r] \in Nat /\ UnitsOf[r] \in Nat /\ h[r] <= UnitsOf[r]
    <3>1. \A r \in Reservations : /\ AllocatedIn(AnyStatus, r)' \in Nat
                                  /\ AllocatedIn(AnyStatus, r)' <= UnitsOf[r]
      BY <1>3, <1>5, AllocatedNatNext DEF MoreHaveMore, DraftsFit
    <3> QED
      BY <1>4, <2>0, <2>1, <3>1 DEF Sold
  <2>3. /\ LineUnits({"DELIVERED"}, l) = SumFunctionOnSet(f, R)
        /\ LineUnits({"DELIVERED"}, l)' = SumFunctionOnSet(g, R)
        /\ Ordered(l) = SumFunctionOnSet(UnitsOf, R)
    BY DEF LineUnits, Ordered, ReservationsOf
  <2> HIDE DEF R, f, g, h
  <2>4. /\ SumFunctionOnSet(f, R) <= SumFunctionOnSet(g, R)
        /\ SumFunctionOnSet(g, R) <= SumFunctionOnSet(h, R)
        /\ SumFunctionOnSet(h, R) <= SumFunctionOnSet(UnitsOf, R)
    BY <2>0, <2>2, SumMonotone
  <2>5. /\ SumFunctionOnSet(f, R) \in Nat /\ SumFunctionOnSet(g, R) \in Nat
        /\ SumFunctionOnSet(h, R) \in Nat /\ SumFunctionOnSet(UnitsOf, R) \in Nat
    BY <2>0, <2>2, SumNat
  <2>6. LineUnits({"DELIVERED"}, l) = Ordered(l)
    BY <1>9 DEF Complete
  <2> QED
    BY <2>3, <2>4, <2>5, <2>6
<1> QED
  BY <1>1, <1>3, <1>5, <1>7, <1>8, <1>9 DEF ShipmentsInv, Complete

LEMMA CancelKeeps ==
  ASSUME Sold, ShipmentsInv, CancelBeforeShipment
  PROVE  ShipmentsInv' /\ UNCHANGED shipments /\ order'.fulfilment = order.fulfilment
<1>1. /\ Cancellable /\ \A r \in Reservations : UnitsOf[r] <= allocated[r]
      /\ allocated' = [r \in Reservations |-> allocated[r] - UnitsOf[r]]
      /\ order' = [order EXCEPT !.status = "CANCELLED"]
      /\ UNCHANGED <<shipments, dispatched, refunded>>
  BY DEF CancelBeforeShipment
<1>2. /\ TypeOK /\ order'.fulfilment = order.fulfilment
      /\ order'.status = "CANCELLED" /\ order'.payment = "PAID"
  BY <1>1 DEF ShipmentsInv, TypeOK, Cancellable
<1>3. TypeOK'
  BY <1>1, <1>2 DEF TypeOK, Sold
<1>4. DraftsFit' /\ SentLeft' /\ FulfilmentFollowsShipments' /\ Existing(AnyStatus)' = {}
  BY <1>1, <1>2 DEF ShipmentsInv, DraftsFit, SentLeft, FulfilmentFollowsShipments, AllocatedIn, Existing,
     Complete, LineUnits, Cancellable
<1>5. \A r \in Reservations : dispatched[r] = 0
  <2>1. Existing(Sent) = {}
    BY <1>1 DEF Cancellable, Existing, Sent, AnyStatus
  <2> QED
    BY <2>1, SumEmpty DEF ShipmentsInv, SentLeft, AllocatedIn
<1>6. Waits'
  <2>1. \A r \in Reservations : allocated[r] = Others[r] + UnitsOf[r] - dispatched[r]
    BY <1>1 DEF ShipmentsInv, Waits, Cancellable
  <2>2. \A r \in Reservations : allocated'[r] = Others[r]
    BY <1>1, <1>5, <2>1 DEF Sold
  <2> QED
    BY <1>1, <1>2, <1>4, <2>2 DEF Waits, Cancellable
<1>7. StatusAgrees'
  BY <1>2 DEF StatusAgrees
<1> QED
  BY <1>1, <1>2, <1>3, <1>4, <1>6, <1>7 DEF ShipmentsInv

\* A step keeps the invariant of shipments, and what was delivered completely stays so.
LEMMA ShipmentStep ==
  ASSUME Sold, ShipmentsInv, Next
  PROVE  /\ ShipmentsInv'
         /\ Delivered /\ order.fulfilment = "FULFILLED" =>
              Delivered' /\ order'.fulfilment = "FULFILLED"
<1>1. ASSUME UNCHANGED shipments
      PROVE  Delivered' <=> Delivered
  BY <1>1 DEF Delivered, Complete, LineUnits, AllocatedIn, Existing
<1>2. CASE Capture \/ Refund
  BY <1>1, <1>2, PaymentKeeps
<1>3. ASSUME NEW s \in Shipments, NEW request \in Requests, CreateShipment(s, request)
      PROVE  /\ ShipmentsInv' /\ order' = order /\ (Delivered => Delivered')
  BY <1>3, CreateShipmentKeeps DEF Delivered
<1>4. ASSUME NEW s \in Shipments, MarkShipped(s)
      PROVE  ShipmentsInv' /\ order.fulfilment # "FULFILLED"
  BY <1>4, MarkShippedKeeps
<1>5. ASSUME NEW s \in Shipments, MarkDelivered(s)
      PROVE  /\ ShipmentsInv' /\ order' = order /\ (Delivered => Delivered')
  BY <1>5, MarkDeliveredKeeps DEF Delivered
<1>6. CASE CancelBeforeShipment
  BY <1>1, <1>6, CancelKeeps
<1> QED
  BY <1>2, <1>3, <1>4, <1>5, <1>6 DEF Next

LEMMA NextSales ==
  ASSUME Sold, SalesInv, [ReviewsNext]_<<vars, reviewVars>>
  PROVE  SalesInv'
<1>1. CASE Next /\ UNCHANGED reviewVars
  <2>1. ShipmentsInv' /\ (Delivered /\ order.fulfilment = "FULFILLED" =>
                            Delivered' /\ order'.fulfilment = "FULFILLED")
    BY <1>1, ShipmentStep DEF SalesInv
  <2>2. OnlyVerifiedPurchases'
    BY <1>1, <2>1 DEF SalesInv, OnlyVerifiedPurchases, reviewVars
  <2>3. ReviewsTypeOK'
    BY <1>1, <2>1 DEF SalesInv, ReviewsTypeOK, reviewVars, ShipmentsInv
  <2> QED
    BY <2>1, <2>2, <2>3 DEF SalesInv
<1>2. ASSUME UNCHANGED vars
      PROVE  /\ ShipmentsInv' /\ TypeOK' /\ (Delivered' <=> Delivered)
             /\ order' = order
  <2>1. UNCHANGED <<order, shipments, allocated, dispatched, refunded>>
    BY <1>2 DEF vars
  <2>2. /\ \A S : Existing(S)' = Existing(S) /\ (Complete(S)' <=> Complete(S))
        /\ \A S, r : AllocatedIn(S, r)' = AllocatedIn(S, r)
    BY <2>1 DEF AllocatedIn, Existing, Complete, LineUnits
  <2>3. TypeOK' /\ StatusAgrees'
    BY <2>1 DEF SalesInv, ShipmentsInv, TypeOK, StatusAgrees
  <2>4. DraftsFit' /\ SentLeft' /\ Waits' /\ FulfilmentFollowsShipments'
    BY <2>1, <2>2 DEF SalesInv, ShipmentsInv, DraftsFit, SentLeft, Waits, FulfilmentFollowsShipments
  <2> QED
    BY <2>1, <2>2, <2>3, <2>4 DEF ShipmentsInv, Delivered
<1>3. ASSUME UNCHANGED <<vars, reviewVars>>
      PROVE  SalesInv'
  BY <1>2, <1>3 DEF reviewVars, SalesInv, ReviewsTypeOK, OnlyVerifiedPurchases
<1>4. ASSUME NEW p \in Products, FindPurchase(p) \/ Publish(p)
      PROVE  SalesInv'
  BY <1>2, <1>4 DEF FindPurchase, Publish, SalesInv, ReviewsTypeOK, OnlyVerifiedPurchases
<1>5. ASSUME NEW p \in Products, Submit(p)
      PROVE  SalesInv'
  <2>1. Eligible => Delivered /\ order.fulfilment = "FULFILLED"
    BY DEF Eligible, Purchased, SalesInv, ShipmentsInv, StatusAgrees, TypeOK
  <2>2. UNCHANGED vars /\ published' = published /\ lookup' \subseteq lookup
        /\ reviews' = IF Eligible /\ reviews[p] = "none"
                      THEN [reviews EXCEPT ![p] = "PENDING"] ELSE reviews
    BY <1>5 DEF Submit
  <2>3. OnlyVerifiedPurchases'
    BY <1>2, <2>1, <2>2 DEF SalesInv, OnlyVerifiedPurchases, ReviewsTypeOK
  <2>4. ReviewsTypeOK'
    BY <1>2, <2>2 DEF SalesInv, ReviewsTypeOK
  <2> QED
    BY <1>2, <2>2, <2>3, <2>4 DEF SalesInv
<1>6. ASSUME NEW p \in Products, NEW verdict \in {"APPROVED", "REJECTED"}, Moderate(p, verdict)
      PROVE  SalesInv'
  <2>1. UNCHANGED <<vars, published, lookup>> /\ reviews[p] = "PENDING"
        /\ reviews' = [reviews EXCEPT ![p] = verdict]
    BY <1>6 DEF Moderate
  <2>2. OnlyVerifiedPurchases'
    BY <1>2, <2>1 DEF SalesInv, OnlyVerifiedPurchases, ReviewsTypeOK
  <2>3. ReviewsTypeOK'
    BY <1>2, <2>1 DEF SalesInv, ReviewsTypeOK
  <2> QED
    BY <1>2, <2>1, <2>2, <2>3 DEF SalesInv
<1> QED
  BY <1>1, <1>3, <1>4, <1>5, <1>6 DEF ReviewsNext

\* The invariant, for any order, any shipments of it and reviews of any products.
THEOREM SalesInvariant ==
  ASSUME Sold
  PROVE  ReviewsSpec => []SalesInv
BY InitSales, NextSales, PTL DEF ReviewsSpec

LEMMA UnitsLeave ==
  ASSUME SalesInv
  PROVE  UnitsLeaveOnce
BY DEF SalesInv, ShipmentsInv, DraftsFit, SentLeft, Waits, UnitsLeaveOnce

(* The units of an order leave the shelves once, by a shipment or by a      *)
(* cancellation, and none of another order leaves with them                 *)
(* (FulfilmentService, InventoryService).                                   *)
THEOREM UnitsLeft ==
  ASSUME Sold
  PROVE  ReviewsSpec => []UnitsLeaveOnce
BY UnitsLeave, SalesInvariant, PTL

(* A product is reviewed by who was delivered everything he ordered         *)
(* (ReviewsService), and the order says so (FulfilmentService).             *)
THEOREM PurchasesVerified ==
  ASSUME Sold
  PROVE  ReviewsSpec => [](OnlyVerifiedPurchases /\ FulfilmentFollowsShipments)
<1>1. SalesInv => OnlyVerifiedPurchases /\ FulfilmentFollowsShipments
  BY DEF SalesInv, ShipmentsInv
<1> QED
  BY <1>1, SalesInvariant, PTL

(***************************************************************************)
(* Purchases.  Orders, lines and receipts are finitely many, units are     *)
(* numbers, and what stands for no order is none.                          *)
(***************************************************************************)
Stocked ==
  /\ IsFiniteSet(Orders) /\ IsFiniteSet(OrderLines) /\ IsFiniteSet(ReceiptKeys)
  /\ "none" \notin Orders /\ Quantities \subseteq Nat
  /\ Entries \subseteq Seq([line : OrderLines, accepted : Nat, rejected : Nat])

\* Only an order that was received from has receipts.
ReceivedLast ==
  \A k \in ReceiptKeys : receipts[k].order \in Orders =>
    orders[receipts[k].order].status \in {"PARTIALLY_RECEIVED", "RECEIVED"}

PurchaseInv ==
  ProcurementTypeOK /\ ReceivedLast /\ ReceivedWithinOrder /\ IncomingIsOutstanding

Outstanding == Sum([o \in Expected |-> Brings(o)])

\* An entry's amount, of a receipt and of a line.
Amount(e) == e.accepted + e.rejected
AmountsOf(entries, l) ==
  [i \in DOMAIN entries |-> IF entries[i].line = l THEN Amount(entries[i]) ELSE 0]

LEMMA Amounts ==
  ASSUME Stocked, NEW entries \in Entries
  PROVE  /\ IsFiniteSet(DOMAIN entries)
         /\ \A i \in DOMAIN entries : /\ entries[i].line \in OrderLines
                                      /\ entries[i].accepted \in Nat
                                      /\ Amount(entries[i]) \in Nat
         /\ \A l : /\ \A i \in DOMAIN entries : AmountsOf(entries, l)[i] \in Nat
                   /\ Taken(entries, l) = SumFunctionOnSet(AmountsOf(entries, l), DOMAIN entries)
                   /\ Taken(entries, l) \in Nat
<1>1. entries \in Seq([line : OrderLines, accepted : Nat, rejected : Nat])
  BY DEF Stocked
<1>2. IsFiniteSet(DOMAIN entries)
  BY <1>1, FS_Interval
<1>3. \A i \in DOMAIN entries : /\ entries[i].line \in OrderLines /\ entries[i].accepted \in Nat
                                /\ Amount(entries[i]) \in Nat
  <2>1. \A i \in DOMAIN entries : entries[i] \in [line : OrderLines, accepted : Nat, rejected : Nat]
    <3> DEFINE R == [line : OrderLines, accepted : Nat, rejected : Nat]
    <3>1. entries \in Seq(R)
      BY <1>1
    <3> HIDE DEF R
    <3>2. \A i \in DOMAIN entries : entries[i] \in R
      BY <3>1
    <3> QED
      BY <3>2 DEF R
  <2> QED
    BY <2>1 DEF Amount
<1>4. ASSUME NEW l
      PROVE  /\ \A i \in DOMAIN entries : AmountsOf(entries, l)[i] \in Nat
             /\ Taken(entries, l) = SumFunctionOnSet(AmountsOf(entries, l), DOMAIN entries)
             /\ Taken(entries, l) \in Nat
  <2>1. \A i \in DOMAIN entries : AmountsOf(entries, l)[i] \in Nat
    BY <1>3 DEF AmountsOf
  <2>2. Taken(entries, l) = SumFunctionOnSet(AmountsOf(entries, l), DOMAIN entries)
    BY DEF Taken, Sum, AmountsOf, Amount
  <2>3. SumFunctionOnSet(AmountsOf(entries, l), DOMAIN entries) \in Nat
    BY <1>2, <2>1, SumNat
  <2> QED
    BY <2>1, <2>2, <2>3
<1> QED
  BY <1>2, <1>3, <1>4

\* What each key has brought of a line of an order.
Parcels(o, l) ==
  [k \in ReceiptKeys |-> IF receipts[k].order = o THEN Taken(receipts[k].entries, l) ELSE 0]

UnitsTyped ==
  /\ \A o \in Orders : Brings(o) \in Nat
  /\ \A o \in Orders, l \in OrderLines :
       /\ \A k \in ReceiptKeys : Parcels(o, l)[k] \in Nat
       /\ Received(o, l) = SumFunctionOnSet(Parcels(o, l), ReceiptKeys)
       /\ Received(o, l) \in Nat /\ orders[o].ordered[l] \in Nat
       /\ Remaining(o, l) \in Int /\ Remaining(o, l) = orders[o].ordered[l] - Received(o, l)

Missing(o) == [l \in Tracked |-> IF Remaining(o, l) > 0 THEN Remaining(o, l) ELSE 0]

LEMMA UnitsAreNumbers == Stocked /\ ProcurementTypeOK => UnitsTyped
<1> SUFFICES ASSUME Stocked, ProcurementTypeOK
             PROVE  UnitsTyped
  OBVIOUS
<1>1. ASSUME NEW o \in Orders, NEW l \in OrderLines
      PROVE  /\ \A k \in ReceiptKeys : Parcels(o, l)[k] \in Nat
             /\ Received(o, l) = SumFunctionOnSet(Parcels(o, l), ReceiptKeys)
             /\ Received(o, l) \in Nat /\ orders[o].ordered[l] \in Nat
             /\ Remaining(o, l) \in Int /\ Remaining(o, l) = orders[o].ordered[l] - Received(o, l)
  <2>1. \A k \in ReceiptKeys : receipts[k].order = o => receipts[k].entries \in Entries
    BY DEF ProcurementTypeOK, NoReceipt, Stocked
  <2>2. \A k \in ReceiptKeys : Parcels(o, l)[k] \in Nat
    BY <2>1, Amounts DEF Parcels
  <2>3. Received(o, l) = SumFunctionOnSet(Parcels(o, l), ReceiptKeys)
    BY DEF Received, Sum, Parcels
  <2>4. SumFunctionOnSet(Parcels(o, l), ReceiptKeys) \in Nat
    BY <2>2, SumNat DEF Stocked
  <2>5. orders[o].ordered \in [OrderLines -> Quantities \cup {0}]
    BY DEF ProcurementTypeOK
  <2>6. orders[o].ordered[l] \in Nat
    <3>1. Quantities \cup {0} \subseteq Nat
      BY DEF Stocked
    <3> QED
      BY <2>5, <3>1
  <2> QED
    BY <2>2, <2>3, <2>4, <2>6 DEF Remaining
<1>2. ASSUME NEW o \in Orders
      PROVE  Brings(o) \in Nat
  <2>1. IsFiniteSet(Tracked) /\ \A l \in Tracked : Missing(o)[l] \in Nat
    BY <1>1, FS_Subset DEF Tracked, Stocked, Missing
  <2>2. Brings(o) = SumFunctionOnSet(Missing(o), Tracked)
    BY DEF Brings, Sum, Missing
  <2> QED
    BY <2>1, <2>2, SumNat
<1> QED
  BY <1>1, <1>2 DEF UnitsTyped

LEMMA UnitsAreNumbersNext ==
  ASSUME Stocked
  PROVE  ProcurementTypeOK' => UnitsTyped'
<1>1. ProcurementTypeOK => UnitsTyped
  BY UnitsAreNumbers
<1> QED
  BY <1>1, PTL

\* Of the units on their way, those of one order change.
LEMMA OneOrderChanges ==
  ASSUME Stocked, ProcurementTypeOK, ProcurementTypeOK', NEW o \in Orders,
         \A p \in Orders \ {o} : Brings(p)' = Brings(p) /\ orders'[p] = orders[p]
  PROVE  /\ Outstanding \in Nat /\ Outstanding' \in Nat
         /\ Outstanding' + (IF o \in Expected THEN Brings(o) ELSE 0) =
              Outstanding + (IF o \in Expected' THEN Brings(o)' ELSE 0)
<1> DEFINE S == Expected
           T == Expected'
           f == [p \in S |-> Brings(p)]
           g == [p \in T |-> Brings(p)']
<1>1. /\ S \subseteq Orders /\ T \subseteq Orders /\ S \ {o} = T \ {o}
      /\ IsFiniteSet(S) /\ IsFiniteSet(T)
  BY FS_Subset DEF Expected, Stocked
<1>2. /\ \A p \in S : f[p] \in Nat /\ f[p] = Brings(p)
      /\ \A p \in T : g[p] \in Nat /\ g[p] = Brings(p)'
  <2>1. \A p \in Orders : Brings(p) \in Nat /\ Brings(p)' \in Nat
    BY UnitsAreNumbers, UnitsAreNumbersNext DEF UnitsTyped
  <2> QED
    BY <1>1, <2>1
<1>3. \A p \in S \ {o} : g[p] = f[p]
  BY <1>1
<1>4. Outstanding = SumFunctionOnSet(f, S) /\ Outstanding' = SumFunctionOnSet(g, T)
  BY DEF Outstanding, Sum
<1> HIDE DEF f, g, S, T
<1>5. /\ SumFunctionOnSet(f, S) \in Nat /\ SumFunctionOnSet(g, T) \in Nat
      /\ SumFunctionOnSet(g, T) + (IF o \in S THEN f[o] ELSE 0) =
           SumFunctionOnSet(f, S) + (IF o \in T THEN g[o] ELSE 0)
  BY <1>1, <1>2, <1>3, SumExchange
<1> QED
  BY <1>2, <1>4, <1>5 DEF S, T

(* Steps that receive nothing. *)
HasReceipt(o) == \E k \in ReceiptKeys : receipts[k].order = o

SameReceipts ==
  \A o \in Orders :
    /\ NamedTwice(o)' <=> NamedTwice(o)
    /\ HasReceipt(o)' <=> HasReceipt(o)
    /\ \A l \in OrderLines : Received(o, l)' = Received(o, l)

LEMMA ReceiptsKept == UNCHANGED receipts => SameReceipts
BY DEF SameReceipts, NamedTwice, Received, HasReceipt

\* Orders with the same lines bring the same.
LEMMA OrderKept ==
  ASSUME SameReceipts, NEW o \in Orders, orders'[o].ordered = orders[o].ordered
  PROVE  Brings(o)' = Brings(o) /\ \A l \in OrderLines : Remaining(o, l)' = Remaining(o, l)
<1>1. \A l \in OrderLines : Remaining(o, l)' = Remaining(o, l)
  BY DEF SameReceipts, Remaining
<1>2. Missing(o)' = Missing(o)
  BY <1>1 DEF Missing, Tracked
<1>3. Brings(o) = Sum(Missing(o)) /\ Brings(o)' = Sum(Missing(o)')
  BY DEF Brings, Missing
<1> QED
  BY <1>1, <1>2, <1>3

\* An order that was not received from lacks what was ordered.
LEMMA NothingReceived ==
  ASSUME Stocked, ProcurementTypeOK, ReceivedLast, NEW o \in Orders,
         orders[o].status \notin {"PARTIALLY_RECEIVED", "RECEIVED"}
  PROVE  /\ ~NamedTwice(o) /\ \A k \in ReceiptKeys : receipts[k].order # o
         /\ \A l \in OrderLines : Received(o, l) = 0
<1>1. \A k \in ReceiptKeys : receipts[k].order # o
  BY DEF ReceivedLast
<1>2. ASSUME NEW l \in OrderLines
      PROVE  Received(o, l) = 0
  <2>1. Parcels(o, l) = [k \in ReceiptKeys |-> 0]
    BY <1>1 DEF Parcels
  <2>2. Received(o, l) = SumFunctionOnSet(Parcels(o, l), ReceiptKeys)
    BY UnitsAreNumbers DEF UnitsTyped
  <2> QED
    BY <2>1, <2>2, SumZero DEF Stocked
<1> QED
  BY <1>1, <1>2 DEF NamedTwice

\* One order that has no receipts changes its status, or its lines while it is
\* not expected.
LEMMA OneOrderWritten ==
  ASSUME Stocked, PurchaseInv, UNCHANGED receipts, ProcurementTypeOK', NEW o \in Orders,
         orders[o].status \in {"DRAFT", "SUBMITTED", "CONFIRMED"},
         orders'[o].status \notin {"PARTIALLY_RECEIVED", "RECEIVED"},
         \A p \in Orders \ {o} : orders'[p] = orders[p],
         (\A p \in Orders : ~NamedTwice(p)) =>
           incoming' + (IF o \in Expected THEN Brings(o) ELSE 0) =
             incoming + (IF o \in Expected' THEN Brings(o)' ELSE 0)
  PROVE  PurchaseInv'
<1>1. SameReceipts
  BY ReceiptsKept
<1>2. /\ ~NamedTwice(o) /\ \A k \in ReceiptKeys : receipts[k].order # o
      /\ \A l \in OrderLines : Received(o, l) = 0
  BY NothingReceived DEF PurchaseInv
<1>3. UnitsTyped /\ UnitsTyped'
  BY UnitsAreNumbers, UnitsAreNumbersNext DEF PurchaseInv
<1>4. \A p \in Orders \ {o} : /\ Brings(p)' = Brings(p) /\ orders'[p] = orders[p]
                              /\ \A l \in OrderLines : Remaining(p, l)' = Remaining(p, l)
  BY <1>1, OrderKept
<1>5. ReceivedLast'
  BY <1>2 DEF PurchaseInv, ReceivedLast
<1>6. \A l \in OrderLines : Remaining(o, l)' >= 0
  BY <1>1, <1>2, <1>3 DEF UnitsTyped, SameReceipts
<1>7. ReceivedWithinOrder'
  BY <1>1, <1>4, <1>6 DEF PurchaseInv, ReceivedWithinOrder, SameReceipts
<1>8. ASSUME \A p \in Orders : ~NamedTwice(p)
      PROVE  incoming' = Outstanding'
  <2>1. incoming = Outstanding
    BY <1>8 DEF PurchaseInv, IncomingIsOutstanding, Outstanding
  <2>2. /\ Outstanding \in Nat /\ Outstanding' \in Nat
        /\ Outstanding' + (IF o \in Expected THEN Brings(o) ELSE 0) =
             Outstanding + (IF o \in Expected' THEN Brings(o)' ELSE 0)
    BY <1>4, OneOrderChanges DEF PurchaseInv
  <2>3. incoming' \in Nat /\ incoming \in Nat /\ Brings(o) \in Nat /\ Brings(o)' \in Nat
    BY <1>3 DEF PurchaseInv, ProcurementTypeOK, UnitsTyped
  <2> QED
    BY <1>8, <2>1, <2>2, <2>3
<1>9. ASSUME \A p \in Orders : ~NamedTwice(p), NEW p \in Orders
      PROVE  orders'[p].status = "RECEIVED" <=>
               /\ \E k \in ReceiptKeys : receipts'[k].order = p
               /\ \A l \in OrderLines : Remaining(p, l)' = 0
  <2>1. CASE p = o
    BY <1>2, <2>1
  <2>2. CASE p # o
    BY <1>4, <1>9, <2>2 DEF PurchaseInv, IncomingIsOutstanding
  <2> QED
    BY <2>1, <2>2
<1>10. (\A p \in Orders : ~NamedTwice(p)') => \A p \in Orders : ~NamedTwice(p)
  BY <1>1 DEF SameReceipts
<1>11. IncomingIsOutstanding'
  BY <1>8, <1>9, <1>10 DEF IncomingIsOutstanding, Outstanding
<1> QED
  BY <1>5, <1>7, <1>11 DEF PurchaseInv

LEMMA OrderStepKeeps ==
  ASSUME Stocked, PurchaseInv, NEW o \in Orders,
         \/ \E q \in [OrderLines -> Quantities] : ReplaceLines(o, q)
         \/ SubmitOrder(o) \/ BackToDraft(o) \/ Confirm(o) \/ Cancel(o)
  PROVE  PurchaseInv'
<1>1. ProcurementTypeOK /\ UnitsTyped
  BY UnitsAreNumbers DEF PurchaseInv
<1>2. orders \in [Orders -> [status : {"DRAFT", "SUBMITTED", "CONFIRMED", "CANCELLED",
                                      "PARTIALLY_RECEIVED", "RECEIVED"},
                            ordered : [OrderLines -> Quantities \cup {0}]]]
      /\ incoming \in Nat /\ onHand \in Nat /\ Brings(o) \in Nat
  BY <1>1 DEF ProcurementTypeOK, UnitsTyped
<1>3. ASSUME NEW q \in [OrderLines -> Quantities], ReplaceLines(o, q)
      PROVE  PurchaseInv'
  <2>1. /\ orders' = [orders EXCEPT ![o].ordered = q] /\ orders[o].status = "DRAFT"
        /\ UNCHANGED <<receipts, incoming, onHand>>
    BY <1>3 DEF ReplaceLines
  <2>2. ProcurementTypeOK'
    BY <1>1, <1>2, <2>1 DEF ProcurementTypeOK
  <2>3. o \notin Expected /\ o \notin Expected' /\ \A p \in Orders \ {o} : orders'[p] = orders[p]
    BY <1>2, <2>1 DEF Expected
  <2>4. orders'[o].status = "DRAFT"
    BY <1>2, <2>1
  <2> QED
    BY <1>2, <2>1, <2>2, <2>3, <2>4, OneOrderWritten
<1>4. ASSUME NEW s \in {"DRAFT", "SUBMITTED", "CONFIRMED", "CANCELLED"}, SetStatus(o, s),
             orders[o].status \in {"DRAFT", "SUBMITTED", "CONFIRMED"},
             UNCHANGED <<receipts, onHand>>, incoming' \in Nat,
             incoming' = (incoming + (IF s = "CONFIRMED" THEN Brings(o) ELSE 0))
                         - (IF orders[o].status = "CONFIRMED" THEN Brings(o) ELSE 0)
      PROVE  PurchaseInv'
  <2>1. orders' = [orders EXCEPT ![o].status = s]
    BY <1>4 DEF SetStatus
  <2>2. ProcurementTypeOK'
    BY <1>1, <1>2, <1>4, <2>1 DEF ProcurementTypeOK
  <2>3. /\ o \in Expected <=> orders[o].status = "CONFIRMED"
        /\ o \in Expected' <=> s = "CONFIRMED"
        /\ \A p \in Orders \ {o} : orders'[p] = orders[p]
        /\ orders'[o].status = s /\ orders'[o].ordered = orders[o].ordered
    BY <1>2, <1>4, <2>1 DEF Expected
  <2>4. Brings(o)' = Brings(o)
    BY <1>4, <2>3, ReceiptsKept, OrderKept
  <2>5. incoming' + (IF o \in Expected THEN Brings(o) ELSE 0) =
          incoming + (IF o \in Expected' THEN Brings(o)' ELSE 0)
    BY <1>2, <1>4, <2>3, <2>4
  <2> QED
    BY <1>4, <2>2, <2>3, <2>5, OneOrderWritten
<1>5. ASSUME SubmitOrder(o)
      PROVE  PurchaseInv'
  BY <1>2, <1>4, <1>5 DEF SubmitOrder
<1>6. ASSUME BackToDraft(o)
      PROVE  PurchaseInv'
  BY <1>2, <1>4, <1>6 DEF BackToDraft
<1>7. ASSUME Confirm(o)
      PROVE  PurchaseInv'
  BY <1>2, <1>4, <1>7 DEF Confirm
<1>8. ASSUME Cancel(o)
      PROVE  PurchaseInv'
  BY <1>2, <1>4, <1>8 DEF Cancel
<1> QED
  BY <1>3, <1>5, <1>6, <1>7, <1>8

(* A receipt. *)

\* Entries that name a line once each take no more of it than what it lacked.
LEMMA EntriesFit ==
  ASSUME Stocked, NEW entries \in Entries, NEW l \in OrderLines, NEW n \in Nat,
         \A i, j \in DOMAIN entries : i # j => entries[i].line # entries[j].line,
         \A i \in DOMAIN entries : entries[i].line = l => Amount(entries[i]) <= n
  PROVE  Taken(entries, l) <= n
<1> DEFINE f == AmountsOf(entries, l)
           D == DOMAIN entries
<1>1. IsFiniteSet(D) /\ Taken(entries, l) = SumFunctionOnSet(f, D) /\ \A i \in D : f[i] \in Nat
  BY Amounts
<1>2. CASE \E i \in D : entries[i].line = l
  <2>1. PICK i \in D : entries[i].line = l
    BY <1>2
  <2>2. f[i] <= n /\ \A j \in D \ {i} : f[j] = 0
    BY <2>1 DEF AmountsOf
  <2> HIDE DEF f, D
  <2>3. SumFunctionOnSet(f, D) = f[i]
    BY <1>1, <2>1, <2>2, SumOne
  <2> QED
    BY <1>1, <2>2, <2>3
<1>3. CASE \A i \in D : entries[i].line # l
  <2>1. f = [i \in D |-> 0]
    BY <1>3 DEF AmountsOf
  <2> HIDE DEF f, D
  <2> QED
    BY <1>1, <2>1, SumZero
<1> QED
  BY <1>2, <1>3

\* The tracked units of a receipt are those it takes of the tracked lines.
TakenOf(entries) == [l \in Tracked |-> Taken(entries, l)]
Units(entries) ==
  Sum([i \in DOMAIN entries |-> IF entries[i].line \in Tracked THEN Amount(entries[i]) ELSE 0])

LEMMA UnitsOfLines ==
  ASSUME Stocked, NEW entries \in Entries
  PROVE  Units(entries) \in Nat /\ Units(entries) = SumFunctionOnSet(TakenOf(entries), Tracked)
<1> DEFINE D == DOMAIN entries
           f == [i \in D |-> Amount(entries[i])]
           c == [i \in D |-> entries[i].line]
           g == [i \in D |-> IF entries[i].line \in Tracked THEN Amount(entries[i]) ELSE 0]
           h == [l \in Tracked |-> SumFunctionOnSet([i \in D |-> IF c[i] = l THEN f[i] ELSE 0], D)]
<1>1. IsFiniteSet(D) /\ \A i \in D : f[i] \in Nat /\ g[i] \in Nat
  BY Amounts
<1>2. IsFiniteSet(Tracked)
  BY FS_Subset DEF Stocked, Tracked
<1>3. \A i \in D : g[i] = IF c[i] \in Tracked THEN f[i] ELSE 0
  OBVIOUS
<1>4. Units(entries) = SumFunctionOnSet(g, D)
  BY DEF Units, Sum
<1>5. h = TakenOf(entries)
  <2>1. \A l : [i \in D |-> IF c[i] = l THEN f[i] ELSE 0] = AmountsOf(entries, l)
    BY DEF AmountsOf
  <2>2. \A l : Taken(entries, l) = SumFunctionOnSet(AmountsOf(entries, l), D)
    BY Amounts
  <2> HIDE DEF f, c, D
  <2> QED
    BY <2>1, <2>2 DEF TakenOf
<1>6. SumFunctionOnSet(g, D) = SumFunctionOnSet(h, Tracked)
  <2> HIDE DEF f, c, D, g
  <2> QED
    BY <1>1, <1>2, <1>3, SumOfGroups
<1>7. SumFunctionOnSet(g, D) \in Nat
  <2> HIDE DEF f, c, D, g
  <2> QED
    BY <1>1, SumNat
<1> QED
  BY <1>4, <1>5, <1>6, <1>7

OnceEach(entries) == \A i, j \in DOMAIN entries : i # j => entries[i].line # entries[j].line

LEMMA ReceiptAdded ==
  ASSUME Stocked, ProcurementTypeOK, NEW k \in ReceiptKeys, NEW o \in Orders,
         NEW entries \in Entries, receipts[k] = NoReceipt,
         receipts' = [receipts EXCEPT ![k] = [order |-> o, entries |-> entries]]
  PROVE  /\ \A p \in Orders : NamedTwice(p) => NamedTwice(p)'
         /\ ~NamedTwice(o)' => OnceEach(entries)
         /\ \E j \in ReceiptKeys : receipts'[j].order = o
         /\ \A p \in Orders \ {o} :
              /\ NamedTwice(p)' <=> NamedTwice(p)
              /\ HasReceipt(p)' <=> HasReceipt(p)
              /\ \A l \in OrderLines : Received(p, l)' = Received(p, l)
<1>1. /\ receipts'[k] = [order |-> o, entries |-> entries]
      /\ \A j \in ReceiptKeys \ {k} : receipts'[j] = receipts[j]
      /\ receipts[k].order \notin Orders
  BY DEF ProcurementTypeOK, NoReceipt, Stocked
<1>2. \A p \in Orders : NamedTwice(p) => NamedTwice(p)'
  BY <1>1 DEF NamedTwice
<1>3. ~NamedTwice(o)' => OnceEach(entries)
  BY <1>1 DEF NamedTwice, OnceEach
<1>4. ASSUME NEW p \in Orders \ {o}
      PROVE  /\ NamedTwice(p)' <=> NamedTwice(p)
             /\ HasReceipt(p)' <=> HasReceipt(p)
             /\ \A l \in OrderLines : Received(p, l)' = Received(p, l)
  <2>1. \A j \in ReceiptKeys : receipts'[j].order = p <=> receipts[j].order = p
    BY <1>1
  <2>2. \A j \in ReceiptKeys : receipts[j].order = p => receipts'[j] = receipts[j]
    BY <1>1
  <2>3. NamedTwice(p)' <=> NamedTwice(p)
    BY <2>1, <2>2 DEF NamedTwice
  <2>4. \A l : Parcels(p, l)' = Parcels(p, l)
    BY <2>1, <2>2 DEF Parcels
  <2>5. \A l \in OrderLines : /\ Received(p, l) = Sum(Parcels(p, l))
                              /\ Received(p, l)' = Sum(Parcels(p, l)')
    BY DEF Received, Parcels
  <2>6. HasReceipt(p)' <=> HasReceipt(p)
    BY <2>1 DEF HasReceipt
  <2> QED
    BY <2>3, <2>4, <2>5, <2>6
<1> QED
  BY <1>1, <1>2, <1>3, <1>4

LEMMA LineReceived ==
  ASSUME Stocked, ProcurementTypeOK, ProcurementTypeOK', NEW k \in ReceiptKeys, NEW o \in Orders,
         NEW entries \in Entries, NEW l \in OrderLines, receipts[k] = NoReceipt,
         receipts' = [receipts EXCEPT ![k] = [order |-> o, entries |-> entries]]
  PROVE  Received(o, l)' = Received(o, l) + Taken(entries, l)
<1> DEFINE f == Parcels(o, l)
           g == Parcels(o, l)'
<1>1. /\ receipts'[k] = [order |-> o, entries |-> entries]
      /\ \A j \in ReceiptKeys \ {k} : receipts'[j] = receipts[j]
      /\ receipts[k].order # o
  BY DEF ProcurementTypeOK, NoReceipt, Stocked
<1>2. f[k] = 0 /\ g[k] = Taken(entries, l) /\ \A j \in ReceiptKeys \ {k} : g[j] = f[j]
  BY <1>1 DEF Parcels
<1>3. /\ \A j \in ReceiptKeys : f[j] \in Nat /\ g[j] \in Nat
      /\ Received(o, l) = SumFunctionOnSet(f, ReceiptKeys)
      /\ Received(o, l)' = SumFunctionOnSet(g, ReceiptKeys)
  BY UnitsAreNumbers, UnitsAreNumbersNext DEF UnitsTyped
<1> HIDE DEF f, g
<1>4. /\ SumFunctionOnSet(f, ReceiptKeys) \in Nat /\ SumFunctionOnSet(g, ReceiptKeys) \in Nat
      /\ SumFunctionOnSet(g, ReceiptKeys) + f[k] = SumFunctionOnSet(f, ReceiptKeys) + g[k]
  BY <1>2, <1>3, SumChange DEF Stocked
<1> QED
  BY <1>2, <1>3, <1>4

\* What an order brings, less what a receipt took of its lines.
LEMMA BringsLess ==
  ASSUME Stocked, ProcurementTypeOK, ProcurementTypeOK', NEW o \in Orders, NEW entries \in Entries,
         \A l \in OrderLines : /\ Remaining(o, l)' = Remaining(o, l) - Taken(entries, l)
                               /\ Taken(entries, l) <= Remaining(o, l)
  PROVE  Brings(o) = Brings(o)' + Units(entries)
<1> DEFINE f == Missing(o)'
           g == TakenOf(entries)
           h == Missing(o)
<1>1. \A l \in OrderLines : /\ Remaining(o, l) \in Int /\ Remaining(o, l)' \in Int
                            /\ Taken(entries, l) \in Nat
  BY UnitsAreNumbers, UnitsAreNumbersNext, Amounts DEF UnitsTyped
<1>2. IsFiniteSet(Tracked) /\ Tracked \subseteq OrderLines
  BY FS_Subset DEF Stocked, Tracked
<1>3. \A l \in Tracked : f[l] \in Nat /\ g[l] \in Nat /\ h[l] = f[l] + g[l]
  <2> SUFFICES ASSUME NEW l \in Tracked
               PROVE  f[l] \in Nat /\ g[l] \in Nat /\ h[l] = f[l] + g[l]
    OBVIOUS
  <2>1. /\ f[l] = IF Remaining(o, l)' > 0 THEN Remaining(o, l)' ELSE 0
        /\ g[l] = Taken(entries, l)
        /\ h[l] = IF Remaining(o, l) > 0 THEN Remaining(o, l) ELSE 0
    BY DEF Missing, TakenOf
  <2> HIDE DEF f, g, h
  <2> QED
    BY <1>1, <1>2, <2>1
<1>4. Brings(o)' = SumFunctionOnSet(f, Tracked) /\ Brings(o) = SumFunctionOnSet(h, Tracked)
  BY DEF Brings, Sum, Missing, Tracked
<1>5. Units(entries) = SumFunctionOnSet(g, Tracked)
  BY UnitsOfLines
<1> HIDE DEF f, g, h
<1> QED
  BY <1>2, <1>3, <1>4, <1>5, SumPlus

LEMMA ReceiveGoodsKeeps ==
  ASSUME Stocked, PurchaseInv, NEW k \in ReceiptKeys, NEW o \in Orders, NEW entries \in Entries,
         ReceiveGoods(k, o, entries)
  PROVE  PurchaseInv'
<1>1. /\ receipts[k] = NoReceipt
      /\ orders[o].status \in {"CONFIRMED", "PARTIALLY_RECEIVED", "RECEIVED"}
      /\ \A i \in DOMAIN entries : Fits(o, entries[i])
      /\ receipts' = [receipts EXCEPT ![k] = [order |-> o, entries |-> entries]]
      /\ orders' = [orders EXCEPT ![o].status = StatusAfter(o, entries)]
  BY DEF ReceiveGoods, SetStatus
<1>2. incoming >= Units(entries) /\ incoming' = incoming - Units(entries)
  BY DEF ReceiveGoods, Units, Amount
<1>3. onHand' \in Nat
  <2> DEFINE D == DOMAIN entries
             f == [i \in D |-> IF entries[i].line \in Tracked THEN entries[i].accepted ELSE 0]
  <2>1. IsFiniteSet(D) /\ \A i \in D : f[i] \in Nat
    BY Amounts
  <2>2. onHand' = onHand + SumFunctionOnSet(f, D)
    BY DEF ReceiveGoods, Sum
  <2> HIDE DEF D, f
  <2>3. SumFunctionOnSet(f, D) \in Nat
    BY <2>1, SumNat
  <2> QED
    BY <2>2, <2>3 DEF PurchaseInv, ProcurementTypeOK
<1>4. ProcurementTypeOK /\ UnitsTyped /\ Units(entries) \in Nat
  BY UnitsAreNumbers, UnitsOfLines DEF PurchaseInv
<1>5. orders \in [Orders -> [status : {"DRAFT", "SUBMITTED", "CONFIRMED", "CANCELLED",
                                      "PARTIALLY_RECEIVED", "RECEIVED"},
                            ordered : [OrderLines -> Quantities \cup {0}]]]
      /\ incoming \in Nat /\ StatusAfter(o, entries) \in {"PARTIALLY_RECEIVED", "RECEIVED"}
  BY <1>4 DEF ProcurementTypeOK, StatusAfter
<1>6. ProcurementTypeOK'
  <2>1. receipts' \in [ReceiptKeys -> [order : Orders, entries : Entries] \cup {NoReceipt}]
    BY <1>1, <1>4 DEF ProcurementTypeOK
  <2>2. incoming' \in Nat
    BY <1>2, <1>4, <1>5
  <2> QED
    BY <1>1, <1>3, <1>5, <2>1, <2>2 DEF ProcurementTypeOK
<1>7. UnitsTyped'
  BY <1>6, UnitsAreNumbersNext
<1>8. /\ \A p \in Orders \ {o} : orders'[p] = orders[p]
      /\ orders'[o].status = StatusAfter(o, entries) /\ orders'[o].ordered = orders[o].ordered
  BY <1>1, <1>5
<1>9. /\ \A p \in Orders : NamedTwice(p) => NamedTwice(p)'
      /\ ~NamedTwice(o)' => OnceEach(entries)
      /\ \E j \in ReceiptKeys : receipts'[j].order = o
      /\ \A p \in Orders \ {o} :
           /\ NamedTwice(p)' <=> NamedTwice(p)
           /\ HasReceipt(p)' <=> HasReceipt(p)
           /\ \A l \in OrderLines : Received(p, l)' = Received(p, l)
  BY <1>1, <1>4, ReceiptAdded
<1>10. ASSUME NEW p \in Orders \ {o}
       PROVE  Brings(p)' = Brings(p) /\ \A l \in OrderLines : Remaining(p, l)' = Remaining(p, l)
  <2>1. \A l \in OrderLines : Remaining(p, l)' = Remaining(p, l)
    BY <1>8, <1>9 DEF Remaining
  <2>2. Missing(p)' = Missing(p)
    BY <2>1 DEF Missing, Tracked
  <2>3. Brings(p) = Sum(Missing(p)) /\ Brings(p)' = Sum(Missing(p)')
    BY DEF Brings, Missing
  <2> QED
    BY <2>1, <2>2, <2>3
<1>11. \A l \in OrderLines :
         /\ Remaining(o, l) \in Int /\ Taken(entries, l) \in Nat
         /\ Remaining(o, l)' = Remaining(o, l) - Taken(entries, l)
  <2> SUFFICES ASSUME NEW l \in OrderLines
               PROVE  /\ Remaining(o, l) \in Int /\ Taken(entries, l) \in Nat
                      /\ Remaining(o, l)' = Remaining(o, l) - Taken(entries, l)
    OBVIOUS
  <2>1. Received(o, l)' = Received(o, l) + Taken(entries, l)
    BY <1>1, <1>4, <1>6, LineReceived
  <2>2. /\ Remaining(o, l) \in Int /\ Received(o, l) \in Nat /\ orders[o].ordered[l] \in Nat
        /\ Remaining(o, l) = orders[o].ordered[l] - Received(o, l)
        /\ Remaining(o, l)' = orders'[o].ordered[l] - Received(o, l)'
    BY <1>4, <1>7 DEF UnitsTyped
  <2>3. Taken(entries, l) \in Nat
    BY Amounts
  <2> QED
    BY <1>8, <2>1, <2>2, <2>3
<1>12. ASSUME ~NamedTwice(o)'
       PROVE  \A l \in OrderLines : Taken(entries, l) <= Remaining(o, l) /\ Remaining(o, l)' >= 0
  <2> SUFFICES ASSUME NEW l \in OrderLines
               PROVE  Taken(entries, l) <= Remaining(o, l) /\ Remaining(o, l)' >= 0
    OBVIOUS
  <2>1. Remaining(o, l) \in Nat
    BY <1>9, <1>11, <1>12 DEF PurchaseInv, ReceivedWithinOrder
  <2>2. \A i \in DOMAIN entries : entries[i].line = l => Amount(entries[i]) <= Remaining(o, l)
    BY <1>1 DEF Fits, Amount
  <2>3. PICK n \in Nat : n = Remaining(o, l)
    BY <2>1
  <2>4. Taken(entries, l) <= n
    BY <1>9, <1>12, <2>2, <2>3, EntriesFit DEF OnceEach
  <2> QED
    BY <1>11, <2>3, <2>4
<1>13. ReceivedWithinOrder'
  BY <1>9, <1>10, <1>12 DEF PurchaseInv, ReceivedWithinOrder
<1>14. ReceivedLast'
  BY <1>1, <1>4, <1>5, <1>8 DEF PurchaseInv, ReceivedLast, ProcurementTypeOK
<1>15. ASSUME \A p \in Orders : ~NamedTwice(p)'
       PROVE  /\ \A p \in Orders : ~NamedTwice(p)
              /\ StatusAfter(o, entries) = "RECEIVED" <=> \A l \in OrderLines : Remaining(o, l)' = 0
              /\ Brings(o) = Brings(o)' + Units(entries)
              /\ orders[o].status = "RECEIVED" => \A l \in OrderLines : Remaining(o, l) = 0
  <2>1. \A p \in Orders : ~NamedTwice(p)
    BY <1>9, <1>15
  <2>2. StatusAfter(o, entries) = "RECEIVED" <=> \A l \in OrderLines : Remaining(o, l)' = 0
    BY <1>11, <1>12, <1>15 DEF StatusAfter
  <2>3. Brings(o) = Brings(o)' + Units(entries)
    BY <1>4, <1>6, <1>11, <1>12, <1>15, BringsLess
  <2> QED
    BY <2>1, <2>2, <2>3 DEF PurchaseInv, IncomingIsOutstanding
<1>16. ASSUME \A p \in Orders : ~NamedTwice(p)'
       PROVE  incoming' = Outstanding'
  <2>1. incoming = Outstanding
    BY <1>15, <1>16 DEF PurchaseInv, IncomingIsOutstanding, Outstanding
  <2>2. /\ Outstanding \in Nat /\ Outstanding' \in Nat
        /\ Outstanding' + (IF o \in Expected THEN Brings(o) ELSE 0) =
             Outstanding + (IF o \in Expected' THEN Brings(o)' ELSE 0)
    BY <1>4, <1>6, <1>8, <1>10, OneOrderChanges
  <2>3. Brings(o) \in Nat /\ Brings(o)' \in Nat
    BY <1>4, <1>7 DEF UnitsTyped
  <2>4. /\ o \in Expected <=> orders[o].status # "RECEIVED"
        /\ o \in Expected' <=> StatusAfter(o, entries) # "RECEIVED"
    BY <1>1, <1>5, <1>8 DEF Expected
  <2>5. (\A l \in OrderLines : Remaining(o, l) = 0) => Brings(o) = 0
    <3> SUFFICES ASSUME \A l \in OrderLines : Remaining(o, l) = 0
                 PROVE  Brings(o) = 0
      OBVIOUS
    <3>1. Missing(o) = [l \in Tracked |-> 0]
      BY DEF Missing, Tracked
    <3>2. Brings(o) = SumFunctionOnSet(Missing(o), Tracked)
      BY DEF Brings, Sum, Missing
    <3> QED
      BY <3>1, <3>2, SumZero, FS_Subset DEF Stocked, Tracked
  <2>6. (\A l \in OrderLines : Remaining(o, l)' = 0) => Brings(o)' = 0
    <3> SUFFICES ASSUME \A l \in OrderLines : Remaining(o, l)' = 0
                 PROVE  Brings(o)' = 0
      OBVIOUS
    <3>1. Missing(o)' = [l \in Tracked |-> 0]
      BY DEF Missing, Tracked
    <3>2. Brings(o)' = SumFunctionOnSet(Missing(o)', Tracked)
      BY DEF Brings, Sum, Missing, Tracked
    <3> QED
      BY <3>1, <3>2, SumZero, FS_Subset DEF Stocked, Tracked
  <2> QED
    BY <1>2, <1>4, <1>5, <1>15, <1>16, <2>1, <2>2, <2>3, <2>4, <2>5, <2>6
<1>17. ASSUME \A p \in Orders : ~NamedTwice(p)', NEW p \in Orders
       PROVE  orders'[p].status = "RECEIVED" <=>
                /\ \E j \in ReceiptKeys : receipts'[j].order = p
                /\ \A l \in OrderLines : Remaining(p, l)' = 0
  <2>1. CASE p = o
    BY <1>8, <1>9, <1>15, <1>17, <2>1
  <2>2. CASE p # o
    <3>1. orders[p].status = "RECEIVED" <=>
            HasReceipt(p) /\ \A l \in OrderLines : Remaining(p, l) = 0
      BY <1>15, <1>17 DEF PurchaseInv, IncomingIsOutstanding, HasReceipt
    <3>2. HasReceipt(p)' <=> \E j \in ReceiptKeys : receipts'[j].order = p
      BY DEF HasReceipt
    <3> QED
      BY <1>8, <1>9, <1>10, <2>2, <3>1, <3>2
  <2> QED
    BY <2>1, <2>2
<1>18. IncomingIsOutstanding'
  BY <1>16, <1>17 DEF IncomingIsOutstanding, Outstanding
<1> QED
  BY <1>6, <1>13, <1>14, <1>18 DEF PurchaseInv

LEMMA InitPurchases == Stocked /\ ProcurementInit => PurchaseInv
<1> SUFFICES ASSUME Stocked, ProcurementInit
             PROVE  PurchaseInv
  OBVIOUS
<1>1. ProcurementTypeOK
  BY DEF ProcurementInit, ProcurementTypeOK, NoUnits
<1>2. ReceivedLast /\ \A o \in Orders : orders[o].status = "DRAFT"
  BY DEF ProcurementInit, NoReceipt, Stocked, ReceivedLast
<1>3. \A o \in Orders : /\ ~NamedTwice(o) /\ \A k \in ReceiptKeys : receipts[k].order # o
                        /\ \A l \in OrderLines : Received(o, l) = 0
  BY <1>1, <1>2, NothingReceived
<1>4. ReceivedWithinOrder
  <2>1. UnitsTyped
    BY <1>1, UnitsAreNumbers
  <2> QED
    BY <1>3, <2>1 DEF ReceivedWithinOrder, UnitsTyped
<1>5. incoming = Outstanding
  <2>1. Expected = {}
    BY <1>2 DEF Expected
  <2> QED
    BY <2>1, SumEmpty DEF ProcurementInit, Outstanding, Sum
<1>6. IncomingIsOutstanding
  BY <1>2, <1>3, <1>5 DEF IncomingIsOutstanding, Outstanding
<1> QED
  BY <1>1, <1>2, <1>4, <1>6 DEF PurchaseInv

LEMMA NextPurchases ==
  ASSUME Stocked, PurchaseInv, [ProcurementNext]_procurementVars
  PROVE  PurchaseInv'
<1>1. ASSUME UNCHANGED procurementVars
      PROVE  PurchaseInv'
  <2>1. UNCHANGED <<orders, receipts, incoming>> /\ SameReceipts /\ ProcurementTypeOK'
    BY <1>1, ReceiptsKept DEF procurementVars, PurchaseInv, ProcurementTypeOK
  <2>2. \A o \in Orders : /\ Brings(o)' = Brings(o)
                          /\ \A l \in OrderLines : Remaining(o, l)' = Remaining(o, l)
    BY <2>1, OrderKept
  <2>3. ReceivedLast' /\ ReceivedWithinOrder'
    BY <2>1, <2>2 DEF PurchaseInv, ReceivedLast, ReceivedWithinOrder, SameReceipts
  <2>4. Expected' = Expected /\ Expected \subseteq Orders
    BY <2>1 DEF Expected
  <2>5. Outstanding' = Outstanding
    BY <2>2, <2>4 DEF Outstanding
  <2>6. IncomingIsOutstanding'
    BY <2>1, <2>2, <2>5 DEF PurchaseInv, IncomingIsOutstanding, SameReceipts, Outstanding
  <2> QED
    BY <2>1, <2>3, <2>6 DEF PurchaseInv
<1>2. ASSUME NEW o \in Orders, NEW q \in [OrderLines -> Quantities], ReplaceLines(o, q)
      PROVE  PurchaseInv'
  BY <1>2, OrderStepKeeps
<1>3. ASSUME NEW o \in Orders, SubmitOrder(o) \/ BackToDraft(o) \/ Confirm(o) \/ Cancel(o)
      PROVE  PurchaseInv'
  BY <1>3, OrderStepKeeps
<1>4. ASSUME NEW k \in ReceiptKeys, NEW o \in Orders, NEW e \in Entries, ReceiveGoods(k, o, e)
      PROVE  PurchaseInv'
  BY <1>4, ReceiveGoodsKeeps
<1> QED
  BY <1>1, <1>2, <1>3, <1>4 DEF ProcurementNext

(* Purchases never bring more of a line than it ordered, and the units on   *)
(* their way are those the orders still bring, whoever orders, cancels and  *)
(* receives in between, unless one receipt names a line twice               *)
(* (ProcurementService).                                                    *)
THEOREM PurchasesInvariant ==
  ASSUME Stocked
  PROVE  ProcurementSpec => []PurchaseInv
BY InitPurchases, NextPurchases, PTL DEF ProcurementSpec

THEOREM PurchasesAddUp ==
  ASSUME Stocked
  PROVE  ProcurementSpec => [](ReceivedWithinOrder /\ IncomingIsOutstanding)
<1>1. PurchaseInv => ReceivedWithinOrder /\ IncomingIsOutstanding
  BY DEF PurchaseInv
<1> QED
  BY <1>1, PurchasesInvariant, PTL

------------------------------------------------------------------------------
(* Types, and the bound of the faults among them.                          *)
MediaMoves ==
  \/ UNCHANGED <<quarantine, unsure, faults>>
  \/ \E u \in Uploads, content \in {"empty", "valid", "invalid"} :
       quarantine' = [quarantine EXCEPT ![u] = content] /\ UNCHANGED <<unsure, faults>>
  \/ \E u \in Uploads : unsure' \in {unsure, unsure \cup {u}} /\ Fault /\ UNCHANGED quarantine
  \/ Fault /\ UNCHANGED <<quarantine, unsure>>

LEMMA StepsOfMedia ==
  ASSUME MediaInv, [MediaNext]_mediaVars
  PROVE  MediaMoves
<1>1. ASSUME NEW c \in Calls, Step(c)
      PROVE  MediaMoves
  <2>1. calls[c].at # "idle" => Of(c) \in Uploads
    BY DEF MediaInv, MediaTypes, Of
  <2>2. CASE InspectInvalid(c) \/ DeleteQuarantine(c)
    BY <2>1, <2>2 DEF InspectInvalid, DeleteQuarantine, Here, MediaMoves
  <2>3. CASE CreateAssetAnswerLost(c)
    BY <2>1, <2>3 DEF CreateAssetAnswerLost, Here, MediaMoves
  <2>4. CASE StepFails(c) \/ ProcessDies(c)
    BY <2>4 DEF StepFails, ProcessDies, MediaMoves
  <2>5. CASE InspectMissing(c) \/ InspectValid(c) \/ (\E x \in Objects : PutTrusted(c, x)) \/ CreateAsset(c)
             \/ Audit(c) \/ MarkCompleted(c) \/ TakeBack(c) \/ Fails(c)
    BY <2>5 DEF InspectMissing, InspectValid, PutTrusted, CreateAsset, Audit, MarkCompleted, TakeBack,
                Fails, MediaMoves
  <2> QED BY <1>1, <2>2, <2>3, <2>4, <2>5 DEF Step
<1>2. ASSUME NEW u \in Uploads, NEW content \in {"valid", "invalid"}, PutObject(u, content)
      PROVE  MediaMoves
  BY <1>2 DEF PutObject, MediaMoves
<1>3. ASSUME NEW u \in Uploads, NEW kept \in SUBSET Objects, DeleteAsset(u, kept)
      PROVE  MediaMoves
  BY <1>3 DEF DeleteAsset, MediaMoves
<1> QED
  BY <1>1, <1>2, <1>3 DEF MediaNext, mediaVars, CreateIntent, IntentExpires, BeginCompletion, MediaMoves

LEMMA InitMediaTypes ==
  ASSUME MaxFaults \in Nat, MediaInit
  PROVE  MediaTypeOK
BY DEF MediaInit, NoCall, MediaTypeOK

LEMMA NextMediaTypes ==
  ASSUME MaxFaults \in Nat, MediaInv, MediaInv', MediaTypeOK, [MediaNext]_mediaVars
  PROVE  MediaTypeOK'
<1>1. MediaTypes'
  BY DEF MediaInv
<1>2. quarantine' \in [Uploads -> {"empty", "valid", "invalid"}] /\ unsure' \subseteq Uploads
      /\ faults' \in 0..MaxFaults
  BY StepsOfMedia DEF MediaMoves, MediaTypeOK, Fault
<1> QED BY <1>1, <1>2 DEF MediaTypes, Phases, MediaTypeOK

-----------------------------------------------------------------------------
\* Only the checks of archivings and of publications can become stale.
ProductsTyped ==
  /\ ProductsTypeOK
  /\ \A e \in Edits : edits[e].stale => edits[e].kind \in {"variant", "transition"}

LEMMA InitProductsTyped ==
  ASSUME ProductsInit
  PROVE  ProductsTyped
BY DEF ProductsInit, NoVariant, NoEdit, ProductsTypeOK, ProductsTyped

LEMMA NextProductsTyped ==
  ASSUME Named, ProductInv, ProductInv', ProductsTyped, [ProductsNext]_productVars
  PROVE  ProductsTyped'
<1>1. /\ variants' \in [Variants -> VariantRow] /\ default' \in Variants \cup {None}
      /\ retired' \in BOOLEAN /\ edits \in [Edits -> EditRow]
  BY DEF ProductInv, ProductTypes
<1>2. status' \in {"DRAFT", "PUBLISHED", "ARCHIVED"}
  <2>1. ASSUME NEW e \in Edits, TransitionProduct(e)
        PROVE  status' \in {status, "PUBLISHED", "ARCHIVED"}
    <3>1. edits[e].to \in {"PUBLISHED", "ARCHIVED"}
      BY <1>1, <2>1 DEF TransitionProduct, ProductInv, ProductTypes, EditRow
    <3> QED BY <2>1, <3>1 DEF TransitionProduct, RolledBack
  <2>2. status' \in {status, "PUBLISHED", "ARCHIVED"}
    BY <2>1 DEF ProductsNext, productVars, CreateVariant, AssignCategory, CheckVariantStatus,
       CheckDefault, CheckTransition, CheckUnassign, Check, UpdateVariantStatus, SetDefaultVariant,
       UnassignCategory, RolledBack
  <2> QED BY <2>2 DEF ProductsTyped, ProductsTypeOK
<1>3. members' \subseteq Categories /\ primary' \in Categories \cup {None}
  BY DEF ProductsNext, productVars, CreateVariant, AssignCategory, CheckVariantStatus,
     CheckDefault, CheckTransition, CheckUnassign, Check, UpdateVariantStatus, SetDefaultVariant,
     TransitionProduct, UnassignCategory, RolledBack, ProductsTyped, ProductsTypeOK
<1>4. /\ overtaken' \subseteq {"variant", "transition"}
      /\ \A e \in Edits : edits'[e].stale => edits'[e].kind \in {"variant", "transition"}
  <2> DEFINE Kept == /\ overtaken' \subseteq {"variant", "transition"}
                     /\ \A e \in Edits : edits'[e].stale => edits'[e].kind \in {"variant", "transition"}
  <2>1. ASSUME NEW e \in Edits, NEW S, Over(e, S),
               \A f \in S : edits[f].kind \in {"variant", "transition"}
        PROVE  Kept
    BY <1>1, <2>1 DEF Over, NoEdit, EditRow, ProductsTyped, ProductsTypeOK
  <2>2. ASSUME NEW e \in Edits, NEW kind, NEW id, NEW to, Check(e, kind, id, to) \/ RolledBack(e)
        PROVE  Kept
    <3>1. PICK m : m.stale = FALSE /\ edits' = [edits EXCEPT ![e] = m]
      BY <2>2 DEF Check, RolledBack, NoEdit
    <3>2. UNCHANGED overtaken
      BY <2>2 DEF Check, RolledBack
    <3> QED BY <1>1, <3>1, <3>2 DEF ProductsTyped, ProductsTypeOK
  <2>3. ASSUME UNCHANGED <<edits, overtaken>>
        PROVE  Kept
    BY <2>3 DEF ProductsTyped, ProductsTypeOK
  <2>4. ASSUME NEW e \in Edits, \/ UpdateVariantStatus(e) \/ SetDefaultVariant(e)
                                \/ TransitionProduct(e) \/ UnassignCategory(e)
        PROVE  Kept
    BY <2>1, <2>2, <2>4 DEF UpdateVariantStatus, SetDefaultVariant, TransitionProduct, UnassignCategory
  <2> HIDE DEF Kept
  <2>5. Kept
    BY <2>2, <2>3, <2>4 DEF ProductsNext, productVars, CreateVariant, AssignCategory,
       CheckVariantStatus, CheckDefault, CheckTransition, CheckUnassign
  <2> QED BY <2>5 DEF Kept
<1> QED BY <1>1, <1>2, <1>3, <1>4 DEF VariantRow, ProductsTyped, ProductsTypeOK
==============================================================================
