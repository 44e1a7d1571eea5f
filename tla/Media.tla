------------------------------- MODULE Media --------------------------------
(***************************************************************************)
(* Uploads of media (MediaService): an intent in Redis, an object the      *)
(* browser puts into quarantine, and calls of completeUpload that claim    *)
(* the intent, check the object, store the processed objects, create the   *)
(* row and clean up.  No transaction spans these stores: every line of a   *)
(* call is a step, any of them may fail or be the last of its process, and *)
(* the answer to the insert of the row may be lost.                        *)
(***************************************************************************)
EXTENDS Naturals, FiniteSets

CONSTANTS
  Uploads,     \* upload intents
  Calls,       \* calls of completeUpload
  Objects,     \* objects an asset consists of: the original and derivatives
  MaxFaults    \* bound of the model: failures of stores and processes

VARIABLES
  intents,     \* intents in Redis, with their time to live
  quarantine,  \* uploads whose object lies in quarantine, and whether it is valid
  stored,      \* trusted objects, by upload
  assets,      \* rows of media_asset: absent, present or deleted
  unsure,      \* uploads whose insert succeeded with its answer lost
  calls,       \* calls under way
  faults

mediaVars == <<intents, quarantine, stored, assets, unsure, calls, faults>>

NoCall == [at |-> "idle", upload |-> "none", left |-> {}]

MediaInit ==
  /\ intents = [u \in Uploads |-> "absent"]
  /\ quarantine = [u \in Uploads |-> "empty"]
  /\ stored = [u \in Uploads |-> {}]
  /\ assets = [u \in Uploads |-> "absent"]
  /\ unsure = {}
  /\ calls = [c \in Calls |-> NoCall]
  /\ faults = 0

Goes(c, at)  == calls' = [calls EXCEPT ![c].at = at]
Ends(c)      == calls' = [calls EXCEPT ![c] = NoCall]
Here(c, at)  == calls[c].at = at
Of(c)        == calls[c].upload
Fault        == faults < MaxFaults /\ faults' = faults + 1

-----------------------------------------------------------------------------
(* createUploadIntent, the browser's upload and the intent's expiry.       *)
CreateIntent(u) ==
  /\ intents[u] = "absent"
  /\ intents' = [intents EXCEPT ![u] = "PENDING"]
  /\ UNCHANGED <<quarantine, stored, assets, unsure, calls, faults>>

PutObject(u, content) ==
  /\ intents[u] # "absent" /\ quarantine[u] = "empty"
  /\ quarantine' = [quarantine EXCEPT ![u] = content]
  /\ UNCHANGED <<intents, stored, assets, unsure, calls, faults>>

IntentExpires(u) ==
  /\ intents[u] \in {"PENDING", "PROCESSING", "COMPLETED"}
  /\ intents' = [intents EXCEPT ![u] = "expired"]
  /\ UNCHANGED <<quarantine, stored, assets, unsure, calls, faults>>

-----------------------------------------------------------------------------
(* beginCompletion: one script claims a pending intent.                    *)
Claimable(u) == intents[u] = "PENDING"

BeginCompletion(c, u) ==
  /\ Here(c, "idle") /\ intents[u] \in {"PENDING", "PROCESSING"}
  /\ IF Claimable(u)
     THEN /\ intents' = [intents EXCEPT ![u] = "PROCESSING"]
          /\ calls' = [calls EXCEPT ![c] = [at |-> "inspect", upload |-> u, left |-> Objects]]
     ELSE /\ assets[u] = "present"
          /\ calls' = [calls EXCEPT ![c] = [at |-> "audit", upload |-> u, left |-> {}]]
          /\ UNCHANGED intents
  /\ UNCHANGED <<quarantine, stored, assets, unsure, faults>>

(* A missing object fails the call and leaves the intent claimed; a wrong  *)
(* one is deleted.                                                         *)
InspectMissing(c) ==
  /\ Here(c, "inspect") /\ quarantine[Of(c)] = "empty" /\ Ends(c)
  /\ UNCHANGED <<intents, quarantine, stored, assets, unsure, faults>>

InspectInvalid(c) ==
  /\ Here(c, "inspect") /\ quarantine[Of(c)] = "invalid" /\ Ends(c)
  /\ quarantine' = [quarantine EXCEPT ![Of(c)] = "empty"]
  /\ UNCHANGED <<intents, stored, assets, unsure, faults>>

InspectValid(c) ==
  /\ Here(c, "inspect") /\ quarantine[Of(c)] = "valid" /\ Goes(c, "store")
  /\ UNCHANGED <<intents, quarantine, stored, assets, unsure, faults>>

PutTrusted(c, x) ==
  /\ Here(c, "store") /\ x \in calls[c].left
  /\ stored' = [stored EXCEPT ![Of(c)] = @ \cup {x}]
  /\ calls' = [calls EXCEPT ![c].left = @ \ {x}]
  /\ UNCHANGED <<intents, quarantine, assets, unsure, faults>>

(* createAsset: a row of the same checksum is taken for its own.           *)
CreateAsset(c) ==
  /\ Here(c, "store") /\ calls[c].left = {}
  /\ assets' = [assets EXCEPT ![Of(c)] = "present"]
  /\ Goes(c, "audit")
  /\ UNCHANGED <<intents, quarantine, stored, unsure, faults>>

CreateAssetAnswerLost(c) ==
  /\ Here(c, "store") /\ calls[c].left = {} /\ Fault
  /\ assets' = [assets EXCEPT ![Of(c)] = "present"]
  /\ unsure' = unsure \cup {Of(c)}
  /\ Goes(c, "undo")
  /\ UNCHANGED <<intents, quarantine, stored>>

Audit(c) ==
  /\ Here(c, "audit") /\ Goes(c, "mark")
  /\ UNCHANGED <<intents, quarantine, stored, assets, unsure, faults>>

(* markCompleted: an expired intent is an error.                           *)
MarkCompleted(c) ==
  /\ Here(c, "mark")
  /\ IF intents[Of(c)] = "expired"
     THEN Goes(c, "fail") /\ UNCHANGED intents
     ELSE Goes(c, "clean") /\ intents' = [intents EXCEPT ![Of(c)] = "COMPLETED"]
  /\ UNCHANGED <<quarantine, stored, assets, unsure, faults>>

DeleteQuarantine(c) ==
  /\ Here(c, "clean") /\ Ends(c)
  /\ quarantine' = [quarantine EXCEPT ![Of(c)] = "empty"]
  /\ UNCHANGED <<intents, stored, assets, unsure, faults>>

(* A store fails.  Objects are taken back until the row is known to exist. *)
TakenBackAlways(at) == at \in {"store", "audit", "mark", "clean"}
TakenBack(at) == at = "store"

StepFails(c) ==
  /\ calls[c].at \in {"inspect", "store", "audit", "mark", "clean"} /\ Fault
  /\ Goes(c, IF TakenBack(calls[c].at) THEN "undo" ELSE "fail")
  /\ UNCHANGED <<intents, quarantine, stored, assets, unsure>>

TakeBack(c) ==
  /\ Here(c, "undo") /\ Ends(c)
  /\ stored' = [stored EXCEPT ![Of(c)] = @ \cap calls[c].left]
  /\ UNCHANGED <<intents, quarantine, assets, unsure, faults>>

Fails(c) ==
  /\ Here(c, "fail") /\ Ends(c)
  /\ UNCHANGED <<intents, quarantine, stored, assets, unsure, faults>>

(* The process dies, or a call of a store never answers.                   *)
ProcessDies(c) ==
  /\ calls[c].at # "idle" /\ Fault /\ Ends(c)
  /\ UNCHANGED <<intents, quarantine, stored, assets, unsure>>

(* deleteAsset: the row first, then the objects that can be deleted.       *)
DeleteAsset(u, kept) ==
  /\ assets[u] = "present" /\ kept \subseteq stored[u]
  /\ assets' = [assets EXCEPT ![u] = "deleted"]
  /\ stored' = [stored EXCEPT ![u] = kept]
  /\ IF kept = {} THEN UNCHANGED faults ELSE Fault
  /\ UNCHANGED <<intents, quarantine, unsure, calls>>

Step(c) ==
  \/ InspectMissing(c) \/ InspectInvalid(c) \/ InspectValid(c)
  \/ \E x \in Objects : PutTrusted(c, x)
  \/ CreateAsset(c) \/ CreateAssetAnswerLost(c) \/ Audit(c) \/ MarkCompleted(c)
  \/ DeleteQuarantine(c) \/ StepFails(c) \/ TakeBack(c) \/ Fails(c) \/ ProcessDies(c)

MediaNext ==
  \/ \E u \in Uploads : CreateIntent(u) \/ IntentExpires(u)
  \/ \E u \in Uploads, content \in {"valid", "invalid"} : PutObject(u, content)
  \/ \E c \in Calls, u \in Uploads : BeginCompletion(c, u)
  \/ \E c \in Calls : Step(c)
  \/ \E u \in Uploads, kept \in SUBSET Objects : DeleteAsset(u, kept)

MediaSpec == MediaInit /\ [][MediaNext]_mediaVars

-----------------------------------------------------------------------------
MediaTypeOK ==
  /\ intents \in [Uploads -> {"absent", "PENDING", "PROCESSING", "COMPLETED", "expired"}]
  /\ quarantine \in [Uploads -> {"empty", "valid", "invalid"}]
  /\ stored \in [Uploads -> SUBSET Objects]
  /\ assets \in [Uploads -> {"absent", "present", "deleted"}]
  /\ unsure \subseteq Uploads
  /\ calls \in [Calls -> [at : {"idle", "inspect", "store", "audit", "mark", "clean",
                                "undo", "fail"},
                          upload : Uploads \cup {"none"}, left : SUBSET Objects]]
  /\ faults \in 0..MaxFaults

\* An asset that can be found has all of its objects, whichever step failed,
\* however calls raced and whoever repeated the completion, and an upload is
\* only completed when its asset was created.  The exception is an insert
\* whose answer was lost: the call takes the objects back, and a repetition
\* finds the row and completes the upload all the same.
AssetHasItsObjects ==
  \A u \in Uploads :
    /\ assets[u] = "present" => stored[u] = Objects \/ u \in unsure
    /\ intents[u] = "COMPLETED" => assets[u] # "absent"
=============================================================================
