----------------------------- MODULE SourceTier -----------------------------
(***************************************************************************)
(* config/sourcetier.go: the tier a deployment declares for each source.   *)
(* A document is what encoding/json makes of it: no JSON at all, something *)
(* that is no object, or an object whose members are the entries of its    *)
(* handles; and so is an entry, with its "tier" and its other keys.        *)
(***************************************************************************)
EXTENDS Naturals

CONSTANTS
  Nil,       \* Go's nil: no error, no configuration
  Handles,   \* the source_handles documents may declare
  OtherKeys  \* the other keys their entries may have

(* What the "tier" of an entry decodes to: a string, or not. *)
Spellings == {"ANCHOR", "CONTRIBUTING"}
TierValues == Spellings \cup {"another string", "not a string", "absent"}

Entries == [ isObject : BOOLEAN, tier : TierValues, extra : SUBSET OtherKeys ]

Documents ==
  [ is : {"JSON object", "other JSON", "no JSON"},
    entries : UNION {[H -> Entries] : H \in SUBSET Handles} ]

SourceTiers == {"UNSPECIFIED", "ANCHOR", "CONTRIBUTING"}

SourceEntry == [ Tier : STRING, Extra : SUBSET OtherKeys ]

(* What can be wrong, and the error values: it, and with which handle's entry. *)
Faults ==
  {"no JSON", "other JSON", "entry is no object", "no tier", "tier is no string",
   "unknown tier", "no entry"}

Errors == [ what : Faults, handle : Handles \cup {Nil} ]

Error(what, handle) == [ what |-> what, handle |-> handle ]

(* What ParseSourceTierConfig finds wrong with an entry, first of all, or Nil. *)
FaultOf(entry) ==
  IF ~entry.isObject THEN "entry is no object"
  ELSE IF entry.tier = "absent" THEN "no tier"
  ELSE IF entry.tier = "not a string" THEN "tier is no string"
  ELSE IF entry.tier \notin Spellings THEN "unknown tier"
  ELSE Nil

(* A slip: an undeclared handle demoted instead of refused. *)
TierForHandleDefaulted(config, handle) ==
  IF handle \notin DOMAIN config THEN << "CONTRIBUTING", Nil >>
  ELSE IF config[handle].Tier \in Spellings THEN << config[handle].Tier, Nil >>
  ELSE << "UNSPECIFIED", Error("unknown tier", handle) >>

(* TierForHandle: the tier and the error; a config built by hand may hold any. *)
TierForHandle(config, handle) ==
  IF handle \notin DOMAIN config THEN << "UNSPECIFIED", Error("no entry", handle) >>
  ELSE IF config[handle].Tier \in Spellings THEN << config[handle].Tier, Nil >>
  ELSE << "UNSPECIFIED", Error("unknown tier", handle) >>
=============================================================================
