--------------------------- MODULE TokenMetadata ----------------------------
(***************************************************************************)
(* The metadata of the token beside its balances: an allowlist of keys and *)
(* a value for some of the keys, both kept by whoever is the admin at the  *)
(* time.  None of these calls looks at the pause switch, withdrawing a key *)
(* leaves its value, and removing a value does not ask for the key.        *)
(***************************************************************************)
EXTENDS Token

CONSTANTS
    MetaKeys,       \* the non-empty symbols offered as keys
    MetaValues      \* the non-empty strings offered as values

NoValue == "None"

ASSUME MetadataAssumption == NoValue \notin MetaValues

VARIABLES
    allowed,     \* DataKey::AllowedMetadataKey(key)
    metadata     \* DataKey::Metadata(key), NoValue when absent

metaVars == <<allowed, metadata>>
coinVars == <<seq, tokenAdmin, paused, supply, balance, allowances>>

MetaInit == TokenInit /\ allowed = {} /\ metadata = [k \in MetaKeys |-> NoValue]

is_metadata_key_allowed(k) == k \in allowed

get_metadata(k) == metadata[k]

has_metadata(k) == metadata[k] # NoValue

add_allowed_metadata_key(a, k) ==
    /\ tokenAdmin = a
    /\ ~ is_metadata_key_allowed(k)
    /\ allowed' = allowed \cup {k}
    /\ caller' = a
    /\ UNCHANGED <<coinVars, metadata>>

remove_allowed_metadata_key(a, k) ==
    /\ tokenAdmin = a
    /\ is_metadata_key_allowed(k)
    /\ allowed' = allowed \ {k}
    /\ caller' = a
    /\ UNCHANGED <<coinVars, metadata>>

\* Mutant of set_metadata: a key that has a value may always be rewritten.
set_metadata_rewriting(a, k, v) ==
    /\ tokenAdmin = a
    /\ is_metadata_key_allowed(k) \/ has_metadata(k)
    /\ metadata' = [metadata EXCEPT ![k] = v]
    /\ caller' = a
    /\ UNCHANGED <<coinVars, allowed>>

set_metadata(a, k, v) ==
    /\ tokenAdmin = a
    /\ is_metadata_key_allowed(k)
    /\ metadata' = [metadata EXCEPT ![k] = v]
    /\ caller' = a
    /\ UNCHANGED <<coinVars, allowed>>

remove_metadata(a, k) ==
    /\ tokenAdmin = a
    /\ has_metadata(k)
    /\ metadata' = [metadata EXCEPT ![k] = NoValue]
    /\ caller' = a
    /\ UNCHANGED <<coinVars, allowed>>

MetaNext ==
    \/ TokenNext /\ UNCHANGED metaVars
    \/ \E a \in Accounts, k \in MetaKeys :
          \/ add_allowed_metadata_key(a, k)
          \/ remove_allowed_metadata_key(a, k)
          \/ \E v \in MetaValues : set_metadata(a, k, v)
          \/ remove_metadata(a, k)

MetaSpec == MetaInit /\ [][MetaNext]_<<tokenVars, metaVars>>

-----------------------------------------------------------------------------
\* A value that outlives its key is frozen: from the step that withdraws a key
\* from the allowlist until the key is allowed again, its value stays what it
\* was or is deleted, and only the admin of the moment, not a former one, does
\* either (lib.rs, remove_allowed_metadata_key, set_metadata, remove_metadata).
WithdrawnFrozen ==
    [][\A k \in MetaKeys :
          /\ ~ is_metadata_key_allowed(k) => get_metadata(k)' \in {get_metadata(k), NoValue}
          /\ (get_metadata(k)' # get_metadata(k)
              \/ is_metadata_key_allowed(k)' # is_metadata_key_allowed(k)) =>
                caller' = tokenAdmin /\ tokenAdmin' = tokenAdmin]_<<tokenVars, metaVars>>
=============================================================================
