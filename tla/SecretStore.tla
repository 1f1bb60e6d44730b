------------------------------ MODULE SecretStore ------------------------------
(***************************************************************************)
(* EncryptedSecretStore (storage/secret_store.py) and the settings that    *)
(* call it (storage/state_store/settings.py): credentials in an encrypted  *)
(* file or in the operating system's keychain, and their migration out of  *)
(* the SQLite payload older versions kept them in.                         *)
(*                                                                         *)
(* A value "" is one that is not there.  The keychain is external: it      *)
(* answers or it refuses, from one call to the next, and a start finds it  *)
(* usable or not.  Values are written by coroutines on the event loop, and *)
(* by the start, so one write at a time; but the file is truncated and     *)
(* then written, and between the two other threads read it and the process *)
(* may die.  The key that encrypts the file is made by its first write.    *)
(***************************************************************************)
EXTENDS Integers, Sequences, FiniteSets, TLC

CONSTANTS
    TradeKeys,   \* TRADE_ENABLED_KEY_IDS
    OddKeys,     \* other ids with "trading" or "live-secret" in them (custom providers)
    DataKeys,    \* the rest
    Values,      \* what a user may type in, "" included
    Legacy,      \* what the payload of an older version may hold: functions on Keys
    MaxSaves, MaxBoots, MaxRefusals

Keys == TradeKeys \cup OddKeys \cup DataKeys
ASSUME SecretAssumption == "" \in Values /\ Legacy \subseteq [Keys -> Values]

VARIABLES
    file, chain,   \* key -> value, in the file and in the keychain
    keyFile,       \* the encryption key's own file: "none", "whole" or "empty"
    pending,       \* the write of the file under way
    ready,         \* _keychain_ready of the running process
    legacy,        \* key -> value still in the SQLite payload
    up,            \* whether the backend runs
    saves, boots, refusals,   \* bounds of the model
    wanted,        \* key -> the value the user saved last (history)
    shaky          \* keys whose custody the keychain, or a torn file, disturbed (history)
vault == <<file, chain, keyFile, legacy>>
secrets == <<vault, pending, ready, up, saves, boots, refusals, wanted, shaky>>

Nothing == [k \in Keys |-> ""]
\* A write under way: what the file will hold, and what the user wants from then on.
Writing(content, wants) == [on |-> TRUE, content |-> content, wants |-> wants]
NoWrite == [on |-> FALSE, content |-> Nothing, wants |-> Nothing]

SecretInit ==
    /\ file = Nothing /\ chain = Nothing /\ keyFile = "none" /\ pending = NoWrite
    /\ ready = FALSE /\ up = FALSE
    /\ legacy \in Legacy /\ wanted = legacy
    /\ saves = 0 /\ boots = 0 /\ refusals = 0 /\ shaky = {}

\* _is_trade_enabled, and the keys a call sends to the keychain.
IsTradeEnabled(k) == k \in TradeKeys \cup OddKeys
Routed(usable) == {k \in Keys : usable /\ IsTradeEnabled(k)}

\* read_values: the keychain's value, for the four trade keys, before the file's;
\* a read the keychain refuses finds nothing there (_keychain_get).
ReadBy(usable, refused) ==
    [k \in Keys |-> IF usable /\ k \in TradeKeys \ refused /\ chain[k] # "" THEN chain[k] ELSE file[k]]
ReadValue(k) == ReadBy(ready, {})[k]   \* get_api_key_value, of a keychain that answers

\* Mutant of WithValue: the file holds the value written last and no other.
OnlyValue(f, k, v) == [Nothing EXCEPT ![k] = v]
\* set_value of a key that lives in the file.
WithValue(f, k, v) == [f EXCEPT ![k] = v]

Refused == refusals < MaxRefusals /\ refusals' = refusals + 1
Answered == UNCHANGED refusals

(***************************************************************************)
(* _write_file_values: write_bytes opens the file, which empties it, and   *)
(* writes it; the migration scrubs the payload after that.                 *)
(***************************************************************************)
Truncate(content, wants) ==
    /\ keyFile # "empty" /\ keyFile' = "whole"
    /\ file' = Nothing /\ pending' = Writing(content, wants)
Land ==
    /\ pending.on /\ pending' = NoWrite
    /\ file' = pending.content /\ wanted' = pending.wants
    /\ up' = TRUE /\ legacy' = Nothing
    /\ UNCHANGED <<chain, keyFile, ready, saves, boots, refusals, shaky>>
\* The process dies between the two: the file stays empty, and what lay there, or
\* was to, is lost unless the payload still has it.
Die ==
    /\ pending.on /\ boots < MaxBoots
    /\ pending' = NoWrite /\ up' = FALSE
    /\ shaky' = IF up THEN shaky \cup {k \in Keys : pending.content[k] # "" \/ pending.wants[k] # wanted[k]}
                ELSE shaky
    /\ UNCHANGED <<vault, ready, saves, boots, refusals, wanted>>
\* It dies in a migration when the file is written and the payload not scrubbed.
DieUnscrubbed ==
    /\ pending.on /\ ~up /\ boots < MaxBoots
    /\ pending' = NoWrite /\ file' = pending.content
    /\ UNCHANGED <<chain, keyFile, legacy, ready, up, saves, boots, refusals, wanted, shaky>>

(***************************************************************************)
(* update_api_key, then set_value.                                         *)
(***************************************************************************)
SaveInFile(k, v) ==
    /\ k \notin Routed(ready)
    /\ Truncate(WithValue(file, k, v), WithValue(wanted, k, v))
    /\ shaky' = IF k \in TradeKeys /\ chain[k] # "" THEN shaky \cup {k} ELSE shaky
    /\ Answered /\ UNCHANGED <<chain, ready, up, wanted>>
\* A deletion leaves an older copy in the file; an id that only looks like a
\* trade key is never read back from the keychain.
SaveInKeychain(k, v) ==
    /\ k \in Routed(ready)
    /\ chain' = WithValue(chain, k, v) /\ wanted' = WithValue(wanted, k, v)
    /\ shaky' = IF k \in OddKeys \/ (v = "" /\ file[k] # "") THEN shaky \cup {k}
                ELSE IF v # "" THEN shaky \ {k} ELSE shaky
    /\ Answered /\ UNCHANGED <<file, keyFile, pending, ready, up>>
\* _keychain_set refused: a deletion that fails is swallowed; a value goes to the
\* file, and the keychain is not used again by this process.
DeletionRefused(k) ==
    /\ k \in Routed(ready) /\ Refused
    /\ wanted' = WithValue(wanted, k, "") /\ shaky' = shaky \cup {k}
    /\ UNCHANGED <<file, chain, keyFile, pending, ready, up>>
SaveRefused(k, v) ==
    /\ k \in Routed(ready) /\ v # "" /\ Refused
    /\ Truncate(WithValue(file, k, v), WithValue(wanted, k, v))
    /\ ready' = FALSE /\ shaky' = shaky \cup TradeKeys \cup OddKeys
    /\ UNCHANGED <<chain, up, wanted>>
\* The key's file is empty: every write of the secrets raises from then on.
SaveFails(k, v) ==
    /\ keyFile = "empty"
    /\ \/ k \notin Routed(ready) /\ Answered /\ UNCHANGED <<ready, shaky>>
       \/ /\ k \in Routed(ready) /\ v # "" /\ Refused
          /\ ready' = FALSE /\ shaky' = shaky \cup TradeKeys \cup OddKeys
    /\ UNCHANGED <<file, chain, keyFile, pending, up, wanted>>
\* _load_key: the process dies when the key's file is made and not written.
SaveKeyTorn(k, v) ==
    /\ keyFile = "none" /\ boots < MaxBoots
    /\ \/ k \notin Routed(ready) /\ Answered
       \/ k \in Routed(ready) /\ v # "" /\ Refused
    /\ keyFile' = "empty" /\ up' = FALSE
    /\ UNCHANGED <<file, chain, pending, ready, wanted, shaky>>
Save(k, v) ==
    /\ up /\ ~pending.on /\ saves < MaxSaves /\ saves' = saves + 1
    /\ \/ SaveInFile(k, v) \/ SaveInKeychain(k, v) \/ SaveRefused(k, v)
       \/ v = "" /\ DeletionRefused(k)
       \/ SaveFails(k, v) \/ SaveKeyTorn(k, v)
    /\ UNCHANGED <<legacy, boots>>

(***************************************************************************)
(* A start: the keychain is probed, then list_api_keys migrates.           *)
(***************************************************************************)
\* The values _get_api_key_metadata finds in the payload and nowhere else, and
\* what write_values is then called with.
Migrated(read) == {k \in Keys : legacy[k] # "" /\ read[k] = ""}
Merged(read) == [k \in Keys |-> IF read[k] # "" THEN read[k] ELSE legacy[k]]
\* The values of them that go to the keychain.
Sent(values, usable) == {k \in Routed(usable) : values[k] # ""}
WithCopies(values, copied) == [k \in Keys |-> IF k \in copied THEN values[k] ELSE chain[k]]

\* write_values with a keychain that answers: each value to its place, trade keys
\* without a value out of the keychain.
WriteEach(values, usable) ==
    LET routed == Routed(usable)
    IN  /\ chain' = [k \in Keys |->
                        IF k \in routed /\ values[k] # "" THEN values[k]
                        ELSE IF k \in routed \cap TradeKeys THEN "" ELSE chain[k]]
        /\ Truncate([k \in Keys |-> IF k \in routed THEN "" ELSE values[k]], wanted)
        /\ ready' = usable /\ shaky' = shaky \cup (OddKeys \cap Sent(values, usable))
\* write_values with one that refuses a value after it took some: the copy
\* _keychain_set put in the file is overwritten by the file written at the end;
\* the values after it go there, the keychain being given up.
WriteRefused(values, copied, first) ==
    /\ chain' = WithCopies(values, copied)
    /\ Truncate([k \in Keys |-> IF k \in copied \cup {first} THEN "" ELSE values[k]], wanted)
    /\ ready' = FALSE /\ shaky' = shaky \cup TradeKeys \cup OddKeys
\* The file cannot be encrypted: the start ends with what the keychain took.
WriteFails(values, usable) ==
    /\ keyFile = "empty"
    /\ \E copied \in SUBSET Sent(values, usable) : chain' = WithCopies(values, copied)
    /\ ready' = usable /\ UNCHANGED <<file, keyFile, pending, shaky>>
\* It dies before the last write: in the calls to the keychain, in making the key,
\* or in or after the write of the copy of a refused value.
WriteTorn(values, usable) ==
    /\ keyFile # "empty" /\ ready' = usable /\ UNCHANGED <<pending, shaky>>
    /\ \E copied \in SUBSET Sent(values, usable) :
          /\ chain' = WithCopies(values, copied)
          /\ \/ file' = file /\ keyFile' \in (IF keyFile = "none" THEN {"none", "empty"} ELSE {keyFile})
             \/ /\ keyFile' = "whole"
                /\ \E first \in Sent(values, usable) \ copied :
                      file' \in {Nothing, WithValue(file, first, values[first])}

\* Nothing to migrate: the payload is scrubbed.
StartWithFile(usable) ==
    /\ ready' = usable /\ up' = TRUE /\ legacy' = Nothing
    /\ shaky' = IF ready = usable THEN shaky
                ELSE shaky \cup {k \in Keys : IsTradeEnabled(k) /\ (file[k] # "" \/ chain[k] # "")}
    /\ UNCHANGED <<file, chain, keyFile, pending>>
Start(usable) ==
    /\ ~up /\ ~pending.on /\ boots < MaxBoots /\ boots' = boots + 1
    /\ \E refused \in SUBSET TradeKeys :
          LET read == ReadBy(usable, refused)
              values == Merged(read)
          IN  \/ /\ Migrated(read) = {} /\ StartWithFile(usable)
                 /\ IF refused = {} THEN Answered ELSE Refused
              \/ /\ Migrated(read) # {} /\ UNCHANGED <<legacy, up>>
                 /\ \/ /\ WriteEach(values, usable) \/ WriteFails(values, usable) \/ WriteTorn(values, usable)
                       /\ IF refused = {} THEN Answered ELSE Refused
                    \/ /\ Refused
                       /\ \E first \in Sent(values, usable), copied \in SUBSET Sent(values, usable) :
                             first \notin copied /\ WriteRefused(values, copied, first)
    /\ UNCHANGED <<saves, wanted>>
\* The backend is stopped, or dies outside a write.
Stop ==
    /\ up /\ ~pending.on /\ up' = FALSE
    /\ UNCHANGED <<vault, pending, ready, saves, boots, refusals, wanted, shaky>>

SecretNext ==
    \/ \E k \in Keys, v \in Values : Save(k, v)
    \/ \E usable \in BOOLEAN : Start(usable)
    \/ Land \/ Die \/ DieUnscrubbed \/ Stop
SecretSpec == SecretInit /\ [][SecretNext]_secrets

(***************************************************************************)
(* Properties.                                                             *)
(***************************************************************************)
\* A running backend reads back what the user saved last, or what an older
\* version kept for them, across saves, deletions, migration and restarts, and
\* while a write is under way that or nothing; for every key the keychain has not
\* disturbed since it was saved: a refusal, a start that finds it where the last
\* did not (or the other way), a deletion while an older copy lies in the file,
\* an id that is only routed to it; and for every key a torn write of the file
\* has not lost.  (A read the keychain refuses finds the file's copy.)
SecretsKept ==
    up => \A k \in Keys \ shaky :
             ReadValue(k) = wanted[k] \/ (pending.on /\ ReadValue(k) = "")
=============================================================================
