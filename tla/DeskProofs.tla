------------------------------- MODULE DeskProofs -------------------------------
(***************************************************************************)
(* What the secret store, the trading desk, the event bus and the Academy  *)
(* promise, proved for every value of their constants.                     *)
(***************************************************************************)
EXTENDS Academy, TradingDesk, EventBus, SequenceTheorems, FiniteSetTheorems, TLAPS

(***************************************************************************)
(* The secret store.                                                       *)
(***************************************************************************)
\* Until a start has scrubbed the payload nothing was saved, and file, keychain
\* and the write under way hold at most copies of it; afterwards every key no
\* keychain or torn write disturbed reads as the user left it, whether the
\* backend runs or not; and a write under way, of an empty file, will leave every
\* such key as the user wants it, and hides in the meantime at most its value.
ReadOf(content) ==
    [k \in Keys |-> IF ready /\ k \in TradeKeys /\ chain[k] # "" THEN chain[k] ELSE content[k]]
Unscrubbed ==
    legacy # Nothing =>
        /\ ~up
        /\ wanted = legacy
        /\ \A k \in Keys : file[k] \in {"", legacy[k]} /\ chain[k] \in {"", legacy[k]}
        /\ pending.on => /\ pending.wants = legacy
                         /\ \A k \in Keys : pending.content[k] \in {"", legacy[k]}
Remembered ==
    legacy = Nothing /\ ~pending.on => \A k \in Keys \ shaky : ReadOf(file)[k] = wanted[k]
Landing ==
    pending.on =>
        /\ file = Nothing
        /\ \A k \in Keys \ shaky : ReadOf(pending.content)[k] = pending.wants[k]
        /\ legacy = Nothing => up /\ \A k \in Keys \ shaky : ReadOf(file)[k] \in {"", wanted[k]}
Contents == [Keys -> Values]
SecretTypes ==
    /\ file \in Contents
    /\ chain \in Contents
    /\ legacy \in Contents
    /\ wanted \in Contents
    /\ pending \in [on : BOOLEAN, content : Contents, wants : Contents]
    /\ ready \in BOOLEAN
    /\ up \in BOOLEAN
SecretInv == SecretTypes /\ Unscrubbed /\ Remembered /\ Landing

\* A file with nothing in it.
LEMMA NothingType == Nothing \in Contents
<1>1. "" \in Values
  BY SecretAssumption
<1> QED BY <1>1 DEF Nothing, Contents

\* The invariant holds where the program starts.
LEMMA SecretInvInit == SecretInit => SecretInv
<1> SUFFICES ASSUME SecretInit PROVE SecretInv
  OBVIOUS
<1>1. /\ file = Nothing /\ chain = Nothing /\ ready = FALSE /\ up = FALSE /\ wanted = legacy
      /\ legacy \in Contents
  BY SecretAssumption DEF SecretInit, Contents
<1>2. pending = [on |-> FALSE, content |-> Nothing, wants |-> Nothing]
  BY DEF SecretInit, NoWrite
<1>3. SecretTypes
  BY <1>1, <1>2, NothingType DEF SecretTypes
<1>4. ~pending.on
  BY <1>2
<1>5. \A k \in Keys : file[k] = "" /\ chain[k] = ""
  BY <1>1 DEF Nothing
<1>6. legacy = Nothing => \A k \in Keys : ReadOf(file)[k] = wanted[k]
  BY <1>1, <1>5 DEF ReadOf
<1> QED BY <1>1, <1>3, <1>4, <1>5, <1>6 DEF SecretInv, Unscrubbed, Remembered, Landing

\* Whatever read_values finds, and the migration merges, is a value.
LEMMA ReadByType ==
    ASSUME SecretTypes, NEW usable \in BOOLEAN, NEW refused
    PROVE  ReadBy(usable, refused) \in Contents /\ Merged(ReadBy(usable, refused)) \in Contents
  BY DEF SecretTypes, ReadBy, Merged, Contents

\* One value set.
LEMMA WithValueType ==
    ASSUME NEW f \in Contents, NEW k \in Keys, NEW v \in Values
    PROVE  /\ WithValue(f, k, v) \in Contents
           /\ \A j \in Keys : WithValue(f, k, v)[j] = IF j = k THEN v ELSE f[j]
  BY DEF WithValue, Contents

\* The file is emptied for a save: the invariant holds if what it will hold, and
\* what can be read until then, are what they should be.
LEMMA TruncateStep ==
    ASSUME SecretInv, NEW content \in Contents, NEW wants \in Contents,
           legacy = Nothing, up, ~pending.on,
           Truncate(content, wants), UNCHANGED <<chain, legacy, up, wanted>>,
           ready' \in BOOLEAN,
           \A k \in Keys \ shaky' :
              /\ k \notin shaky
              /\ (ready' <=> ready) \/ k \notin TradeKeys
              /\ ReadOf(content)[k] = wants[k]
    PROVE  SecretInv'
<1>1. pending' = [on |-> TRUE, content |-> content, wants |-> wants] /\ file' = Nothing
  BY DEF Truncate, Writing
<1>2. SecretTypes'
  <2>1. pending' \in [on : BOOLEAN, content : Contents, wants : Contents] /\ file' \in Contents
    BY <1>1, NothingType
  <2> QED BY <2>1 DEF SecretInv, SecretTypes, Contents
<1>3. Unscrubbed' /\ Remembered'
  BY <1>1 DEF Unscrubbed, Remembered, Nothing
<1>4. ASSUME NEW k \in Keys \ shaky'
      PROVE  ReadOf(pending.content)'[k] = pending'.wants[k] /\ ReadOf(file)'[k] \in {"", wanted'[k]}
  <2>1. k \in Keys /\ k \notin shaky /\ ((ready' <=> ready) \/ k \notin TradeKeys) /\ ReadOf(content)[k] = wants[k]
    BY <1>4
  <2>2. ReadOf(file)[k] = wanted[k]
    BY <2>1 DEF SecretInv, Remembered
  <2>3. /\ ReadOf(content)[k] = IF ready /\ k \in TradeKeys /\ chain[k] # "" THEN chain[k] ELSE content[k]
        /\ ReadOf(file)[k] = IF ready /\ k \in TradeKeys /\ chain[k] # "" THEN chain[k] ELSE file[k]
    BY <2>1 DEF ReadOf
  <2>4. /\ ReadOf(pending.content)'[k] = IF ready' /\ k \in TradeKeys /\ chain[k] # "" THEN chain[k] ELSE content[k]
        /\ ReadOf(file)'[k] = IF ready' /\ k \in TradeKeys /\ chain[k] # "" THEN chain[k] ELSE ""
    BY <1>1, <2>1 DEF ReadOf, Nothing
  <2> QED BY <1>1, <2>1, <2>2, <2>3, <2>4
<1>5. Landing'
  BY <1>1, <1>4 DEF Landing
<1> QED BY <1>2, <1>3, <1>5 DEF SecretInv

\* A save keeps the invariant: the key saved reads as wanted unless it is
\* disturbed, the others read as before unless the keychain was given up.
LEMMA SaveStep ==
    ASSUME SecretInv, NEW k \in Keys, NEW v \in Values, Save(k, v)
    PROVE  SecretInv'
<1>1. up /\ ~pending.on /\ legacy = Nothing /\ legacy' = legacy
  BY DEF Save, SecretInv, Unscrubbed
<1>2. \A j \in Keys \ shaky : ReadOf(file)[j] = wanted[j]
  BY <1>1 DEF SecretInv, Remembered
<1>3. /\ WithValue(file, k, v) \in Contents /\ WithValue(wanted, k, v) \in Contents
      /\ WithValue(chain, k, v) \in Contents
      /\ \A j \in Keys : /\ WithValue(file, k, v)[j] = IF j = k THEN v ELSE file[j]
                         /\ WithValue(wanted, k, v)[j] = IF j = k THEN v ELSE wanted[j]
                         /\ WithValue(chain, k, v)[j] = IF j = k THEN v ELSE chain[j]
  BY WithValueType DEF SecretInv, SecretTypes
<1> DEFINE content == WithValue(file, k, v)
           wants == WithValue(wanted, k, v)
           stored == WithValue(chain, k, v)
<1> HIDE DEF content, wants, stored
<1>4. /\ content \in Contents /\ wants \in Contents /\ stored \in Contents
      /\ \A j \in Keys : /\ content[j] = IF j = k THEN v ELSE file[j]
                         /\ wants[j] = IF j = k THEN v ELSE wanted[j]
                         /\ stored[j] = IF j = k THEN v ELSE chain[j]
  BY <1>3 DEF content, wants, stored
<1>5. CASE SaveInFile(k, v)
  <2>1. /\ k \notin Routed(ready) /\ Truncate(content, wants) /\ UNCHANGED <<chain, ready, up, wanted>>
        /\ shaky' = IF k \in TradeKeys /\ chain[k] # "" THEN shaky \cup {k} ELSE shaky
    BY <1>5 DEF SaveInFile, content, wants
  <2>2. ASSUME NEW j \in Keys \ shaky' PROVE j \notin shaky /\ ReadOf(content)[j] = wants[j]
    <3>1. j \in Keys /\ j \notin shaky /\ ReadOf(file)[j] = wanted[j]
      BY <1>2, <2>1, <2>2
    <3> QED BY <1>4, <2>1, <2>2, <3>1 DEF ReadOf, Routed, IsTradeEnabled
  <2>3. ready' \in BOOLEAN
    BY <2>1 DEF SecretInv, SecretTypes
  <2> QED BY <1>1, <1>4, <2>1, <2>2, <2>3, TruncateStep
<1>6. CASE SaveRefused(k, v)
  <2>1. /\ Truncate(content, wants) /\ UNCHANGED <<chain, up, wanted>>
        /\ ready' = FALSE /\ shaky' = shaky \cup TradeKeys \cup OddKeys /\ k \in TradeKeys \cup OddKeys
    BY <1>6 DEF SaveRefused, Routed, IsTradeEnabled, content, wants
  <2>2. ASSUME NEW j \in Keys \ shaky'
        PROVE  j \notin shaky /\ j \notin TradeKeys /\ ReadOf(content)[j] = wants[j]
    <3>1. j \in Keys /\ j \notin shaky /\ j \notin TradeKeys /\ j # k /\ ReadOf(file)[j] = wanted[j]
      BY <1>2, <2>1, <2>2
    <3> QED BY <1>4, <2>2, <3>1 DEF ReadOf
  <2> QED BY <1>1, <1>4, <2>1, <2>2, TruncateStep
<1>7. CASE SaveInKeychain(k, v)
  <2>1. /\ k \in Routed(ready) /\ chain' = stored /\ wanted' = wants
        /\ UNCHANGED <<file, pending, ready, up>>
        /\ shaky' = IF k \in OddKeys \/ (v = "" /\ file[k] # "") THEN shaky \cup {k}
                    ELSE IF v # "" THEN shaky \ {k} ELSE shaky
    BY <1>7 DEF SaveInKeychain, stored, wants
  <2>2. ready /\ k \in TradeKeys \cup OddKeys
    BY <2>1 DEF Routed, IsTradeEnabled
  <2>3. ASSUME NEW j \in Keys \ shaky' PROVE ReadOf(file)'[j] = wanted'[j]
    <3>1. ReadOf(file)'[j] = IF j \in TradeKeys /\ stored[j] # "" THEN stored[j] ELSE file[j]
      BY <2>1, <2>2, <2>3 DEF ReadOf
    <3>2. CASE j # k
      <4>1. j \notin shaky /\ ReadOf(file)[j] = wanted[j]
        BY <1>2, <2>1, <2>3, <3>2
      <4> QED BY <1>4, <2>1, <2>2, <2>3, <3>1, <3>2, <4>1 DEF ReadOf
    <3>3. CASE j = k
      <4>1. k \in TradeKeys /\ (v # "" \/ file[k] = "")
        BY <2>1, <2>2, <2>3, <3>3
      <4> QED BY <1>4, <2>1, <2>3, <3>1, <3>3, <4>1
    <3> QED BY <3>2, <3>3
  <2>4. SecretTypes'
    BY <1>1, <1>4, <2>1 DEF SecretInv, SecretTypes, Contents
  <2> QED BY <1>1, <2>1, <2>3, <2>4 DEF SecretInv, Unscrubbed, Remembered, Landing, Nothing
<1>8. CASE v = "" /\ DeletionRefused(k)
  <2>1. /\ wanted' = wants /\ shaky' = shaky \cup {k} /\ UNCHANGED <<file, chain, pending, ready, up>>
    BY <1>8 DEF DeletionRefused, wants
  <2>2. ASSUME NEW j \in Keys \ shaky' PROVE ReadOf(file)'[j] = wanted'[j]
    <3>1. j \in Keys /\ j \notin shaky /\ j # k
      BY <2>1, <2>2
    <3>2. ReadOf(file)[j] = wanted[j] /\ wants[j] = wanted[j]
      BY <1>2, <1>4, <3>1
    <3>3. ReadOf(file)'[j] = ReadOf(file)[j]
      BY <2>1, <3>1 DEF ReadOf
    <3> QED BY <2>1, <3>2, <3>3
  <2>3. SecretTypes'
    BY <1>1, <1>4, <2>1 DEF SecretInv, SecretTypes, Contents
  <2> QED BY <1>1, <2>1, <2>2, <2>3 DEF SecretInv, Unscrubbed, Remembered, Landing, Nothing
<1>9. CASE SaveFails(k, v) \/ SaveKeyTorn(k, v)
  <2>1. /\ UNCHANGED <<file, chain, pending, wanted>>
        /\ up' \in BOOLEAN
        /\ \/ UNCHANGED <<ready, shaky>>
           \/ ready' = FALSE /\ shaky' = shaky \cup TradeKeys \cup OddKeys
    BY <1>1, <1>9 DEF SaveFails, SaveKeyTorn
  <2>2. ASSUME NEW j \in Keys \ shaky' PROVE ReadOf(file)'[j] = wanted'[j]
    <3>1. j \in Keys /\ j \notin shaky /\ (UNCHANGED ready \/ j \notin TradeKeys)
      BY <2>1, <2>2
    <3>2. ReadOf(file)'[j] = ReadOf(file)[j]
      <4>1. CASE UNCHANGED ready
        BY <2>1, <4>1 DEF ReadOf
      <4>2. CASE j \notin TradeKeys
        BY <2>1, <3>1, <4>2 DEF ReadOf
      <4> QED BY <3>1, <4>1, <4>2
    <3> QED BY <1>2, <2>1, <3>1, <3>2
  <2>3. SecretTypes'
    BY <1>1, <2>1 DEF SecretInv, SecretTypes, Contents
  <2> QED BY <1>1, <2>1, <2>2, <2>3 DEF SecretInv, Unscrubbed, Remembered, Landing, Nothing
<1> QED BY <1>5, <1>6, <1>7, <1>8, <1>9 DEF Save

\* The file is written, and with a migration the payload scrubbed.
LEMMA LandStep == ASSUME SecretInv, Land PROVE SecretInv'
<1>1. /\ pending.on /\ pending' = NoWrite /\ file' = pending.content /\ wanted' = pending.wants
      /\ legacy' = Nothing /\ up' = TRUE /\ UNCHANGED <<chain, ready, shaky>>
  BY DEF Land
<1>2. SecretTypes'
  BY <1>1, NothingType DEF SecretInv, SecretTypes, NoWrite, Contents
<1>3. \A k \in Keys \ shaky' : ReadOf(file)'[k] = wanted'[k]
  BY <1>1 DEF SecretInv, Landing, ReadOf
<1> QED BY <1>1, <1>2, <1>3 DEF SecretInv, Unscrubbed, Remembered, Landing, NoWrite, Nothing

\* A crash in the write: what lay in the file, or was to, is disturbed unless the
\* payload still has it.
LEMMA DieStep == ASSUME SecretInv, Die \/ DieUnscrubbed PROVE SecretInv'
<1>1. /\ pending.on /\ pending' = NoWrite /\ up' = FALSE /\ UNCHANGED <<chain, ready, legacy, wanted>>
      /\ ~NoWrite.on
  BY DEF Die, DieUnscrubbed, vault, NoWrite, SecretInv, SecretTypes
<1>2. file = Nothing /\ (file' = file \/ (file' = pending.content /\ ~up))
  BY <1>1 DEF Die, DieUnscrubbed, vault, SecretInv, Landing
<1>3. SecretTypes'
  BY <1>1, <1>2, NothingType DEF SecretInv, SecretTypes, NoWrite, Contents
<1>4. Unscrubbed'
  <2> SUFFICES ASSUME legacy # Nothing PROVE Unscrubbed'
    BY <1>1 DEF Unscrubbed, Nothing
  <2>1. \A k \in Keys : file'[k] \in {"", legacy[k]}
    BY <1>1, <1>2 DEF SecretInv, Unscrubbed
  <2> QED BY <1>1, <2>1 DEF SecretInv, Unscrubbed, Nothing
<1>5. Remembered'
  <2> SUFFICES ASSUME legacy = Nothing, NEW k \in Keys \ shaky' PROVE ReadOf(file)'[k] = wanted'[k]
    BY <1>1 DEF Remembered, Nothing
  <2>1. up /\ file' = file
    BY <1>1, <1>2 DEF SecretInv, Landing
  <2>2. k \in Keys /\ k \notin shaky /\ pending.content[k] = "" /\ pending.wants[k] = wanted[k]
    <3>1. shaky' = shaky \cup {j \in Keys : pending.content[j] # "" \/ pending.wants[j] # wanted[j]}
      BY <2>1 DEF Die, DieUnscrubbed
    <3> QED BY <3>1
  <2>3. ReadOf(pending.content)[k] = wanted[k]
    BY <1>1, <2>2 DEF SecretInv, Landing
  <2>4. ReadOf(file)'[k] = ReadOf(pending.content)[k]
    BY <1>1, <1>2, <2>1, <2>2 DEF ReadOf, Nothing
  <2> QED BY <1>1, <2>3, <2>4
<1> QED BY <1>1, <1>3, <1>4, <1>5 DEF SecretInv, Landing

\* A start that finds a payload reads it back, or what an earlier start moved
\* before it died.
LEMMA MergedIsLegacy ==
    ASSUME SecretInv, legacy # Nothing, NEW usable \in BOOLEAN, NEW refused, NEW k \in Keys
    PROVE  /\ Merged(ReadBy(usable, refused))[k] = legacy[k]
           /\ k \notin Migrated(ReadBy(usable, refused)) => ReadBy(usable, refused)[k] = legacy[k]
  BY DEF SecretInv, Unscrubbed, Merged, Migrated, ReadBy

\* Without a payload there is nothing to migrate.
LEMMA NothingMigrated ==
    ASSUME legacy = Nothing, NEW read
    PROVE  Migrated(read) = {}
  BY DEF Migrated, Nothing

\* What an unrefused read finds, a refused one finds or misses.
LEMMA RefusedReads ==
    ASSUME SecretInv, legacy # Nothing, NEW usable \in BOOLEAN, NEW refused,
           Migrated(ReadBy(usable, refused)) = {}, NEW k \in Keys
    PROVE  ReadBy(usable, {})[k] = legacy[k]
<1>1. ReadBy(usable, refused)[k] = legacy[k]
  BY MergedIsLegacy
<1> QED BY <1>1 DEF ReadBy, SecretInv, Unscrubbed

\* A start without a migration.
LEMMA StartWithFileStep ==
    ASSUME SecretInv, NEW usable \in BOOLEAN, NEW refused, ~up, ~pending.on, UNCHANGED wanted,
           Migrated(ReadBy(usable, refused)) = {}, StartWithFile(usable)
    PROVE  SecretInv'
<1>1. /\ ready' = usable /\ up' = TRUE /\ legacy' = Nothing /\ UNCHANGED <<file, chain, pending, wanted>>
      /\ shaky' = IF ready = usable THEN shaky
                  ELSE shaky \cup {k \in Keys : IsTradeEnabled(k) /\ (file[k] # "" \/ chain[k] # "")}
  BY DEF StartWithFile
<1>2. ASSUME NEW k \in Keys \ shaky' PROVE ReadOf(file)'[k] = wanted'[k]
  <2>1. k \in Keys /\ ReadOf(file)'[k] = ReadBy(usable, {})[k]
    BY <1>1, <1>2 DEF ReadOf, ReadBy
  <2>2. CASE legacy = Nothing
    <3>1. ReadOf(file)[k] = wanted[k]
      BY <1>1, <1>2, <2>2 DEF SecretInv, Remembered
    <3>2. ready = usable \/ k \notin TradeKeys \/ (file[k] = "" /\ chain[k] = "")
      BY <1>1, <1>2 DEF IsTradeEnabled
    <3>3. CASE ready = usable
      <4>1. ReadBy(usable, {})[k] = ReadOf(file)[k]
        BY <3>3, <2>1 DEF ReadOf, ReadBy
      <4> QED BY <1>1, <2>1, <3>1, <4>1
    <3>4. CASE k \notin TradeKeys \/ (file[k] = "" /\ chain[k] = "")
      <4>1. ReadBy(usable, {})[k] = file[k] /\ ReadOf(file)[k] = file[k]
        BY <2>1, <3>4 DEF ReadOf, ReadBy
      <4> QED BY <1>1, <2>1, <3>1, <4>1
    <3> QED BY <3>2, <3>3, <3>4
  <2>3. CASE legacy # Nothing
    BY <1>1, <2>1, <2>3, RefusedReads DEF SecretInv, Unscrubbed
  <2> QED BY <2>2, <2>3
<1>3. SecretTypes'
  BY <1>1, NothingType DEF SecretInv, SecretTypes, Contents
<1> QED BY <1>1, <1>2, <1>3 DEF SecretInv, Unscrubbed, Remembered, Landing, Nothing

\* A start that migrates: to the file, to the keychain, to both, or to the point
\* where it died.
LEMMA MigrateStep ==
    ASSUME SecretInv, NEW usable \in BOOLEAN, NEW values \in Contents, ~up, ~pending.on,
           legacy # Nothing, \A k \in Keys : values[k] = legacy[k], UNCHANGED <<legacy, up, wanted>>,
           \/ WriteEach(values, usable)
           \/ WriteFails(values, usable)
           \/ WriteTorn(values, usable)
           \/ \E first \in Sent(values, usable), copied \in SUBSET Sent(values, usable) :
                 first \notin copied /\ WriteRefused(values, copied, first)
    PROVE  SecretInv'
<1>1. /\ wanted = legacy /\ legacy \in Contents
      /\ \A k \in Keys : file[k] \in {"", legacy[k]} /\ chain[k] \in {"", legacy[k]}
  BY DEF SecretInv, SecretTypes, Unscrubbed
<1>2. "" \in Values /\ legacy' # Nothing' /\ Sent(values, usable) \subseteq Keys
  BY SecretAssumption DEF Nothing, Sent, Routed
<1>3. ASSUME NEW copied \in SUBSET Sent(values, usable)
      PROVE  /\ WithCopies(values, copied) \in Contents
             /\ \A k \in Keys : WithCopies(values, copied)[k] \in {"", legacy[k]}
  BY <1>1, <1>2 DEF WithCopies, Contents, SecretInv, SecretTypes
<1>4. ASSUME NEW content \in Contents, Truncate(content, wanted), chain' \in Contents, ready' \in BOOLEAN,
             \A k \in Keys : content[k] \in {"", legacy[k]} /\ chain'[k] \in {"", legacy[k]},
             \A k \in Keys \ shaky' :
                (IF ready' /\ k \in TradeKeys /\ chain'[k] # "" THEN chain'[k] ELSE content[k]) = legacy[k]
      PROVE  SecretInv'
  <2>1. file' = Nothing /\ pending' = [on |-> TRUE, content |-> content, wants |-> wanted]
    BY <1>4 DEF Truncate, Writing
  <2>2. SecretTypes'
    <3>1. pending' \in [on : BOOLEAN, content : Contents, wants : Contents] /\ file' \in Contents
      BY <1>1, <1>4, <2>1, NothingType
    <3> QED BY <1>4, <3>1 DEF SecretInv, SecretTypes, Contents
  <2>3. Unscrubbed'
    BY <1>1, <1>4, <2>1 DEF Unscrubbed, Nothing
  <2>4. Remembered' /\ Landing'
    BY <1>1, <1>2, <1>4, <2>1 DEF Remembered, Landing, ReadOf
  <2> QED BY <2>2, <2>3, <2>4 DEF SecretInv
<1>5. CASE WriteEach(values, usable)
  <2> DEFINE content == [k \in Keys |-> IF k \in Routed(usable) THEN "" ELSE values[k]]
  <2>1. /\ Truncate(content, wanted) /\ ready' = usable
        /\ shaky' = shaky \cup (OddKeys \cap Sent(values, usable))
        /\ chain' = [k \in Keys |-> IF k \in Routed(usable) /\ values[k] # "" THEN values[k]
                                    ELSE IF k \in Routed(usable) \cap TradeKeys THEN "" ELSE chain[k]]
    BY <1>5 DEF WriteEach
  <2>2. content \in Contents /\ chain' \in Contents
    BY <1>2, <2>1 DEF Contents, SecretInv, SecretTypes
  <2>3. ASSUME NEW k \in Keys
        PROVE  /\ content[k] = IF k \in Routed(usable) THEN "" ELSE legacy[k]
               /\ chain'[k] = IF k \in Routed(usable) /\ legacy[k] # "" THEN legacy[k]
                              ELSE IF k \in Routed(usable) \cap TradeKeys THEN "" ELSE chain[k]
               /\ k \in Routed(usable) <=> usable /\ k \in TradeKeys \cup OddKeys
               /\ k \in Sent(values, usable) <=> k \in Routed(usable) /\ legacy[k] # ""
    BY <2>1 DEF Routed, IsTradeEnabled, Sent
  <2> HIDE DEF content
  <2>4. ASSUME NEW k \in Keys \ shaky'
        PROVE  (IF ready' /\ k \in TradeKeys /\ chain'[k] # "" THEN chain'[k] ELSE content[k]) = legacy[k]
    <3>1. k \in Keys /\ ~(k \in OddKeys /\ k \in Sent(values, usable))
      BY <2>1, <2>4
    <3> QED BY <1>1, <2>1, <2>3, <3>1
  <2>5. \A k \in Keys : content[k] \in {"", legacy[k]} /\ chain'[k] \in {"", legacy[k]}
    BY <1>1, <2>3
  <2> QED BY <1>4, <2>1, <2>2, <2>4, <2>5
<1>6. CASE WriteFails(values, usable) \/ WriteTorn(values, usable)
  <2>1. PICK copied \in SUBSET Sent(values, usable) : chain' = WithCopies(values, copied)
    BY <1>6 DEF WriteFails, WriteTorn
  <2>2. ready' = usable /\ UNCHANGED <<pending, shaky>>
    BY <1>6 DEF WriteFails, WriteTorn
  <2>3. file' \in Contents /\ \A k \in Keys : file'[k] \in {"", legacy[k]}
    <3>1. CASE file' = file
      BY <1>1, <3>1 DEF SecretInv, SecretTypes
    <3>2. CASE file' = Nothing
      BY <3>2, NothingType DEF Nothing
    <3>3. ASSUME NEW first \in Sent(values, usable), file' = WithValue(file, first, values[first])
          PROVE  file' \in Contents /\ \A k \in Keys : file'[k] \in {"", legacy[k]}
      <4>1. first \in Keys /\ values[first] \in Values /\ values[first] = legacy[first] /\ file \in Contents
        BY <1>2 DEF Contents, SecretInv, SecretTypes
      <4>2. /\ WithValue(file, first, values[first]) \in Contents
            /\ \A k \in Keys : WithValue(file, first, values[first])[k] = IF k = first THEN values[first] ELSE file[k]
        BY <4>1, WithValueType
      <4> QED BY <1>1, <3>3, <4>1, <4>2
    <3>4. file' = file \/ \E first \in Sent(values, usable) : file' \in {Nothing, WithValue(file, first, values[first])}
      BY <1>6 DEF WriteFails, WriteTorn
    <3> QED BY <3>1, <3>2, <3>3, <3>4
  <2>4. SecretTypes'
    BY <1>3, <2>1, <2>2, <2>3 DEF SecretInv, SecretTypes, Contents
  <2> QED BY <1>1, <1>2, <1>3, <2>1, <2>2, <2>3, <2>4 DEF SecretInv, Unscrubbed, Remembered, Landing, Nothing
<1>7. ASSUME NEW first \in Sent(values, usable), NEW copied \in SUBSET Sent(values, usable),
             WriteRefused(values, copied, first)
      PROVE  SecretInv'
  <2> DEFINE content == [k \in Keys |-> IF k \in copied \cup {first} THEN "" ELSE values[k]]
  <2>1. /\ Truncate(content, wanted) /\ ready' = FALSE /\ chain' = WithCopies(values, copied)
        /\ shaky' = shaky \cup TradeKeys \cup OddKeys
    BY <1>7 DEF WriteRefused
  <2>2. content \in Contents
    BY <1>2 DEF Contents
  <2>3. ASSUME NEW k \in Keys
        PROVE  /\ content[k] \in {"", legacy[k]}
               /\ k \notin TradeKeys \cup OddKeys => content[k] = legacy[k]
    BY <1>2 DEF Sent, Routed, IsTradeEnabled
  <2> HIDE DEF content
  <2>4. ASSUME NEW k \in Keys \ shaky' PROVE content[k] = legacy[k]
    BY <2>1, <2>3, <2>4
  <2> QED BY <1>3, <1>4, <2>1, <2>2, <2>3, <2>4
<1> QED BY <1>5, <1>6, <1>7

\* A start.
LEMMA StartStep ==
    ASSUME SecretInv, NEW usable \in BOOLEAN, Start(usable)
    PROVE  SecretInv'
<1>1. ~up /\ ~pending.on /\ UNCHANGED wanted
  BY DEF Start
<1>2. PICK refused \in SUBSET TradeKeys :
         LET read == ReadBy(usable, refused)
             values == Merged(read)
         IN  \/ Migrated(read) = {} /\ StartWithFile(usable)
             \/ /\ Migrated(read) # {} /\ UNCHANGED <<legacy, up>>
                /\ \/ WriteEach(values, usable) \/ WriteFails(values, usable) \/ WriteTorn(values, usable)
                   \/ \E first \in Sent(values, usable), copied \in SUBSET Sent(values, usable) :
                         first \notin copied /\ WriteRefused(values, copied, first)
  BY DEF Start
<1> DEFINE read == ReadBy(usable, refused)
           values == Merged(read)
<1>3. CASE Migrated(read) = {} /\ StartWithFile(usable)
  BY <1>1, <1>3, StartWithFileStep
<1>4. CASE Migrated(read) # {}
  <2>1. legacy # Nothing
    BY <1>4, NothingMigrated
  <2>2. values \in Contents /\ \A k \in Keys : values[k] = legacy[k]
    BY <2>1, ReadByType, MergedIsLegacy DEF SecretInv
  <2>3. /\ UNCHANGED <<legacy, up>>
        /\ \/ WriteEach(values, usable) \/ WriteFails(values, usable) \/ WriteTorn(values, usable)
           \/ \E first \in Sent(values, usable), copied \in SUBSET Sent(values, usable) :
                 first \notin copied /\ WriteRefused(values, copied, first)
    BY <1>2, <1>4
  <2> HIDE DEF values
  <2> QED BY <1>1, <2>1, <2>2, <2>3, MigrateStep
<1> QED BY <1>2, <1>3, <1>4

\* Every step keeps the invariant.
LEMMA SecretInvStep == SecretInv /\ [SecretNext]_secrets => SecretInv'
<1> SUFFICES ASSUME SecretInv, [SecretNext]_secrets PROVE SecretInv'
  OBVIOUS
<1>1. CASE \E k \in Keys, v \in Values : Save(k, v)
  BY <1>1, SaveStep
<1>2. CASE \E usable \in BOOLEAN : Start(usable)
  BY <1>2, StartStep
<1>3. CASE Land \/ Die \/ DieUnscrubbed
  BY <1>3, LandStep, DieStep
<1>4. CASE Stop
  <2>1. up /\ ~pending.on /\ up' = FALSE /\ UNCHANGED <<file, chain, legacy, pending, ready, wanted, shaky>>
    BY <1>4 DEF Stop, vault
  <2> QED BY <2>1 DEF SecretInv, SecretTypes, Unscrubbed, Remembered, Landing, ReadOf, Nothing, Contents
<1>5. CASE UNCHANGED secrets
  <2>1. UNCHANGED <<up, file, chain, legacy, pending, ready, wanted, shaky>>
    BY <1>5 DEF secrets, vault
  <2> QED BY <2>1 DEF SecretInv, SecretTypes, Unscrubbed, Remembered, Landing, ReadOf, Nothing, Contents
<1> QED BY <1>1, <1>2, <1>3, <1>4, <1>5 DEF SecretNext

\* A running backend reads every credential back as the user last left it, or
\* for the moment of a write under way not at all, of every key the keychain or a
\* torn write has not disturbed: through saves, deletions, failing writes, the
\* migration out of an older version's payload, and starts that die in the middle
\* of it (secret_store.py, state_store/settings.py).
THEOREM CredentialsKept == SecretSpec => []SecretsKept
<1>1. SecretInv => SecretsKept
  <2> SUFFICES ASSUME SecretInv, up, NEW k \in Keys \ shaky
               PROVE  ReadValue(k) = wanted[k] \/ (pending.on /\ ReadValue(k) = "")
    BY DEF SecretsKept
  <2>1. legacy = Nothing
    BY DEF SecretInv, Unscrubbed
  <2>2. ReadValue(k) = ReadOf(file)[k]
    BY DEF ReadValue, ReadBy, ReadOf
  <2> QED BY <2>1, <2>2 DEF SecretInv, Remembered, Landing
<1> QED BY <1>1, SecretInvInit, SecretInvStep, PTL DEF SecretSpec
(***************************************************************************)
(* The trading desk.                                                       *)
(***************************************************************************)
\* What OrdersGated rests on: a confirmation in force was saved with a usable
\* keychain, adopted rules are clamped, the cap in force is never looser than the
\* loosest of the day, and every order of the day left a row or is counted lost.
Filled == [client : {Broker}, stop : {t.stop : t \in Tickets}, custody : BOOLEAN, lawful : BOOLEAN]
DeskTypes ==
    /\ confirmed \in BOOLEAN
    /\ custody \in BOOLEAN
    /\ filed \in Nat
    /\ lost \in Nat
    /\ loosest \in Nat
    /\ placed \in Seq(Filled)
    /\ law = NoLaw \/ law.cap \in 1..50
DeskInv ==
    /\ DeskTypes
    /\ confirmed => custody
    /\ loosest > 0 => law # NoLaw /\ law.cap <= loosest
    /\ Len(placed) <= filed + lost
    /\ OrdersGated

\* The larger and the smaller of two numbers.
LEMMA MaxOfTwo == \A a, b \in Int : Max({a, b}) = IF a >= b THEN a ELSE b
<1> SUFFICES ASSUME NEW a \in Int, NEW b \in Int PROVE Max({a, b}) = IF a >= b THEN a ELSE b
  OBVIOUS
<1> DEFINE m == IF a >= b THEN a ELSE b
<1>1. m \in {a, b} /\ \A y \in {a, b} : m >= y
  OBVIOUS
<1>2. \A x \in {a, b} : (\A y \in {a, b} : x >= y) => x = m
  OBVIOUS
<1> QED BY <1>1, <1>2 DEF Max

\* The lesser of two integers.
LEMMA MinOfTwo == \A a, b \in Int : Min({a, b}) = IF a <= b THEN a ELSE b
<1> SUFFICES ASSUME NEW a \in Int, NEW b \in Int PROVE Min({a, b}) = IF a <= b THEN a ELSE b
  OBVIOUS
<1> DEFINE m == IF a <= b THEN a ELSE b
<1>1. m \in {a, b} /\ \A y \in {a, b} : m <= y
  OBVIOUS
<1>2. \A x \in {a, b} : (\A y \in {a, b} : x <= y) => x = m
  OBVIOUS
<1> QED BY <1>1, <1>2 DEF Min

\* Whatever a user asks for, the cap adopted is between one ticket and fifty.
LEMMA ClampedCap ==
    ASSUME NEW rules \in RuleBook
    PROVE  Clamped(rules).cap \in 1..50
<1>1. rules \in [cap : Int, risk : Int, stop : BOOLEAN, reason : BOOLEAN]
  BY DeskAssumption
<1>2. Clamped(rules).cap = Max({1, Min({50, rules.cap})})
  BY <1>1 DEF Clamped
<1>3. Min({50, rules.cap}) = IF 50 <= rules.cap THEN 50 ELSE rules.cap
  BY <1>1, MinOfTwo
<1> DEFINE small == Min({50, rules.cap})
<1>4. small \in Int /\ small <= 50
  BY <1>1, <1>3
<1> HIDE DEF small
<1>5. Max({1, small}) = IF 1 >= small THEN 1 ELSE small
  BY <1>4, MaxOfTwo
<1>6. Max({1, small}) \in 1..50
  BY <1>4, <1>5
<1> QED BY <1>2, <1>6 DEF small

\* A ticket that breaks no rule respects the cap and the stop of the law.
LEMMA Lawful ==
    ASSUME NEW t, Violations(t) = {}, law # NoLaw, filed \in Nat, law.cap \in Nat
    PROVE  filed < law.cap /\ (law.stop => t.stop)
<1>1. "cap" \notin Violations(t) /\ "stop" \notin Violations(t)
  OBVIOUS
<1>2. ~(filed >= law.cap) /\ ~(law.stop /\ ~t.stop)
  BY <1>1 DEF Violations
<1> QED BY <1>2

\* Numbers of the desk's state, and the cap of no law.
LEMMA DeskNumbers ==
    ASSUME DeskInv
    PROVE  /\ filed \in Nat /\ lost \in Nat /\ loosest \in Nat /\ Len(placed) \in Nat
           /\ law.cap \in Nat
           /\ law = NoLaw => law.cap = 0
           /\ loosest > 0 => law # NoLaw /\ law.cap <= loosest
<1>1. filed \in Nat /\ lost \in Nat /\ loosest \in Nat /\ placed \in Seq(Filled)
  BY DEF DeskInv, DeskTypes
<1>2. law = NoLaw => law.cap = 0
  BY DEF NoLaw
<1>3. law = NoLaw \/ law.cap \in 1..50
  BY DEF DeskInv, DeskTypes
<1>4. law.cap \in Nat
  BY <1>2, <1>3
<1>5. loosest > 0 => law # NoLaw /\ law.cap <= loosest
  BY DEF DeskInv
<1>6. Len(placed) \in Nat
  BY <1>1
<1> QED BY <1>1, <1>2, <1>4, <1>5, <1>6

\* What an accepted order is, and why it could be sent.
LEMMA PlacedOrder ==
    ASSUME DeskInv, NEW t \in Tickets, Violations(t) = {}, Gate, Takes(Broker, t)
    PROVE  /\ Order(t) \in Filled
           /\ Order(t).custody /\ Order(t).lawful
<1>1. custody = TRUE
  BY DEF Gate, DeskInv, DeskTypes
<1>2. law = NoLaw \/ (filed < law.cap /\ (law.stop => t.stop))
  BY Lawful, DeskNumbers
<1>3. Order(t) = [client |-> Broker, stop |-> t.stop, custody |-> TRUE, lawful |-> TRUE]
  BY <1>1, <1>2 DEF Order
<1> QED BY <1>3 DEF Filled

\* An order more, with or without its row.
LEMMA PlaceStep ==
    ASSUME DeskInv, NEW t \in Tickets, PlaceLive(t) \/ PlaceUnrecorded(t)
    PROVE  DeskInv'
<1> DEFINE o == Order(t)
<1>1. /\ Violations(t) = {} /\ Gate /\ Takes(Broker, t)
      /\ placed' = Append(placed, o)
      /\ UNCHANGED <<confirmed, law, custody, loosest>>
      /\ \/ filed' = filed + 1 /\ lost' = lost
         \/ filed' = filed /\ lost' = lost + 1
  BY DEF PlaceLive, PlaceUnrecorded
<1>2. o \in Filled /\ o.custody /\ o.lawful
  BY <1>1, PlacedOrder
<1> HIDE DEF o
<1>3. Filled' = Filled
  BY DEF Filled, Broker
<1>4. DeskTypes'
  <2>1. filed' \in Nat /\ lost' \in Nat
    BY <1>1 DEF DeskInv, DeskTypes
  <2>2. placed' \in Seq(Filled)
    BY <1>1, <1>2 DEF DeskInv, DeskTypes
  <2> QED BY <1>1, <1>3, <2>1, <2>2 DEF DeskInv, DeskTypes
<1>5. Len(placed') = Len(placed) + 1 /\ Len(placed) \in Nat
  BY <1>1, <1>2 DEF DeskInv, DeskTypes
<1>6. \A i \in DOMAIN placed' : placed'[i] = o \/ (i \in DOMAIN placed /\ placed'[i] = placed[i])
  BY <1>1, <1>2 DEF DeskInv, DeskTypes
<1>7. filed' = filed + 1 /\ loosest > 0 => filed' <= loosest
  <2> SUFFICES ASSUME filed' = filed + 1, loosest > 0 PROVE filed' <= loosest
    OBVIOUS
  <2>1. law # NoLaw /\ law.cap <= loosest /\ law.cap \in Nat /\ filed \in Nat /\ loosest \in Nat
    BY DeskNumbers
  <2>2. filed < law.cap
    BY <1>1, <2>1, Lawful
  <2> QED BY <2>1, <2>2
<1>8. filed \in Nat /\ lost \in Nat /\ loosest \in Nat /\ Len(placed) <= filed + lost
      /\ (loosest > 0 => filed <= loosest)
  BY DEF DeskInv, DeskTypes, OrdersGated
<1>9. Len(placed') <= filed' + lost'
  BY <1>1, <1>5, <1>8
<1>10. loosest > 0 => filed' <= loosest /\ Len(placed') <= loosest + lost'
  BY <1>1, <1>5, <1>7, <1>8, <1>9
<1>11. \A i \in DOMAIN placed' : placed'[i].custody /\ placed'[i].lawful
  BY <1>2, <1>6 DEF DeskInv, OrdersGated
<1>12. OrdersGated'
  BY <1>1, <1>10, <1>11 DEF OrdersGated
<1> QED BY <1>1, <1>4, <1>9, <1>12 DEF DeskInv

\* Every step of the desk, or of the store under it, keeps the invariant.
LEMMA DeskInvStep == DeskInv /\ [DeskNext]_<<secrets, desk>> => DeskInv'
<1> SUFFICES ASSUME DeskInv, [DeskNext]_<<secrets, desk>> PROVE DeskInv'
  OBVIOUS
<1>0. Filled' = Filled
  BY DEF Filled, Broker
<1>1. ASSUME NEW m \in Modes, NEW c \in BOOLEAN, UpdateSafety(m, c) PROVE DeskInv'
  <2>1. confirmed' = c /\ custody' = (c /\ ready) /\ (c => ready) /\ UNCHANGED <<law, filed, placed, lost, loosest>>
    BY <1>1 DEF UpdateSafety
  <2>2. custody' \in BOOLEAN /\ (c => custody')
    BY <2>1
  <2> QED BY <1>0, <2>1, <2>2 DEF DeskInv, DeskTypes, OrdersGated
<1>2. ASSUME NEW r \in RuleBook, AdoptRules(r) PROVE DeskInv'
  <2> DEFINE new == Clamped(r)
  <2>1. /\ law' = new
        /\ loosest' = IF loosest > 0 THEN Max({loosest, new.cap}) ELSE 0
        /\ UNCHANGED <<confirmed, filed, placed, lost, custody>>
    BY <1>2 DEF AdoptRules
  <2>2. new.cap \in 1..50
    BY ClampedCap
  <2>3. new # NoLaw
    BY <2>2 DEF NoLaw
  <2> HIDE DEF new
  <2>4. loosest' \in Nat /\ (loosest > 0 => loosest' > 0 /\ loosest' >= loosest /\ loosest' >= new.cap)
        /\ (loosest' > 0 => loosest > 0)
    <3>0. new.cap \in Int
      BY <2>2
    <3>1. loosest \in Int /\ new.cap \in Int /\ loosest \in Nat
      BY <3>0, DeskNumbers
    <3>2. Max({loosest, new.cap}) = IF loosest >= new.cap THEN loosest ELSE new.cap
      BY <3>1, MaxOfTwo
    <3> QED BY <2>1, <2>2, <3>1, <3>2
  <2>5. DeskTypes'
    BY <1>0, <2>1, <2>2, <2>4 DEF DeskInv, DeskTypes
  <2>6. OrdersGated'
    <3>1. filed \in Nat /\ lost \in Nat /\ loosest \in Nat /\ Len(placed) \in Nat
      BY DEF DeskInv, DeskTypes
    <3> QED BY <2>1, <2>4, <3>1 DEF DeskInv, OrdersGated
  <2> QED BY <2>1, <2>3, <2>4, <2>5, <2>6 DEF DeskInv
<1>3. ASSUME NEW t \in Tickets, FilePaper(t) PROVE DeskInv'
  <2>1. Violations(t) = {} /\ filed' = filed + 1 /\ UNCHANGED <<confirmed, law, placed, lost, custody, loosest>>
    BY <1>3 DEF FilePaper
  <2>2. loosest > 0 => filed < law.cap /\ law.cap <= loosest
    BY <2>1, Lawful, DeskNumbers
  <2>3. /\ filed \in Nat /\ lost \in Nat /\ loosest \in Nat /\ Len(placed) \in Nat
        /\ law.cap \in Nat
    BY DeskNumbers
  <2>4. filed' \in Nat /\ (loosest > 0 => filed' <= loosest)
    BY <2>1, <2>2, <2>3
  <2>5. Len(placed) <= filed' + lost
    BY <2>1, <2>3 DEF DeskInv
  <2> QED BY <1>0, <2>1, <2>4, <2>5 DEF DeskInv, DeskTypes, OrdersGated
<1>4. ASSUME NextDay PROVE DeskInv'
  <2>1. /\ filed' = 0 /\ placed' = <<>> /\ lost' = 0 /\ loosest' = law.cap
        /\ UNCHANGED <<confirmed, law, custody>>
    BY <1>4 DEF NextDay
  <2>2. law.cap \in Nat /\ (law = NoLaw => law.cap = 0)
    BY DeskNumbers
  <2> QED BY <1>0, <2>1, <2>2 DEF DeskInv, DeskTypes, OrdersGated
<1>5. CASE UNCHANGED desk
  BY <1>0, <1>5 DEF desk, DeskInv, DeskTypes, OrdersGated
<1> QED BY <1>1, <1>2, <1>3, <1>4, <1>5, PlaceStep DEF DeskNext, desk

\* No order reaches a broker but under a confirmation saved with a usable
\* keychain and on a ticket within the constitution; and a day begun under one
\* files no more than its loosest cap allows, and places no more but for orders
\* whose row could not be written (constitution.py, trading.py).
THEOREM OrdersAreGated == DeskSpec => []OrdersGated
<1>1. DeskInit => DeskInv
  <2> SUFFICES ASSUME DeskInit PROVE DeskInv
    OBVIOUS
  <2>1. placed = <<>> /\ placed \in Seq(Filled) /\ Len(placed) = 0 /\ DOMAIN placed = {}
    BY DEF DeskInit
  <2>2. confirmed = FALSE /\ custody = FALSE /\ law = NoLaw /\ filed = 0 /\ lost = 0 /\ loosest = 0
    BY DEF DeskInit
  <2>3. DeskTypes
    BY <2>1, <2>2 DEF DeskTypes
  <2>4. OrdersGated
    BY <2>1, <2>2 DEF OrdersGated
  <2> QED BY <2>1, <2>2, <2>3, <2>4 DEF DeskInv
<1>2. DeskInv => OrdersGated
  BY DEF DeskInv
<1> QED BY <1>1, <1>2, DeskInvStep, PTL DEF DeskSpec
(***************************************************************************)
(* The event bus.                                                          *)
(***************************************************************************)
\* What a socket was sent and has waiting, and when such a sequence is in order:
\* publisher by publisher the numbers grow.
Event == Publishers \X Nat
All(s) == sent[s] \o queue[s]
InOrder(all) ==
    \A i, j \in DOMAIN all : (i < j /\ all[i][1] = all[j][1]) => all[i][2] < all[j][2]

\* A publisher's number is not handed out twice: what is there is numbered up to
\* its count, and below it while the socket is still among those it has left.
Walk == [at : {"rest", "test", "drop", "pop", "put", "append"}, left : SUBSET Sockets,
         now : Sockets \cup {"none"}, crossed : BOOLEAN]
BusTypes ==
    /\ subscribed \subseteq Sockets
    /\ queue \in [Sockets -> Seq(Event)]
    /\ sent \in [Sockets -> Seq(Event)]
    /\ count \in [Publishers -> Nat]
    /\ pub \in [Publishers -> Walk]
Bound(all, s) ==
    \A i \in DOMAIN all :
        /\ all[i][2] <= count[all[i][1]]
        /\ s \in pub[all[i][1]].left => all[i][2] < count[all[i][1]]
AtQueue == \A p \in Publishers : pub[p].at \in {"drop", "pop", "put", "append"} => pub[p].now \in pub[p].left

\* Room found, or made, stays unless another publisher fills it.
Roomy(p) ==
    ~pub[p].crossed =>
        /\ pub[p].at = "put" => Len(queue[pub[p].now]) < QueueMax
        /\ pub[p].at \in {"drop", "pop"} => Len(queue[pub[p].now]) <= QueueMax
RoomFound == \A p \in Publishers : Roomy(p)

\* The publishers that found room at a queue and have not appended yet count as
\* if they had.
Filling(s) == {p \in Publishers : pub[p].at = "append" /\ pub[p].now = s}
QueuesBounded ==
    \A s \in Sockets : Len(queue[s]) + Cardinality(Filling(s)) <= QueueMax + Cardinality(Publishers) - 1
Sequenced == \A s \in Sockets : InOrder(All(s)) /\ Bound(All(s), s)
NoneLost == \A x \in skipped : x[3] # "alone"
BusInv == BusTypes /\ AtQueue /\ RoomFound /\ QueuesBounded /\ Sequenced /\ NoneLost

\* The elements of two sequences one after the other.
LEMMA ConcatElements ==
    ASSUME NEW S, NEW a \in Seq(S), NEW b \in Seq(S)
    PROVE  /\ a \o b \in Seq(S) /\ Len(a \o b) = Len(a) + Len(b) /\ Len(a) \in Nat /\ Len(b) \in Nat
           /\ DOMAIN (a \o b) = 1..(Len(a) + Len(b)) /\ DOMAIN a = 1..Len(a) /\ DOMAIN b = 1..Len(b)
           /\ \A i \in 1..(Len(a) + Len(b)) : (a \o b)[i] = IF i <= Len(a) THEN a[i] ELSE b[i - Len(a)]
<1>1. a \o b \in Seq(S) /\ Len(a \o b) = Len(a) + Len(b)
  BY ConcatProperties
<1>2. Len(a) \in Nat /\ Len(b) \in Nat /\ DOMAIN a = 1..Len(a) /\ DOMAIN b = 1..Len(b)
  BY LenProperties
<1>3. DOMAIN (a \o b) = 1..(Len(a) + Len(b))
  BY <1>1, LenProperties
<1>4. \A i \in 1..(Len(a) + Len(b)) : (a \o b)[i] = IF i <= Len(a) THEN a[i] ELSE b[i - Len(a)]
  BY ConcatProperties
<1> QED BY <1>1, <1>2, <1>3, <1>4

\* The tail of a sequence that is not empty.
LEMMA TailElements ==
    ASSUME NEW S, NEW b \in Seq(S), b # <<>>
    PROVE  /\ Tail(b) \in Seq(S) /\ Head(b) \in S /\ Len(b) \in Nat /\ Len(b) > 0 /\ Head(b) = b[1]
           /\ Len(Tail(b)) = Len(b) - 1
           /\ \A i \in 1..(Len(b) - 1) : Tail(b)[i] = b[i + 1]
<1>1. Len(b) \in Nat /\ Len(b) # 0
  BY EmptySeq
<1>2. Tail(b) \in Seq(S) /\ Head(b) \in S /\ Len(Tail(b)) = Len(b) - 1
      /\ \A i \in 1..Len(Tail(b)) : Tail(b)[i] = b[i + 1]
  BY HeadTailProperties
<1>3. Head(b) = b[1]
  OBVIOUS
<1> QED BY <1>1, <1>2, <1>3

\* Sending takes nothing away and changes no order.
LEMMA SendKeepsAll ==
    ASSUME NEW S, NEW a \in Seq(S), NEW b \in Seq(S), b # <<>>
    PROVE  Append(a, Head(b)) \o Tail(b) = a \o b
<1> DEFINE c == Append(a, Head(b))
           m == Len(a)
           n == Len(b)
<1>1. Tail(b) \in Seq(S) /\ Head(b) \in S /\ n \in Nat /\ n > 0 /\ Len(Tail(b)) = n - 1 /\ Head(b) = b[1]
      /\ \A i \in 1..(n - 1) : Tail(b)[i] = b[i + 1]
  BY TailElements
<1>2. c \in Seq(S) /\ m \in Nat /\ Len(c) = m + 1 /\ c[m + 1] = Head(b)
      /\ \A i \in 1..m : c[i] = a[i]
  BY <1>1, AppendProperties
<1>3. c \o Tail(b) \in Seq(S) /\ Len(c \o Tail(b)) = m + n
      /\ \A i \in 1..(m + n) : (c \o Tail(b))[i] = IF i <= m + 1 THEN c[i] ELSE Tail(b)[i - (m + 1)]
  <2> HIDE DEF c, m, n
  <2>1. /\ c \o Tail(b) \in Seq(S)
        /\ Len(c \o Tail(b)) = Len(c) + Len(Tail(b))
        /\ \A i \in 1..(Len(c) + Len(Tail(b))) :
              (c \o Tail(b))[i] = IF i <= Len(c) THEN c[i] ELSE Tail(b)[i - Len(c)]
    BY <1>1, <1>2, ConcatElements
  <2>2. Len(c) + Len(Tail(b)) = m + n
    BY <1>1, <1>2
  <2> QED BY <2>1, <2>2, <1>2
<1>4. a \o b \in Seq(S) /\ Len(a \o b) = m + n
      /\ \A i \in 1..(m + n) : (a \o b)[i] = IF i <= m THEN a[i] ELSE b[i - m]
  BY ConcatElements
<1> HIDE DEF c, m, n
<1>5. ASSUME NEW i \in 1..(m + n) PROVE (c \o Tail(b))[i] = (a \o b)[i]
  <2>1. i \in Nat /\ i >= 1 /\ i <= m + n
    BY <1>1, <1>2
  <2>2. CASE i <= m
    BY <2>1, <2>2, <1>2, <1>3, <1>4
  <2>3. CASE i = m + 1
    <3>1. i - m = 1 /\ ~(i <= m)
      BY <2>3, <1>2
    <3> QED BY <3>1, <2>1, <2>3, <1>1, <1>2, <1>3, <1>4
  <2>4. CASE i > m + 1
    <3> DEFINE k == i - (m + 1)
    <3>1. k \in 1..(n - 1) /\ k + 1 = i - m /\ ~(i <= m) /\ ~(i <= m + 1)
      BY <2>1, <2>4, <1>1, <1>2
    <3>2. (c \o Tail(b))[i] = Tail(b)[k]
      BY <3>1, <1>3
    <3>3. (a \o b)[i] = b[k + 1]
      BY <3>1, <1>4
    <3> QED BY <3>1, <3>2, <3>3, <1>1
  <2>5. m \in Nat
    BY <1>2
  <2>6. i <= m \/ i = m + 1 \/ i > m + 1
    BY <2>1, <2>5
  <2> QED BY <2>2, <2>3, <2>4, <2>6
<1> QED BY <1>3, <1>4, <1>5, SeqEqual

\* An event dropped at the front of the queue leaves the others in order.
LEMMA DropKeepsOrder ==
    ASSUME NEW a \in Seq(Event), NEW b \in Seq(Event), b # <<>>
    PROVE  /\ InOrder(a \o b) => InOrder(a \o Tail(b))
           /\ \A s : Bound(a \o b, s) => Bound(a \o Tail(b), s)
<1> DEFINE m == Len(a)
           n == Len(b)
           old == a \o b
           new == a \o Tail(b)
           at(i) == IF i <= m THEN i ELSE i + 1
<1>1. Tail(b) \in Seq(Event) /\ n \in Nat /\ n > 0 /\ Len(Tail(b)) = n - 1
      /\ \A i \in 1..(n - 1) : Tail(b)[i] = b[i + 1]
  BY TailElements
<1>2. m \in Nat /\ DOMAIN old = 1..(m + n)
      /\ \A i \in 1..(m + n) : old[i] = IF i <= m THEN a[i] ELSE b[i - m]
  BY ConcatElements
<1>3. DOMAIN new = 1..(m + Len(Tail(b)))
      /\ \A i \in 1..(m + Len(Tail(b))) : new[i] = IF i <= m THEN a[i] ELSE Tail(b)[i - m]
  BY <1>1, ConcatElements
<1>4. m + Len(Tail(b)) = (m + n) - 1
  BY <1>1, <1>2
<1>5. DOMAIN new = 1..((m + n) - 1)
      /\ \A i \in 1..((m + n) - 1) : new[i] = IF i <= m THEN a[i] ELSE Tail(b)[i - m]
  BY <1>3, <1>4
<1> HIDE DEF m, n, old, new
<1>6. \A i \in DOMAIN new : at(i) \in DOMAIN old /\ new[i] = old[at(i)]
  <2> SUFFICES ASSUME NEW i \in DOMAIN new PROVE at(i) \in DOMAIN old /\ new[i] = old[at(i)]
    OBVIOUS
  <2>1. i \in Nat /\ i >= 1 /\ i <= (m + n) - 1
    BY <1>1, <1>2, <1>5
  <2>2. CASE i <= m
    BY <2>1, <2>2, <1>1, <1>2, <1>5
  <2>3. CASE ~(i <= m)
    <3>1. (i - m) \in 1..(n - 1) /\ (i - m) + 1 = (i + 1) - m /\ i + 1 \in 1..(m + n) /\ ~(i + 1 <= m)
      BY <2>1, <2>3, <1>1, <1>2
    <3>2. new[i] = Tail(b)[i - m]
      BY <2>3, <1>5
    <3>3. old[i + 1] = b[(i + 1) - m]
      BY <3>1, <1>2
    <3> QED BY <3>1, <3>2, <3>3, <2>3, <1>1, <1>2
  <2> QED BY <2>2, <2>3
<1>7. \A i, j \in DOMAIN new : i < j => at(i) < at(j)
  BY <1>1, <1>2, <1>5
<1>8. InOrder(old) => InOrder(new)
  <2> HIDE DEF at
  <2> QED BY <1>6, <1>7 DEF InOrder
<1>9. ASSUME NEW s, Bound(old, s) PROVE Bound(new, s)
  <2> HIDE DEF at
  <2> QED BY <1>6, <1>9 DEF Bound
<1> QED BY <1>8, <1>9 DEF old, new

\* An event put behind those of smaller numbers.
LEMMA PutKeepsOrder ==
    ASSUME NEW a \in Seq(Event), NEW b \in Seq(Event), NEW e \in Event, InOrder(a \o b),
           \A i \in DOMAIN (a \o b) : (a \o b)[i][1] = e[1] => (a \o b)[i][2] < e[2]
    PROVE  /\ InOrder(a \o Append(b, e))
           /\ \A i \in DOMAIN (a \o Append(b, e)) :
                 \/ (a \o Append(b, e))[i] = e
                 \/ i \in DOMAIN (a \o b) /\ (a \o Append(b, e))[i] = (a \o b)[i]
<1> DEFINE m == Len(a)
           n == Len(b)
           old == a \o b
           more == Append(b, e)
           new == a \o more
<1>1. more \in Seq(Event) /\ n \in Nat /\ Len(more) = n + 1 /\ more[n + 1] = e
      /\ \A i \in 1..n : more[i] = b[i]
  BY AppendProperties
<1> HIDE DEF more
<1>2. m \in Nat /\ DOMAIN old = 1..(m + n)
      /\ \A i \in 1..(m + n) : old[i] = IF i <= m THEN a[i] ELSE b[i - m]
  BY ConcatElements
<1>3. DOMAIN new = 1..(m + Len(more))
      /\ \A i \in 1..(m + Len(more)) : new[i] = IF i <= m THEN a[i] ELSE more[i - m]
  <2>1. more \in Seq(Event)
    BY <1>1
  <2>2. \A c \in Seq(Event) :
           /\ DOMAIN (a \o c) = 1..(Len(a) + Len(c))
           /\ \A i \in 1..(Len(a) + Len(c)) : (a \o c)[i] = IF i <= Len(a) THEN a[i] ELSE c[i - Len(a)]
    BY ConcatElements
  <2> QED BY <2>1, <2>2
<1>4. m + Len(more) = (m + n) + 1
  BY <1>1, <1>2
<1>5. DOMAIN new = 1..((m + n) + 1)
      /\ \A i \in 1..((m + n) + 1) : new[i] = IF i <= m THEN a[i] ELSE more[i - m]
  BY <1>3, <1>4
<1>6. InOrder(old) /\ \A i \in DOMAIN old : old[i][1] = e[1] => old[i][2] < e[2]
  OBVIOUS
<1> HIDE DEF m, n, old, new
<1>7. \A i \in DOMAIN new : (i = (m + n) + 1 /\ new[i] = e) \/ (i \in DOMAIN old /\ new[i] = old[i])
  <2> SUFFICES ASSUME NEW i \in DOMAIN new
               PROVE  (i = (m + n) + 1 /\ new[i] = e) \/ (i \in DOMAIN old /\ new[i] = old[i])
    OBVIOUS
  <2>1. i \in Nat /\ i >= 1 /\ i <= (m + n) + 1
    BY <1>1, <1>2, <1>5
  <2>2. CASE i <= m
    BY <2>1, <2>2, <1>1, <1>2, <1>5
  <2>3. CASE ~(i <= m) /\ i # (m + n) + 1
    <3>1. (i - m) \in 1..n /\ i \in 1..(m + n)
      BY <2>1, <2>3, <1>1, <1>2
    <3> QED BY <3>1, <2>3, <1>1, <1>2, <1>5
  <2>4. CASE i = (m + n) + 1
    <3>1. i - m = n + 1 /\ ~(i <= m)
      BY <2>4, <1>1, <1>2
    <3>2. new[i] = more[n + 1]
      BY <3>1, <1>5
    <3> QED BY <3>2, <2>4, <1>1
  <2> QED BY <2>2, <2>3, <2>4
<1>8. ASSUME NEW i \in DOMAIN new, NEW j \in DOMAIN new, i < j, new[i][1] = new[j][1]
      PROVE  new[i][2] < new[j][2]
  <2>1. i \in DOMAIN old /\ new[i] = old[i]
    <3>1. i # (m + n) + 1
      BY <1>8, <1>1, <1>2, <1>5
    <3> QED BY <3>1, <1>7
  <2>2. CASE j \in DOMAIN old /\ new[j] = old[j]
    BY <2>1, <2>2, <1>6, <1>8 DEF InOrder
  <2>3. CASE new[j] = e
    BY <2>1, <2>3, <1>6, <1>8
  <2> QED BY <2>2, <2>3, <1>7
<1> QED BY <1>7, <1>8 DEF InOrder, old, new, more

\* Elements of a socket's sequence are events, whatever else is known of it.
LEMMA AllEvents ==
    ASSUME BusTypes, NEW s \in Sockets
    PROVE  /\ sent[s] \in Seq(Event) /\ queue[s] \in Seq(Event) /\ All(s) \in Seq(Event)
           /\ \A i \in DOMAIN All(s) : All(s)[i] \in Event /\ All(s)[i][1] \in Publishers /\ All(s)[i][2] \in Nat
<1>1. sent[s] \in Seq(Event) /\ queue[s] \in Seq(Event)
  BY DEF BusTypes
<1>2. All(s) \in Seq(Event)
  BY <1>1, ConcatProperties DEF All
<1>3. \A i \in DOMAIN All(s) : All(s)[i] \in Event
  BY <1>2, ElementOfSeq, LenProperties
<1> QED BY <1>1, <1>2, <1>3 DEF Event

\* Where publishers stand at a queue is a finite matter.
LEMMA FillingFinite ==
    ASSUME NEW s
    PROVE  IsFiniteSet(Filling(s)) /\ Cardinality(Filling(s)) \in Nat
           /\ Cardinality(Filling(s)) <= Cardinality(Publishers) /\ Cardinality(Publishers) \in Nat
<1>1. Filling(s) \in SUBSET Publishers
  BY DEF Filling
<1> QED BY <1>1, BusAssumption, FS_Subset, FS_CardinalityType

\* A step that lengthens no queue and lets no publisher find room keeps the bound.
LEMMA BoundsStay ==
    ASSUME BusTypes, BusTypes', QueuesBounded,
           \A t \in Sockets : Len(queue'[t]) <= Len(queue[t]) /\ Filling(t)' \subseteq Filling(t)
    PROVE  QueuesBounded'
<1> SUFFICES ASSUME NEW t \in Sockets
             PROVE  Len(queue'[t]) + Cardinality(Filling(t)') <= QueueMax + Cardinality(Publishers) - 1
  BY DEF QueuesBounded
<1>1. Len(queue[t]) \in Nat /\ Len(queue'[t]) \in Nat
  BY LenProperties DEF BusTypes
<1>2. Filling(t)' \in SUBSET Filling(t) /\ IsFiniteSet(Filling(t)) /\ Cardinality(Filling(t)) \in Nat
      /\ Cardinality(Publishers) \in Nat
  BY FillingFinite
<1>3. IsFiniteSet(Filling(t)') /\ Cardinality(Filling(t)') <= Cardinality(Filling(t))
  BY <1>2, FS_Subset
<1>4. Cardinality(Filling(t)') \in Nat
  BY <1>3, FS_CardinalityType
<1>5. Len(queue[t]) + Cardinality(Filling(t)) <= QueueMax + Cardinality(Publishers) - 1
  BY DEF QueuesBounded
<1> QED BY <1>1, <1>2, <1>3, <1>4, <1>5, BusAssumption

\* A step of one publisher, or of none, that lengthens no queue takes no room from
\* the others.
LEMMA RoomStays ==
    ASSUME BusTypes, BusTypes', AtQueue, RoomFound, NEW p,
           \A q \in Publishers : q # p => pub'[q] = pub[q],
           p \in Publishers => Roomy(p)',
           \A t \in Sockets : Len(queue'[t]) <= Len(queue[t])
    PROVE  RoomFound'
<1> SUFFICES ASSUME NEW q \in Publishers, q # p PROVE Roomy(q)'
  BY DEF RoomFound
<1>1. Roomy(q) /\ pub'[q] = pub[q]
  BY DEF RoomFound
<1>2. ASSUME pub[q].at \in {"drop", "pop", "put"}
      PROVE  /\ Len(queue[pub[q].now]) \in Nat /\ Len(queue'[pub[q].now]) \in Nat
             /\ Len(queue'[pub[q].now]) <= Len(queue[pub[q].now])
  <2>1. pub[q].now \in Sockets
    BY <1>2 DEF BusTypes, Walk, AtQueue
  <2> QED BY <2>1, LenProperties DEF BusTypes
<1> QED BY <1>1, <1>2, BusAssumption DEF Roomy

\* A step that moves no event keeps the order.
LEMMA OrderStays ==
    ASSUME BusTypes, Sequenced, UNCHANGED <<queue, sent, count>>,
           \A q \in Publishers : pub'[q].left \subseteq pub[q].left
    PROVE  Sequenced'
<1> SUFFICES ASSUME NEW t \in Sockets PROVE InOrder(All(t))' /\ Bound(All(t), t)'
  BY DEF Sequenced
<1>1. All(t)' = All(t) /\ InOrder(All(t)) /\ Bound(All(t), t)
  BY DEF All, Sequenced
<1>2. \A i \in DOMAIN All(t) : All(t)[i][1] \in Publishers
  BY AllEvents
<1> QED BY <1>1, <1>2 DEF InOrder, Bound

\* A connection made or lost, or an event found, changes no queue.
LEMMA SubscribeStep ==
    ASSUME BusInv, NEW s \in Sockets, Subscribe(s) \/ Unsubscribe(s) \/ Find(s) \/ SendFails(s)
    PROVE  BusInv'
<1>1. subscribed' \subseteq Sockets /\ UNCHANGED <<queue, sent, pub, count, skipped>>
  BY DEF Subscribe, Unsubscribe, Find, SendFails, BusInv, BusTypes
<1>2. BusTypes'
  BY <1>1 DEF BusInv, BusTypes, Event, Walk
<1>3. AtQueue' /\ RoomFound' /\ QueuesBounded' /\ NoneLost'
  BY <1>1 DEF BusInv, AtQueue, RoomFound, Roomy, QueuesBounded, Filling, NoneLost
<1>4. Sequenced'
  BY <1>1, OrderStays DEF BusInv
<1> QED BY <1>2, <1>3, <1>4 DEF BusInv

\* An event taken leaves room and keeps the order.
LEMMA SendStep ==
    ASSUME BusInv, NEW s \in Sockets, Send(s)
    PROVE  BusInv'
<1>1. /\ queue[s] # <<>> /\ UNCHANGED <<subscribed, pub, count, skipped>>
      /\ sent' = [sent EXCEPT ![s] = Append(@, Head(queue[s]))]
      /\ queue' = [queue EXCEPT ![s] = Tail(@)]
  BY DEF Send
<1>2. sent[s] \in Seq(Event) /\ queue[s] \in Seq(Event)
  BY AllEvents DEF BusInv
<1>3. Tail(queue[s]) \in Seq(Event) /\ Head(queue[s]) \in Event /\ Len(Tail(queue[s])) = Len(queue[s]) - 1
      /\ Len(queue[s]) \in Nat
  BY <1>1, <1>2, TailElements
<1>4. Append(sent[s], Head(queue[s])) \in Seq(Event)
  BY <1>2, <1>3, AppendProperties
<1> DEFINE given == Append(sent[s], Head(queue[s]))
           rest == Tail(queue[s])
<1>5. given \o rest = sent[s] \o queue[s]
  BY <1>1, <1>2, SendKeepsAll
<1> HIDE DEF given, rest
<1>6. sent' = [sent EXCEPT ![s] = given] /\ queue' = [queue EXCEPT ![s] = rest]
      /\ given \in Seq(Event) /\ rest \in Seq(Event)
  BY <1>1, <1>3, <1>4 DEF given, rest
<1>7. queue \in [Sockets -> Seq(Event)] /\ sent \in [Sockets -> Seq(Event)]
  BY DEF BusInv, BusTypes, Walk
<1>8. BusTypes'
  <2>1. queue' \in [Sockets -> Seq(Event)] /\ sent' \in [Sockets -> Seq(Event)]
    BY <1>6, <1>7
  <2>2. subscribed' \subseteq Sockets /\ count' \in [Publishers -> Nat] /\ pub' \in [Publishers -> Walk]
    BY <1>1 DEF BusInv, BusTypes
  <2>3. Event' = Event /\ Walk' = Walk
    BY DEF Event, Walk
  <2> QED BY <2>1, <2>2, <2>3 DEF BusTypes
<1>9. ASSUME NEW t \in Sockets PROVE All(t)' = All(t)
  BY <1>5, <1>6, <1>7 DEF All
<1>10. Sequenced'
  BY <1>1, <1>9 DEF BusInv, Sequenced, InOrder, Bound
<1>11. \A t \in Sockets : Len(queue'[t]) <= Len(queue[t]) /\ Len(queue'[t]) \in Nat /\ Len(queue[t]) \in Nat
  <2> SUFFICES ASSUME NEW t \in Sockets
               PROVE  Len(queue'[t]) <= Len(queue[t]) /\ Len(queue'[t]) \in Nat /\ Len(queue[t]) \in Nat
    OBVIOUS
  <2>1. Len(queue[t]) \in Nat
    BY <1>7, LenProperties
  <2>2. CASE t = s
    <3>1. queue'[t] = rest
      BY <1>6, <1>7, <2>2
    <3> QED BY <3>1, <2>2, <1>3, <1>6, LenProperties DEF rest
  <2>3. CASE t # s
    <3>1. queue'[t] = queue[t]
      BY <1>6, <1>7, <2>3
    <3> QED BY <3>1, <2>1
  <2> QED BY <2>2, <2>3
<1>12. QueuesBounded'
  <2>1. \A t \in Sockets : Filling(t)' = Filling(t)
    BY <1>1 DEF Filling
  <2> QED BY <2>1, <1>8, <1>11, BoundsStay DEF BusInv
<1>13. AtQueue' /\ NoneLost'
  BY <1>1 DEF BusInv, AtQueue, NoneLost
<1>14. RoomFound'
  <2>1. PICK p : p \notin Publishers
    BY NoSetContainsEverything
  <2> QED BY <2>1, <1>1, <1>8, <1>11, RoomStays DEF BusInv
<1> QED BY <1>8, <1>10, <1>12, <1>13, <1>14 DEF BusInv

\* A new number is above those handed out, and below it nothing is promised to
\* the sockets the copy of the set holds.
LEMMA PublishStep ==
    ASSUME BusInv, NEW p \in Publishers, Publish(p)
    PROVE  BusInv'
<1>1. /\ pub[p].at = "rest" /\ UNCHANGED <<subscribed, queue, sent, skipped>>
      /\ count' = [count EXCEPT ![p] = @ + 1]
      /\ pub' = [pub EXCEPT ![p] = IF subscribed = {} THEN Resting ELSE [@ EXCEPT !.at = "test", !.left = subscribed]]
  BY DEF Publish
<1>2. BusTypes'
  <2>1. pub[p] \in Walk /\ Resting \in Walk /\ subscribed \in SUBSET Sockets
    BY DEF BusInv, BusTypes, Walk, Resting
  <2>2. [pub[p] EXCEPT !.at = "test", !.left = subscribed] \in Walk
    BY <2>1 DEF Walk
  <2>3. pub' \in [Publishers -> Walk]
    BY <1>1, <2>1, <2>2 DEF BusInv, BusTypes, Walk
  <2>4. count' \in [Publishers -> Nat]
    BY <1>1 DEF BusInv, BusTypes, Walk
  <2> QED BY <1>1, <2>3, <2>4 DEF BusInv, BusTypes, Walk, Event
<1>3. pub'[p].at \in {"rest", "test"} /\ \A q \in Publishers : q # p => pub'[q] = pub[q]
  BY <1>1 DEF BusInv, BusTypes, Walk, Resting
<1>4. AtQueue' /\ RoomFound'
  BY <1>1, <1>3 DEF BusInv, AtQueue, RoomFound, Roomy
<1>5. count'[p] = count[p] + 1 /\ \A q \in Publishers : count[q] \in Nat /\ (q # p => count'[q] = count[q])
  BY <1>1 DEF BusInv, BusTypes, Walk
<1>6. ASSUME NEW s \in Sockets PROVE InOrder(All(s))' /\ Bound(All(s), s)'
  <2>1. All(s)' = All(s)
    BY <1>1 DEF All
  <2> DEFINE all == All(s)
  <2>2. InOrder(all) /\ Bound(all, s) /\ \A i \in DOMAIN all : all[i][1] \in Publishers /\ all[i][2] \in Nat
    BY AllEvents DEF BusInv, Sequenced
  <2> HIDE DEF all
  <2>3. ASSUME NEW i \in DOMAIN all
        PROVE  all[i][2] <= count'[all[i][1]] /\ (s \in pub'[all[i][1]].left => all[i][2] < count'[all[i][1]])
    <3>1. all[i][1] \in Publishers /\ all[i][2] \in Nat /\ all[i][2] <= count[all[i][1]]
          /\ (s \in pub[all[i][1]].left => all[i][2] < count[all[i][1]])
      BY <2>2, <2>3 DEF Bound
    <3>2. CASE all[i][1] = p
      <4>1. count[p] \in Nat /\ count'[p] = count[p] + 1 /\ all[i][2] <= count[p]
        BY <3>1, <3>2, <1>5
      <4> QED BY <4>1, <3>1, <3>2
    <3>3. CASE all[i][1] # p
      BY <3>1, <3>3, <1>3, <1>5
    <3> QED BY <3>2, <3>3
  <2> QED BY <2>1, <2>2, <2>3 DEF InOrder, Bound, all
<1>7. Sequenced'
  BY <1>6 DEF Sequenced
<1>8. QueuesBounded' /\ NoneLost'
  <2>1. \A t \in Sockets : Len(queue'[t]) <= Len(queue[t]) /\ Filling(t)' \subseteq Filling(t)
    <3>1. \A t \in Sockets : Len(queue[t]) \in Nat
      BY LenProperties DEF BusInv, BusTypes
    <3> QED BY <3>1, <1>1, <1>3 DEF Filling
  <2> QED BY <2>1, <1>1, <1>2, BoundsStay DEF BusInv, NoneLost
<1> QED BY <1>2, <1>4, <1>7, <1>8 DEF BusInv

\* A step of a publisher alone, which moves no event and finds no room to append
\* in.
LEMMA WalkStep ==
    ASSUME BusInv, BusTypes', NEW p \in Publishers,
           UNCHANGED <<queue, sent, count>>, NoneLost',
           \A q \in Publishers : q # p => pub'[q] = pub[q],
           pub'[p].at # "append", pub'[p].left \subseteq pub[p].left, Roomy(p)',
           pub'[p].at \in {"drop", "pop", "put"} => pub'[p].now \in pub'[p].left
    PROVE  BusInv'
<1>1. \A q \in Publishers : pub'[q].left \subseteq pub[q].left
  OBVIOUS
<1>2. \A t \in Sockets : Len(queue'[t]) <= Len(queue[t]) /\ Filling(t)' \subseteq Filling(t)
  <2>1. \A t \in Sockets : Len(queue[t]) \in Nat
    BY LenProperties DEF BusInv, BusTypes
  <2> QED BY <2>1 DEF Filling
<1>3. Sequenced'
  BY <1>1, OrderStays DEF BusInv
<1>4. QueuesBounded'
  BY <1>2, BoundsStay DEF BusInv
<1>5. RoomFound'
  BY <1>2, RoomStays DEF BusInv
<1>6. AtQueue'
  <2> SUFFICES ASSUME NEW q \in Publishers, pub'[q].at \in {"drop", "pop", "put", "append"}
               PROVE  pub'[q].now \in pub'[q].left
    BY DEF AtQueue
  <2> QED BY DEF BusInv, AtQueue
<1> QED BY <1>3, <1>4, <1>5, <1>6 DEF BusInv

\* The test of a queue: a queue not full has room.
LEMMA TestStep ==
    ASSUME BusInv, NEW p \in Publishers, NEW s \in Sockets, TestQueue(p, s)
    PROVE  BusInv'
<1>1. /\ s \in pub[p].left /\ UNCHANGED <<subscribed, queue, sent, count, skipped>>
      /\ pub' = [pub EXCEPT ![p] = [@ EXCEPT !.at = IF IsFull(queue[s]) THEN "drop" ELSE "put", !.now = s,
                                             !.crossed = Len(queue[s]) > QueueMax]]
  BY DEF TestQueue
<1>2. PICK at, more : at = (IF IsFull(queue[s]) THEN "drop" ELSE "put") /\ more = (Len(queue[s]) > QueueMax)
  OBVIOUS
<1>3. pub \in [Publishers -> Walk] /\ pub[p] \in Walk /\ at \in {"drop", "put"} /\ more \in BOOLEAN
  BY <1>2 DEF BusInv, BusTypes
<1>4. pub' = [pub EXCEPT ![p] = [pub[p] EXCEPT !.at = at, !.now = s, !.crossed = more]]
  BY <1>1, <1>2
<1>5. BusTypes'
  <2>1. [pub[p] EXCEPT !.at = at, !.now = s, !.crossed = more] \in Walk
    BY <1>3 DEF Walk
  <2>2. pub' \in [Publishers -> Walk]
    BY <1>3, <1>4, <2>1
  <2>3. Event' = Event /\ Walk' = Walk
    BY DEF Event, Walk
  <2> QED BY <1>1, <2>2, <2>3 DEF BusInv, BusTypes
<1>6. /\ pub'[p].left = pub[p].left /\ pub'[p].now = s /\ pub'[p].at = at /\ pub'[p].crossed = more
      /\ \A q \in Publishers : q # p => pub'[q] = pub[q]
  BY <1>3, <1>4 DEF Walk
<1>7. Roomy(p)'
  <2>1. Len(queue[s]) \in Nat
    BY LenProperties DEF BusInv, BusTypes
  <2>2. CASE IsFull(queue[s])
    <3>1. at = "drop"
      BY <2>2, <1>2
    <3>2. ~more => Len(queue[s]) <= QueueMax
      <4>1. ~more => ~(Len(queue[s]) > QueueMax)
        BY <1>2, Zenon
      <4> QED BY <4>1, <2>1, BusAssumption
    <3>3. pub'[p].at = "drop" /\ pub'[p].now = s /\ pub'[p].crossed = more /\ queue' = queue
      BY <3>1, <1>1, <1>6
    <3> QED BY <3>2, <3>3 DEF Roomy
  <2>3. CASE ~IsFull(queue[s])
    <3>1. at = "put" /\ Len(queue[s]) < QueueMax
      BY <2>1, <2>3, <1>2, BusAssumption DEF IsFull
    <3>2. pub'[p].at = "put" /\ pub'[p].now = s /\ queue' = queue
      BY <3>1, <1>1, <1>6
    <3> QED BY <3>1, <3>2 DEF Roomy
  <2> QED BY <2>2, <2>3
<1> QED BY <1>1, <1>3, <1>5, <1>6, <1>7, WalkStep DEF BusInv, NoneLost

\* The look at a full queue: an empty one has room.
LEMMA DropStep ==
    ASSUME BusInv, NEW p \in Publishers, Drop(p)
    PROVE  BusInv'
<1>1. PICK at : at = IF queue[pub[p].now] = <<>> THEN "put" ELSE "pop"
  OBVIOUS
<1>2. /\ pub[p].at = "drop" /\ UNCHANGED <<subscribed, queue, sent, count, skipped>>
      /\ pub' = [pub EXCEPT ![p].at = at] /\ at \in {"pop", "put"}
  BY <1>1 DEF Drop, Goes
<1>3. pub \in [Publishers -> Walk] /\ pub[p] \in Walk
  BY DEF BusInv, BusTypes
<1>4. BusTypes'
  <2>1. [pub[p] EXCEPT !.at = at] \in Walk
    BY <1>2, <1>3 DEF Walk
  <2>2. pub' \in [Publishers -> Walk]
    BY <1>2, <1>3, <2>1
  <2>3. Event' = Event /\ Walk' = Walk
    BY DEF Event, Walk
  <2> QED BY <1>2, <2>2, <2>3 DEF BusInv, BusTypes
<1>5. /\ pub'[p].left = pub[p].left /\ pub'[p].now = pub[p].now /\ pub'[p].at = at /\ pub'[p].crossed = pub[p].crossed
      /\ \A q \in Publishers : q # p => pub'[q] = pub[q]
  BY <1>2, <1>3 DEF Walk
<1>6. pub[p].now \in pub[p].left
  BY <1>2 DEF BusInv, AtQueue
<1>7. Roomy(p)'
  <2>1. Roomy(p)
    BY DEF BusInv, RoomFound
  <2>2. queue[pub[p].now] = <<>> => Len(queue[pub[p].now]) = 0
    OBVIOUS
  <2> QED BY <2>1, <2>2, <1>1, <1>2, <1>5, BusAssumption DEF Roomy
<1> QED BY <1>2, <1>4, <1>5, <1>6, <1>7, WalkStep DEF BusInv, NoneLost

\* A queue drained before the event was taken: the publish is over.
LEMMA PopFailsStep ==
    ASSUME BusInv, NEW p \in Publishers, PopFails(p)
    PROVE  BusInv'
<1>1. /\ UNCHANGED <<subscribed, queue, sent, count>> /\ pub' = [pub EXCEPT ![p] = Resting]
      /\ skipped' = skipped \cup {<<s, <<p, count[p]>>, "drained">> : s \in pub[p].left}
  BY DEF PopFails
<1>2. pub \in [Publishers -> Walk] /\ Resting \in Walk
  BY DEF BusInv, BusTypes, Walk, Resting
<1>3. BusTypes'
  <2>1. pub' \in [Publishers -> Walk]
    BY <1>1, <1>2
  <2>2. Event' = Event /\ Walk' = Walk
    BY DEF Event, Walk
  <2> QED BY <1>1, <2>1, <2>2 DEF BusInv, BusTypes
<1>4. pub'[p].left = {} /\ pub'[p].at = "rest" /\ \A q \in Publishers : q # p => pub'[q] = pub[q]
  BY <1>1, <1>2 DEF Resting
<1>5. NoneLost'
  <2> SUFFICES ASSUME NEW x \in skipped' PROVE x[3] # "alone"
    BY DEF NoneLost
  <2>1. CASE x \in skipped
    BY <2>1 DEF BusInv, NoneLost
  <2>2. CASE x \notin skipped
    <3>1. PICK s \in pub[p].left : x = <<s, <<p, count[p]>>, "drained">>
      BY <1>1, <2>2
    <3> QED BY <3>1
  <2> QED BY <2>1, <2>2
<1>6. Roomy(p)'
  BY <1>4 DEF Roomy
<1> QED BY <1>1, <1>3, <1>4, <1>5, <1>6, WalkStep

\* The drop of the oldest event makes room.
LEMMA PopStep ==
    ASSUME BusInv, NEW p \in Publishers, Pop(p)
    PROVE  BusInv'
<1>0. PICK s : s = pub[p].now
  OBVIOUS
<1>1. /\ pub[p].at = "pop" /\ queue[s] # <<>> /\ UNCHANGED <<subscribed, sent, count, skipped>>
      /\ queue' = [queue EXCEPT ![s] = Tail(@)]
      /\ pub' = [pub EXCEPT ![p].at = "put"]
  BY <1>0 DEF Pop, Goes
<1>2. s \in Sockets /\ s \in pub[p].left
  BY <1>0, <1>1 DEF BusInv, BusTypes, Walk, AtQueue
<1>3. queue \in [Sockets -> Seq(Event)] /\ queue[s] \in Seq(Event) /\ Len(queue[s]) \in Nat
  BY <1>2, LenProperties DEF BusInv, BusTypes, Walk
<1>4. PICK rest : rest = Tail(queue[s])
  OBVIOUS
<1>5. rest \in Seq(Event) /\ Len(rest) \in Nat /\ Len(rest) = Len(queue[s]) - 1
  <2>1. Tail(queue[s]) \in Seq(Event) /\ Len(Tail(queue[s])) = Len(queue[s]) - 1 /\ Len(queue[s]) > 0
    BY <1>1, <1>3, TailElements
  <2> QED BY <2>1, <1>3, <1>4, LenProperties
<1>6. InOrder(sent[s] \o rest) /\ Bound(sent[s] \o rest, s)
  <2>1. InOrder(sent[s] \o queue[s]) /\ Bound(sent[s] \o queue[s], s) /\ sent[s] \in Seq(Event)
    BY <1>2 DEF BusInv, BusTypes, Sequenced, All
  <2> QED BY <2>1, <1>1, <1>3, <1>4, DropKeepsOrder
<1>7. BusTypes'
  <2>1. [pub[p] EXCEPT !.at = "put"] \in Walk
    BY DEF BusInv, BusTypes, Walk
  <2>2. pub' \in [Publishers -> Walk]
    BY <1>1, <2>1 DEF BusInv, BusTypes, Walk
  <2>3. queue' \in [Sockets -> Seq(Event)]
    BY <1>1, <1>2, <1>3, <1>4, <1>5
  <2> QED BY <1>1, <2>2, <2>3 DEF BusInv, BusTypes, Walk, Event
<1>8. /\ pub'[p].at = "put" /\ pub'[p].now = s /\ pub'[p].crossed = pub[p].crossed
      /\ \A q \in Publishers : /\ pub'[q].left = pub[q].left /\ pub'[q].now = pub[q].now
                               /\ q # p => pub'[q] = pub[q]
  BY <1>0, <1>1 DEF BusInv, BusTypes, Walk
<1>9. AtQueue'
  BY <1>2, <1>8 DEF BusInv, AtQueue
<1>10. \A t \in Sockets : queue'[t] = IF t = s THEN rest ELSE queue[t]
  BY <1>1, <1>3, <1>4
<1>11. \A t \in Sockets : Len(queue'[t]) <= Len(queue[t]) /\ Filling(t)' \subseteq Filling(t)
  <2>1. \A t \in Sockets : Len(queue[t]) \in Nat
    BY LenProperties DEF BusInv, BusTypes
  <2>2. \A t \in Sockets : Len(queue'[t]) <= Len(queue[t])
    BY <2>1, <1>3, <1>5, <1>10
  <2>3. \A t \in Sockets : Filling(t)' \subseteq Filling(t)
    BY <1>8 DEF Filling
  <2> QED BY <2>2, <2>3
<1>12. QueuesBounded'
  BY <1>7, <1>11, BoundsStay DEF BusInv
<1>13. Roomy(p)'
  <2>1. ~pub[p].crossed => Len(queue[s]) <= QueueMax
    BY <1>0, <1>1 DEF BusInv, RoomFound, Roomy
  <2>2. queue'[s] = rest
    BY <1>2, <1>10
  <2> QED BY <2>1, <2>2, <1>3, <1>5, <1>8, BusAssumption DEF Roomy
<1>14. RoomFound'
  BY <1>7, <1>8, <1>11, <1>13, RoomStays DEF BusInv
<1>15. ASSUME NEW t \in Sockets PROVE InOrder(All(t))' /\ Bound(All(t), t)'
  <2>1. InOrder(All(t)') /\ Bound(All(t)', t)
    <3>1. CASE t = s
      BY <3>1, <1>1, <1>6, <1>10 DEF All
    <3>2. CASE t # s
      BY <3>2, <1>1, <1>10 DEF All, BusInv, Sequenced
    <3> QED BY <3>1, <3>2
  <2>2. \A i \in DOMAIN All(t)' : All(t)'[i][1] \in Publishers
    <3>1. sent'[t] \in Seq(Event) /\ queue'[t] \in Seq(Event)
      BY <1>7 DEF BusTypes, Event
    <3>2. All(t)' \in Seq(Event)
      BY <3>1, ConcatProperties DEF All
    <3> QED BY <3>2, ElementOfSeq, LenProperties DEF Event
  <2> QED BY <2>1, <2>2, <1>1, <1>8 DEF InOrder, Bound
<1>16. Sequenced' /\ NoneLost'
  BY <1>1, <1>15 DEF BusInv, Sequenced, NoneLost
<1> QED BY <1>7, <1>9, <1>12, <1>14, <1>16 DEF BusInv

\* Done with a queue, a publisher has that queue no more.
LEMMA NextSocketWalks ==
    ASSUME BusTypes, NEW p \in Publishers
    PROVE  /\ NextSocket(p) \in Walk /\ NextSocket(p).at \in {"rest", "test"}
           /\ NextSocket(p).left \subseteq pub[p].left /\ pub[p].now \notin NextSocket(p).left
<1>1. pub[p] \in Walk
  BY DEF BusTypes
<1>2. PICK left : left = pub[p].left \ {pub[p].now}
  OBVIOUS
<1>3. left \in SUBSET Sockets /\ left \subseteq pub[p].left /\ pub[p].now \notin left
  BY <1>1, <1>2 DEF Walk
<1>4. NextSocket(p) = IF left = {} THEN Resting ELSE [Resting EXCEPT !.at = "test", !.left = left]
  BY <1>2 DEF NextSocket
<1>5. CASE left = {}
  <2>1. NextSocket(p) = Resting
    BY <1>4, <1>5
  <2> QED BY <2>1, <1>3 DEF Walk, Resting
<1>6. CASE left # {}
  <2>1. NextSocket(p) = [at |-> "test", left |-> left, now |-> "none", crossed |-> FALSE]
    BY <1>4, <1>6 DEF Resting
  <2> QED BY <2>1, <1>3 DEF Walk
<1> QED BY <1>5, <1>6

\* A full queue costs the event, which is not this publisher's alone to lose; else
\* the room found is one more to be filled, and the others that found room are
\* fewer than the publishers.
LEMMA PutStep ==
    ASSUME BusInv, NEW p \in Publishers, Put(p)
    PROVE  BusInv'
<1>0. PICK s : s = pub[p].now
  OBVIOUS
<1>1. pub[p].at = "put" /\ UNCHANGED <<subscribed, queue, sent, count>>
  BY DEF Put
<1>2. pub \in [Publishers -> Walk] /\ pub[p] \in Walk /\ s \in Sockets /\ s \in pub[p].left /\ Len(queue[s]) \in Nat
  <2>1. pub \in [Publishers -> Walk] /\ pub[p] \in Walk
    BY DEF BusInv, BusTypes
  <2>2. s \in pub[p].left
    BY <1>0, <1>1 DEF BusInv, AtQueue
  <2>3. s \in Sockets
    BY <2>1, <2>2 DEF Walk
  <2> QED BY <2>1, <2>2, <2>3, LenProperties DEF BusInv, BusTypes
<1>3. CASE Len(queue[s]) >= QueueMax
  <2>1. PICK c : c = IF pub[p].crossed THEN "crowded" ELSE "alone"
    OBVIOUS
  <2>2. skipped' = skipped \cup {<<s, <<p, count[p]>>, c>>} /\ pub' = [pub EXCEPT ![p] = NextSocket(p)]
    BY <1>0, <1>3, <2>1 DEF Put
  <2>3. c # "alone"
    <3>1. ~(Len(queue[s]) < QueueMax)
      BY <1>2, <1>3, BusAssumption
    <3> QED BY <3>1, <2>1, <1>0, <1>1 DEF BusInv, RoomFound, Roomy
  <2>4. NoneLost'
    BY <2>2, <2>3 DEF BusInv, NoneLost
  <2>5. NextSocket(p) \in Walk /\ NextSocket(p).at \in {"rest", "test"} /\ NextSocket(p).left \subseteq pub[p].left
    BY NextSocketWalks DEF BusInv
  <2>6. BusTypes'
    <3>1. pub' \in [Publishers -> Walk]
      BY <1>2, <2>2, <2>5
    <3>2. Event' = Event /\ Walk' = Walk
      BY DEF Event, Walk
    <3> QED BY <1>1, <3>1, <3>2 DEF BusInv, BusTypes
  <2>7. pub'[p] = NextSocket(p) /\ \A q \in Publishers : q # p => pub'[q] = pub[q]
    BY <1>2, <2>2
  <2>8. Roomy(p)'
    BY <2>5, <2>7 DEF Roomy
  <2> QED BY <1>1, <2>4, <2>5, <2>6, <2>7, <2>8, WalkStep
<1>4. CASE ~(Len(queue[s]) >= QueueMax)
  <2>1. skipped' = skipped /\ pub' = [pub EXCEPT ![p].at = "append"]
    BY <1>0, <1>4 DEF Put, Goes
  <2>2. BusTypes'
    <3>1. [pub[p] EXCEPT !.at = "append"] \in Walk
      BY <1>2 DEF Walk
    <3>2. pub' \in [Publishers -> Walk]
      BY <1>2, <2>1, <3>1
    <3>3. Event' = Event /\ Walk' = Walk
      BY DEF Event, Walk
    <3> QED BY <1>1, <3>2, <3>3 DEF BusInv, BusTypes
  <2>3. /\ pub'[p].left = pub[p].left /\ pub'[p].now = s /\ pub'[p].at = "append"
        /\ \A q \in Publishers : q # p => pub'[q] = pub[q]
    BY <1>0, <1>2, <2>1 DEF Walk
  <2>4. AtQueue'
    BY <1>2, <2>3 DEF BusInv, AtQueue
  <2>5. RoomFound'
    <3>1. \A t \in Sockets : Len(queue'[t]) <= Len(queue[t])
      <4>1. \A t \in Sockets : Len(queue[t]) \in Nat
        BY LenProperties DEF BusInv, BusTypes
      <4> QED BY <1>1, <4>1
    <3>2. Roomy(p)'
      BY <2>3 DEF Roomy
    <3> QED BY <3>1, <3>2, <2>2, <2>3, RoomStays DEF BusInv
  <2>6. Sequenced'
    BY <1>1, <2>3, OrderStays DEF BusInv
  <2>7. QueuesBounded'
    <3> SUFFICES ASSUME NEW t \in Sockets
                 PROVE  Len(queue[t]) + Cardinality(Filling(t)') <= QueueMax + Cardinality(Publishers) - 1
      BY <1>1 DEF QueuesBounded
    <3>1. CASE t # s
      <4>1. Filling(t)' = Filling(t)
        <5>1. \A q \in Publishers : (pub'[q].at = "append" /\ pub'[q].now = t) <=> (pub[q].at = "append" /\ pub[q].now = t)
          BY <3>1, <2>3, <1>1
        <5> QED BY <5>1 DEF Filling
      <4> QED BY <4>1 DEF BusInv, QueuesBounded
    <3>2. CASE t = s
      <4>1. Filling(t)' \in SUBSET Publishers
        BY DEF Filling
      <4>2. IsFiniteSet(Filling(t)') /\ Cardinality(Filling(t)') <= Cardinality(Publishers) /\ Cardinality(Publishers) \in Nat
        BY <4>1, BusAssumption, FS_Subset, FS_CardinalityType
      <4>3. Cardinality(Filling(t)') \in Nat
        BY <4>2, FS_CardinalityType
      <4>4. Len(queue[t]) <= QueueMax - 1 /\ Len(queue[t]) \in Nat
        BY <3>2, <1>2, <1>4, BusAssumption
      <4> QED BY <4>2, <4>3, <4>4, BusAssumption
    <3> QED BY <3>1, <3>2
  <2>8. NoneLost'
    BY <2>1 DEF BusInv, NoneLost
  <2> QED BY <2>2, <2>4, <2>5, <2>6, <2>7, <2>8 DEF BusInv
<1> QED BY <1>3, <1>4

\* The append fills the room found, though others may have filled it before; they
\* are told that they share it.
LEMMA FillStep ==
    ASSUME BusInv, NEW p \in Publishers, Fill(p)
    PROVE  BusInv'
<1>0. PICK s, e : s = pub[p].now /\ e = <<p, count[p]>>
  OBVIOUS
<1>1. /\ pub[p].at = "append" /\ UNCHANGED <<subscribed, sent, count, skipped>>
      /\ queue' = [queue EXCEPT ![s] = Append(@, e)]
      /\ pub' = [q \in Publishers |->
                    IF q = p THEN NextSocket(p)
                    ELSE IF pub[q].now = s /\ pub[q].at \in {"drop", "pop", "put"} THEN [pub[q] EXCEPT !.crossed = TRUE]
                    ELSE pub[q]]
  BY <1>0 DEF Fill
<1>2. pub[p] \in Walk /\ s \in Sockets /\ s \in pub[p].left /\ e \in Event /\ e[1] = p /\ e[2] = count[p]
  BY <1>0, <1>1 DEF BusInv, BusTypes, Walk, AtQueue, Event
<1>3. queue \in [Sockets -> Seq(Event)] /\ queue[s] \in Seq(Event) /\ Len(queue[s]) \in Nat /\ sent[s] \in Seq(Event)
  BY <1>2, LenProperties DEF BusInv, BusTypes
<1>4. NextSocket(p) \in Walk /\ NextSocket(p).at \in {"rest", "test"} /\ NextSocket(p).left \subseteq pub[p].left /\ s \notin NextSocket(p).left
  BY <1>0, NextSocketWalks DEF BusInv
<1>5. pub' \in [Publishers -> Walk]
  <2>1. \A q \in Publishers : pub[q] \in Walk /\ [pub[q] EXCEPT !.crossed = TRUE] \in Walk
    BY DEF BusInv, BusTypes, Walk
  <2> QED BY <1>1, <1>4, <2>1
<1>6. pub'[p] = NextSocket(p)
  BY <1>1
<1>7. ASSUME NEW q \in Publishers, q # p
      PROVE  /\ pub'[q].at = pub[q].at /\ pub'[q].now = pub[q].now /\ pub'[q].left = pub[q].left
             /\ pub'[q].crossed = IF pub[q].now = s /\ pub[q].at \in {"drop", "pop", "put"} THEN TRUE ELSE pub[q].crossed
  <2>1. pub[q] \in Walk
    BY DEF BusInv, BusTypes
  <2> QED BY <1>1, <1>7, <2>1 DEF Walk
<1>8. AtQueue'
  BY <1>4, <1>6, <1>7 DEF BusInv, AtQueue
<1>9. (\A q \in Publishers : pub'[q].left \subseteq pub[q].left) /\ s \notin pub'[p].left
  BY <1>4, <1>6, <1>7
<1>10. PICK more : more = Append(queue[s], e)
  OBVIOUS
<1>11. more \in Seq(Event) /\ Len(more) = Len(queue[s]) + 1
  BY <1>2, <1>3, <1>10, AppendProperties
<1>12. /\ InOrder(sent[s] \o more)
       /\ \A i \in DOMAIN (sent[s] \o more) :
             \/ (sent[s] \o more)[i] = e
             \/ i \in DOMAIN All(s) /\ (sent[s] \o more)[i] = All(s)[i]
  <2>1. InOrder(All(s)) /\ Bound(All(s), s)
    BY <1>2 DEF BusInv, Sequenced
  <2>2. \A i \in DOMAIN All(s) : All(s)[i][1] = e[1] => All(s)[i][2] < e[2]
    BY <2>1, <1>2 DEF Bound
  <2> QED BY <2>1, <2>2, <1>2, <1>3, <1>10, PutKeepsOrder DEF All
<1>13. queue' = [queue EXCEPT ![s] = more] /\ \A t \in Sockets : queue'[t] = IF t = s THEN more ELSE queue[t]
  BY <1>1, <1>3, <1>10
<1>14. BusTypes'
  <2>1. queue' \in [Sockets -> Seq(Event)]
    BY <1>2, <1>3, <1>11, <1>13
  <2>2. Event' = Event /\ Walk' = Walk
    BY DEF Event, Walk
  <2> QED BY <1>1, <1>5, <2>1, <2>2 DEF BusInv, BusTypes
<1>15. QueuesBounded'
  <2> SUFFICES ASSUME NEW t \in Sockets
               PROVE  Len(queue'[t]) + Cardinality(Filling(t)') <= QueueMax + Cardinality(Publishers) - 1
    BY DEF QueuesBounded
  <2>1. Filling(t)' = Filling(t) \ {p}
    <3>1. \A q \in Publishers : (pub'[q].at = "append" /\ pub'[q].now = t) <=> (pub[q].at = "append" /\ pub[q].now = t /\ q # p)
      BY <1>4, <1>6, <1>7
    <3> QED BY <3>1 DEF Filling
  <2>2. IsFiniteSet(Filling(t)) /\ Cardinality(Filling(t)) \in Nat /\ Cardinality(Publishers) \in Nat
    BY FillingFinite
  <2>3. Cardinality(Filling(t)') = IF p \in Filling(t) THEN Cardinality(Filling(t)) - 1 ELSE Cardinality(Filling(t))
    BY <2>1, <2>2, FS_RemoveElement
  <2>4. Len(queue[t]) + Cardinality(Filling(t)) <= QueueMax + Cardinality(Publishers) - 1
    BY DEF BusInv, QueuesBounded
  <2>5. Len(queue[t]) \in Nat
    BY LenProperties DEF BusInv, BusTypes
  <2>6. CASE t = s
    <3>1. p \in Filling(t)
      BY <2>6, <1>0, <1>1 DEF Filling
    <3>2. Len(queue'[t]) = Len(queue[t]) + 1
      BY <2>6, <1>11, <1>13
    <3> QED BY <3>1, <3>2, <2>2, <2>3, <2>4, <2>5, BusAssumption
  <2>7. CASE t # s
    <3>1. p \notin Filling(t) /\ queue'[t] = queue[t]
      BY <2>7, <1>0, <1>13 DEF Filling
    <3> QED BY <3>1, <2>3, <2>4
  <2> QED BY <2>6, <2>7
<1>16. RoomFound'
  <2> SUFFICES ASSUME NEW q \in Publishers, ~pub'[q].crossed, pub'[q].at \in {"drop", "pop", "put"}
               PROVE  /\ pub'[q].at = "put" => Len(queue'[pub'[q].now]) < QueueMax
                      /\ pub'[q].at \in {"drop", "pop"} => Len(queue'[pub'[q].now]) <= QueueMax
    BY DEF RoomFound, Roomy
  <2>1. q # p
    BY <1>4, <1>6
  <2>2. pub'[q].at = pub[q].at /\ pub[q].now = pub'[q].now /\ pub[q].now # s /\ ~pub[q].crossed
    BY <2>1, <1>7
  <2>3. pub[q].now \in Sockets
    BY <2>2 DEF BusInv, BusTypes, Walk, AtQueue
  <2>4. queue'[pub'[q].now] = queue[pub[q].now]
    BY <2>2, <2>3, <1>13
  <2> QED BY <2>2, <2>4 DEF BusInv, RoomFound, Roomy
<1>17. ASSUME NEW t \in Sockets PROVE InOrder(All(t))' /\ Bound(All(t), t)'
  <2>1. CASE t = s
    <3>1. All(t)' = sent[s] \o more
      BY <2>1, <1>1, <1>13 DEF All
    <3>2. \A i \in DOMAIN All(s) : All(s)[i][1] \in Publishers
      BY <1>2, AllEvents DEF BusInv
    <3>3. Bound(All(s), s)
      BY <1>2 DEF BusInv, Sequenced
    <3>4. PICK new : new = sent[s] \o more
      OBVIOUS
    <3>5. InOrder(new) /\ \A i \in DOMAIN new : new[i] = e \/ (i \in DOMAIN All(s) /\ new[i] = All(s)[i])
      BY <3>4, <1>12
    <3>6. ASSUME NEW i \in DOMAIN new
          PROVE  new[i][2] <= count[new[i][1]] /\ (s \in pub'[new[i][1]].left => new[i][2] < count[new[i][1]])
      <4>1. CASE new[i] = e
        <5>1. count[p] \in Nat
          BY DEF BusInv, BusTypes
        <5> QED BY <4>1, <5>1, <1>2, <1>9
      <4>2. CASE i \in DOMAIN All(s) /\ new[i] = All(s)[i]
        BY <4>2, <3>2, <3>3, <1>9 DEF Bound
      <4> QED BY <3>5, <4>1, <4>2
    <3>7. All(t)' = new /\ count' = count
      BY <3>1, <3>4, <1>1
    <3> QED BY <2>1, <3>5, <3>6, <3>7 DEF InOrder, Bound
  <2>2. CASE t # s
    <3>1. All(t)' = All(t) /\ InOrder(All(t)) /\ Bound(All(t), t) /\ count' = count
      BY <2>2, <1>1, <1>13 DEF All, BusInv, Sequenced
    <3>2. \A i \in DOMAIN All(t) : All(t)[i][1] \in Publishers
      BY AllEvents DEF BusInv
    <3> QED BY <3>1, <3>2, <1>9 DEF InOrder, Bound
  <2> QED BY <2>1, <2>2
<1> QED BY <1>1, <1>8, <1>14, <1>15, <1>16, <1>17 DEF BusInv, Sequenced, NoneLost

\* Every step keeps the invariant.
LEMMA BusInvStep == BusInv /\ [BusNext]_bus => BusInv'
<1> SUFFICES ASSUME BusInv, [BusNext]_bus PROVE BusInv'
  OBVIOUS
<1>1. CASE UNCHANGED bus
  <2>1. UNCHANGED <<subscribed, queue, sent, pub, count, skipped>>
    BY <1>1 DEF bus
  <2>2. BusTypes' /\ AtQueue' /\ RoomFound' /\ QueuesBounded' /\ NoneLost'
    BY <2>1 DEF BusInv, BusTypes, AtQueue, RoomFound, Roomy, QueuesBounded, Filling, NoneLost, Event, Walk
  <2>3. Sequenced'
    BY <2>1, OrderStays DEF BusInv
  <2> QED BY <2>2, <2>3 DEF BusInv
<1> QED BY <1>1, SubscribeStep, SendStep, PublishStep, TestStep, DropStep, PopStep, PopFailsStep, PutStep, FillStep DEF BusNext

\* The queues start empty.
LEMMA BusInvInit == BusInit => BusInv
<1> SUFFICES ASSUME BusInit PROVE BusInv
  OBVIOUS
<1>1. BusTypes /\ AtQueue /\ RoomFound /\ NoneLost
  BY EmptySeq DEF BusInit, BusTypes, Walk, Resting, AtQueue, RoomFound, Roomy, NoneLost
<1>2. ASSUME NEW s \in Sockets PROVE InOrder(All(s)) /\ Bound(All(s), s)
  <2>1. queue[s] = <<>> /\ sent[s] = <<>>
    BY DEF BusInit
  <2>2. All(s) = <<>>
    BY <2>1 DEF All
  <2>3. DOMAIN All(s) = {}
    BY <2>2
  <2> QED BY <2>3 DEF InOrder, Bound
<1>3. ASSUME NEW s \in Sockets
      PROVE  Len(queue[s]) + Cardinality(Filling(s)) <= QueueMax + Cardinality(Publishers) - 1
  <2>1. Len(queue[s]) = 0
    BY DEF BusInit
  <2>2. Filling(s) = {}
    BY DEF BusInit, Filling, Resting
  <2>3. Cardinality(Filling(s)) = 0 /\ Cardinality(Publishers) \in Nat
    BY <2>2, FS_EmptySet, FillingFinite
  <2> QED BY <2>1, <2>3, BusAssumption
<1> QED BY <1>1, <1>2, <1>3 DEF BusInv, QueuesBounded, Sequenced

\* What a socket sends and has waiting is in the order published, publisher by
\* publisher, and never twice; no queue outgrows its size by more than the
\* publishers less one; and a publisher whose room nobody else could fill never
\* gives up the event it publishes (event_bus.py, api/routes/events.py).
THEOREM EventsStayInOrder == BusSpec => []EventsInOrder
<1>1. BusInv => EventsInOrder
  <2> SUFFICES ASSUME BusInv PROVE EventsInOrder
    OBVIOUS
  <2>1. ASSUME NEW s \in Sockets PROVE Len(queue[s]) <= QueueMax + Cardinality(Publishers) - 1
    <3>1. Len(queue[s]) + Cardinality(Filling(s)) <= QueueMax + Cardinality(Publishers) - 1
      BY DEF BusInv, QueuesBounded
    <3>2. Len(queue[s]) \in Nat /\ Cardinality(Filling(s)) \in Nat /\ Cardinality(Publishers) \in Nat
      BY FillingFinite, LenProperties DEF BusInv, BusTypes
    <3> QED BY <3>1, <3>2, BusAssumption
  <2> QED BY <2>1 DEF BusInv, Sequenced, NoneLost, InOrder, All, EventsInOrder
<1> QED BY <1>1, BusInvInit, BusInvStep, PTL DEF BusSpec

(***************************************************************************)
(* The Academy.                                                            *)
(***************************************************************************)
\* Besides the types of the columns: a handler that counted the slots keeps the
\* loop until it has taken one, so the room it found is still there, whatever the
\* listings clear meanwhile; and a listing stands at a mission of the catalog.
Rows(k) ==
    /\ DOMAIN results[k] \subseteq Subjects[k]
    /\ \A s \in DOMAIN results[k] : results[k][s].best \in Int /\ results[k][s].passed \in BOOLEAN
ResultsKept == results = [k \in Kinds |-> results[k]] /\ \A k \in Kinds : Rows(k)
RoomKept == \A id \in Ids : loop = <<"take", id>> => Cardinality(active) < MaxActive
InCatalog(l) == "mission" \in DOMAIN l /\ l.mission \in 1..Len(Missions)
Listed == listing = [r \in Listers |-> listing[r]] /\ \A r \in Listers : InCatalog(listing[r])
RecordsTyped ==
    /\ day \in 1..MaxDay
    /\ days \subseteq 1..day
    /\ progress \in [Lessons -> {"new", "attempted", "done"}]
    /\ reps \in [Terms -> 0..MaxReps]
    /\ DOMAIN completed \subseteq Ids
    /\ \A id \in DOMAIN completed : completed[id] \in 1..day
    /\ ResultsKept
SlotsKept ==
    /\ active \subseteq Ids
    /\ IsFiniteSet(active)
    /\ Cardinality(active) <= MaxActive
    /\ RoomKept
AcademyInv == RecordsTyped /\ SlotsKept /\ Listed

\* The catalog is a sequence that is not empty.
LEMMA Catalog == Len(Missions) \in Nat /\ Len(Missions) > 0 /\ DOMAIN Missions = 1..Len(Missions)
<1>1. Len(Missions) \in Nat /\ DOMAIN Missions = 1..Len(Missions) /\ Len(Missions) # 0
  BY AcademyAssumption, LenProperties, EmptySeq
<1> QED BY <1>1

\* The mission a listing stands at is of the catalog.
LEMMA CurrentIsListed ==
    ASSUME Listed, NEW r \in Listers
    PROVE  InCatalog(listing[r]) /\ Current(r).id \in Ids
BY Catalog DEF Listed, InCatalog, Current, Ids

\* A listing that moves to another place of the catalog.
LEMMA MovesListed ==
    ASSUME Listed, NEW r \in Listers, NEW to, InCatalog(to), Moves(r, to)
    PROVE  Listed'
<1>1. listing' = [q \in Listers |-> IF q = r THEN to ELSE listing[q]]
  BY DEF Moves, Listed
<1>2. \A q \in Listers : InCatalog(listing'[q])
  BY <1>1 DEF Listed
<1>3. listing' = [q \in Listers |-> listing'[q]]
  BY <1>1
<1> QED BY <1>2, <1>3 DEF Listed, InCatalog

\* A record of a listing with some fields changed is still one.
LEMMA InCatalogUpdate ==
    ASSUME NEW l, InCatalog(l)
    PROVE  /\ \A at : InCatalog([l EXCEPT !.at = at])
           /\ \A x, at : InCatalog([l EXCEPT !.x = x, !.at = at])
           /\ \A c, at : InCatalog([l EXCEPT !.completed = c, !.at = at])
           /\ \A a, at : InCatalog([l EXCEPT !.active = a, !.at = at])
           /\ \A c : InCatalog([l EXCEPT !.completed = c])
           /\ \A a : InCatalog([l EXCEPT !.active = a])
           /\ InCatalog([Idle EXCEPT !.at = "context"])
           /\ InCatalog(Onward(l))
           /\ \A m : InCatalog(AfterRecord(l, m))
<1>1. \A at : InCatalog([l EXCEPT !.at = at])
  BY DEF InCatalog
<1>2. \A x, at : InCatalog([l EXCEPT !.x = x, !.at = at])
  BY DEF InCatalog
<1>3. \A c, at : InCatalog([l EXCEPT !.completed = c, !.at = at])
  BY DEF InCatalog
<1>4. \A a, at : InCatalog([l EXCEPT !.active = a, !.at = at])
  BY DEF InCatalog
<1>5. \A c : InCatalog([l EXCEPT !.completed = c])
  BY DEF InCatalog
<1>6. \A a : InCatalog([l EXCEPT !.active = a])
  BY DEF InCatalog
<1>7. InCatalog(Idle) /\ InCatalog([Idle EXCEPT !.at = "context"])
  BY Catalog DEF InCatalog, Idle
<1>8. InCatalog(Onward(l))
  <2>1. CASE l.mission = Len(Missions)
    BY <2>1, <1>7 DEF Onward
  <2>2. CASE l.mission # Len(Missions)
    <3>1. l.mission + 1 \in 1..Len(Missions)
      BY <2>2, Catalog DEF InCatalog
    <3>2. Onward(l) = [l EXCEPT !.mission = @ + 1, !.at = "judge"]
      BY <2>2 DEF Onward
    <3> QED BY <3>1, <3>2 DEF InCatalog
  <2> QED BY <2>1, <2>2
<1>9. ASSUME NEW m PROVE InCatalog(AfterRecord(l, m))
  BY <1>1, <1>8 DEF AfterRecord
<1> QED BY <1>1, <1>2, <1>3, <1>4, <1>5, <1>6, <1>7, <1>8, <1>9

\* Recording a result keeps the rows a function of the subjects, with the best
\* score and the best verdict.
LEMMA RecordedRow ==
    ASSUME NEW k \in Kinds, Rows(k), NEW s \in Subjects[k], NEW g \in Grades[k]
    PROVE  LET new == Recorded(results[k], s, g)
           IN  /\ DOMAIN new = DOMAIN results[k] \cup {s}
               /\ \A t \in DOMAIN new : new[t].best \in Int /\ new[t].passed \in BOOLEAN
               /\ \A t \in DOMAIN results[k] : /\ new[t].best >= results[k][t].best
                                               /\ results[k][t].passed => new[t].passed
<1> DEFINE rows == results[k]
           old == IF s \in DOMAIN rows THEN rows[s] ELSE [best |-> 0, passed |-> FALSE]
           row == [best |-> Max({old.best, g.score}), passed |-> old.passed \/ g.passed]
           new == Recorded(rows, s, g)
<1>1. new = Entered(rows, s, row)
  BY DEF Recorded
<1> HIDE DEF row
<1>2. DOMAIN new = DOMAIN rows \cup {s} /\ \A t \in DOMAIN new : new[t] = IF t = s THEN row ELSE rows[t]
  BY <1>1 DEF Entered
<1> USE DEF row
<1>3. g.score \in Int /\ g.passed \in BOOLEAN
  BY AcademyAssumption
<1>4. old.best \in Int /\ old.passed \in BOOLEAN /\ (s \in DOMAIN rows => old = rows[s])
  <2>1. CASE s \in DOMAIN rows
    BY <2>1 DEF Rows
  <2>2. CASE s \notin DOMAIN rows
    <3>1. old = [best |-> 0, passed |-> FALSE]
      BY <2>2
    <3> QED BY <3>1, <2>2
  <2> QED BY <2>1, <2>2
<1>5. row.best = (IF old.best >= g.score THEN old.best ELSE g.score) /\ row.passed = (old.passed \/ g.passed)
  BY <1>3, <1>4, MaxOfTwo
<1> HIDE DEF row, old, new
<1>6. row.best \in Int /\ row.best >= old.best
  BY <1>3, <1>4, <1>5
<1>7. row.passed \in BOOLEAN /\ (old.passed => row.passed)
  BY <1>5
<1>8. \A t \in DOMAIN rows : rows[t].best \in Int /\ rows[t].passed \in BOOLEAN
  BY DEF Rows
<1>9. \A t \in DOMAIN new : new[t].best \in Int /\ new[t].passed \in BOOLEAN
  BY <1>2, <1>6, <1>7, <1>8
<1>10. \A t \in DOMAIN rows : new[t].best >= rows[t].best /\ (rows[t].passed => new[t].passed)
  <2> SUFFICES ASSUME NEW t \in DOMAIN rows
               PROVE  new[t].best >= rows[t].best /\ (rows[t].passed => new[t].passed)
    OBVIOUS
  <2>1. CASE t = s
    BY <2>1, <1>2, <1>4, <1>6, <1>7
  <2>2. CASE t # s
    BY <2>2, <1>2, <1>8
  <2> QED BY <2>1, <2>2
<1> QED BY <1>2, <1>9, <1>10 DEF new

\* Records left alone stay as they were.
LEMMA RecordsFrame ==
    ASSUME RecordsTyped, UNCHANGED <<day, days, progress, results, reps, completed>>
    PROVE  RecordsTyped' /\ Stands
<1>1. RecordsTyped'
  BY DEF RecordsTyped, ResultsKept, Rows
<1>2. \A t \in Terms : reps[t] \in Nat
  BY DEF RecordsTyped
<1>3. \A t \in Terms : reps'[t] >= reps[t]
  BY <1>2
<1>4. ASSUME NEW k \in Kinds, NEW s \in DOMAIN results[k]
      PROVE  /\ s \in DOMAIN results'[k] /\ results'[k][s].best >= results[k][s].best
             /\ results[k][s].passed => results'[k][s].passed
  <2>1. results[k][s].best \in Int
    BY DEF RecordsTyped, ResultsKept, Rows
  <2> QED BY <2>1
<1> QED BY <1>1, <1>3, <1>4 DEF Stands

\* Slots and loop left alone keep the room that a handler counted.
LEMMA SlotsFrame ==
    ASSUME SlotsKept, UNCHANGED <<active, loop>>
    PROVE  SlotsKept'
  BY DEF SlotsKept, RoomKept

\* Listings left alone stay inside the catalog.
LEMMA ListedFrame ==
    ASSUME Listed, UNCHANGED listing
    PROVE  Listed'
  BY DEF Listed, InCatalog

\* The loop's handler going on to anything but taking a slot, the slots being as
\* they were.
LEMMA LoopFrame ==
    ASSUME SlotsKept, UNCHANGED active, \A id : loop' # <<"take", id>>
    PROVE  SlotsKept'
  BY DEF SlotsKept, RoomKept

\* What the day's records say grows with the day marked active.
LEMMA ActiveFrame ==
    ASSUME RecordsTyped, Active, UNCHANGED day
    PROVE  days' \subseteq 1..day' /\ days \subseteq days'
  BY DEF RecordsTyped, Active

\* The records, of which only lessons change.
LEMMA LessonStep ==
    ASSUME RecordsTyped, UNCHANGED <<day, results, reps, completed>>,
           days' \subseteq 1..day, days \subseteq days',
           progress' \in [Lessons -> {"new", "attempted", "done"}],
           \A l \in Lessons : progress[l] = "done" => progress'[l] = "done"
    PROVE  RecordsTyped' /\ Stands
<1>1. RecordsTyped'
  BY DEF RecordsTyped, ResultsKept, Rows
<1>2. \A t \in Terms : reps[t] \in Nat
  BY DEF RecordsTyped
<1>3. \A t \in Terms : reps'[t] >= reps[t]
  BY <1>2
<1>4. ASSUME NEW k \in Kinds, NEW s \in DOMAIN results[k]
      PROVE  /\ s \in DOMAIN results'[k] /\ results'[k][s].best >= results[k][s].best
             /\ results[k][s].passed => results'[k][s].passed
  <2>1. results[k][s].best \in Int
    BY DEF RecordsTyped, ResultsKept, Rows
  <2> QED BY <2>1
<1> QED BY <1>1, <1>3, <1>4 DEF Stands

\* Lessons, exams, drills, scenarios and cards.
LEMMA StudyStep ==
    ASSUME AcademyInv, Study
    PROVE  AcademyInv' /\ Stands
<1> USE DEF AcademyInv
<1>1. ASSUME NEW l \in Lessons, NEW a \in Answers, Answer(l, a) PROVE AcademyInv' /\ Stands
  <2>1. /\ progress' = [progress EXCEPT ![l] = IF @ = "new" THEN "attempted" ELSE @]
        /\ loop' \in {Free, <<"complete", l>>}
        /\ UNCHANGED <<day, days, results, reps, completed, active, listing>>
    BY <1>1 DEF Answer
  <2>2. progress \in [Lessons -> {"new", "attempted", "done"}] /\ days' \subseteq 1..day
    BY <2>1 DEF RecordsTyped
  <2>3. RecordsTyped' /\ Stands
    BY <2>1, <2>2, LessonStep
  <2>4. \A id : loop' # <<"take", id>>
    BY <2>1 DEF Free
  <2> QED BY <2>1, <2>3, <2>4, LoopFrame, ListedFrame
<1>2. ASSUME NEW l \in Lessons, MarkComplete(l) PROVE AcademyInv' /\ Stands
  <2>1. /\ progress' = [progress EXCEPT ![l] = "done"]
        /\ loop' = Free /\ Active
        /\ UNCHANGED <<day, results, reps, completed, active, listing>>
    BY <1>2 DEF MarkComplete
  <2>2. progress \in [Lessons -> {"new", "attempted", "done"}]
    BY DEF RecordsTyped
  <2>3. RecordsTyped' /\ Stands
    BY <2>1, <2>2, ActiveFrame, LessonStep
  <2>4. \A id : loop' # <<"take", id>>
    BY <2>1 DEF Free
  <2> QED BY <2>1, <2>3, <2>4, LoopFrame, ListedFrame
<1>3. ASSUME NEW t \in Terms, GradeCard(t) PROVE AcademyInv' /\ Stands
  <2>1. /\ reps[t] < MaxReps /\ reps' = [reps EXCEPT ![t] = @ + 1] /\ Active
        /\ UNCHANGED <<day, progress, results, completed, active, loop, listing>>
    BY <1>3 DEF GradeCard
  <2>2. reps \in [Terms -> 0..MaxReps] /\ MaxReps \in Nat /\ reps[t] \in 0..MaxReps
    BY AcademyAssumption DEF RecordsTyped
  <2>3. reps[t] + 1 \in 0..MaxReps
    BY <2>1, <2>2
  <2>4. reps' \in [Terms -> 0..MaxReps] /\ \A u \in Terms : reps'[u] >= reps[u]
    BY <2>1, <2>2, <2>3
  <2>5. days' \subseteq 1..day' /\ days \subseteq days'
    BY <2>1, ActiveFrame
  <2>6. RecordsTyped'
    BY <2>1, <2>4, <2>5 DEF RecordsTyped, ResultsKept, Rows
  <2>7. ASSUME NEW k \in Kinds, NEW s \in DOMAIN results[k]
        PROVE  /\ s \in DOMAIN results'[k] /\ results'[k][s].best >= results[k][s].best
               /\ results[k][s].passed => results'[k][s].passed
    <3>1. results[k][s].best \in Int
      BY DEF RecordsTyped, ResultsKept, Rows
    <3> QED BY <2>1, <3>1
  <2>8. Stands
    BY <2>1, <2>4, <2>5, <2>7 DEF Stands
  <2> QED BY <2>1, <2>6, <2>8, SlotsFrame, ListedFrame
<1>4. ASSUME NEW k \in Kinds, NEW s \in Subjects[k], NEW g \in Grades[k], Submit(k, s, g)
      PROVE  AcademyInv' /\ Stands
  <2> DEFINE new == Recorded(results[k], s, g)
  <2>1. /\ results' = [results EXCEPT ![k] = new] /\ Active
        /\ UNCHANGED <<day, progress, reps, completed, active, loop, listing>>
    BY <1>4 DEF Submit
  <2>2. Rows(k)
    BY DEF RecordsTyped, ResultsKept
  <2>3. /\ DOMAIN new = DOMAIN results[k] \cup {s}
        /\ \A t \in DOMAIN new : new[t].best \in Int /\ new[t].passed \in BOOLEAN
        /\ \A t \in DOMAIN results[k] : /\ new[t].best >= results[k][t].best
                                        /\ results[k][t].passed => new[t].passed
    BY <2>2, RecordedRow
  <2> HIDE DEF new
  <2>4. /\ results' = [j \in Kinds |-> results'[j]]
        /\ \A j \in Kinds : results'[j] = IF j = k THEN new ELSE results[j]
    <3>1. results = [j \in Kinds |-> results[j]]
      BY DEF RecordsTyped, ResultsKept
    <3> QED BY <2>1, <3>1
  <2>5. ASSUME NEW j \in Kinds PROVE Rows(j)'
    <3>1. CASE j = k
      BY <3>1, <2>2, <2>3, <2>4 DEF Rows
    <3>2. CASE j # k
      BY <3>2, <2>4 DEF RecordsTyped, ResultsKept, Rows
    <3> QED BY <3>1, <3>2
  <2>6. days' \subseteq 1..day' /\ days \subseteq days'
    BY <2>1, ActiveFrame
  <2>7. RecordsTyped'
    BY <2>1, <2>4, <2>5, <2>6 DEF RecordsTyped, ResultsKept
  <2>8. ASSUME NEW j \in Kinds, NEW t \in DOMAIN results[j]
        PROVE  /\ t \in DOMAIN results'[j] /\ results'[j][t].best >= results[j][t].best
               /\ results[j][t].passed => results'[j][t].passed
    <3>1. CASE j = k
      BY <3>1, <2>3, <2>4, <2>8
    <3>2. CASE j # k
      <4>1. results[j][t].best \in Int
        BY DEF RecordsTyped, ResultsKept, Rows
      <4> QED BY <3>2, <4>1, <2>4
    <3> QED BY <3>1, <3>2
  <2>9. \A u \in Terms : reps'[u] >= reps[u]
    <3>1. \A u \in Terms : reps[u] \in Nat
      BY DEF RecordsTyped
    <3> QED BY <2>1, <3>1
  <2>10. Stands
    BY <2>1, <2>6, <2>8, <2>9 DEF Stands
  <2> QED BY <2>1, <2>7, <2>10, SlotsFrame, ListedFrame
<1> QED BY <1>1, <1>2, <1>3, <1>4 DEF Study

\* Trades, notes, the constitution.
LEMMA PractiseStep ==
    ASSUME AcademyInv, Practise
    PROVE  AcademyInv' /\ Stands
<1>1. UNCHANGED <<day, days, progress, results, reps, completed, active, loop, listing>>
  BY DEF Practise, Execute, Adopt, Annotate
<1> QED BY <1>1, RecordsFrame, SlotsFrame, ListedFrame DEF AcademyInv

\* Accepting a mission, and giving one up.
LEMMA SlotStep ==
    ASSUME AcademyInv, NEW id \in Ids, Accept(id) \/ CountSlots(id) \/ TakeSlot(id) \/ Abandon(id)
    PROVE  AcademyInv' /\ Stands
<1> USE DEF AcademyInv
<1>1. CASE Accept(id)
  <2>1. loop' = <<"count", id>> /\ UNCHANGED <<day, days, progress, results, reps, completed, active, listing>>
    BY <1>1 DEF Accept, tables
  <2>2. \A i : loop' # <<"take", i>>
    BY <2>1
  <2> QED BY <2>1, <2>2, RecordsFrame, LoopFrame, ListedFrame
<1>2. CASE CountSlots(id)
  <2>1. /\ loop' = IF HasRoom(id) THEN <<"take", id>> ELSE Free
        /\ UNCHANGED <<day, days, progress, results, reps, completed, active, listing>>
    BY <1>2 DEF CountSlots, tables
  <2>2. SlotsKept'
    <3>1. CASE HasRoom(id)
      BY <3>1, <2>1 DEF HasRoom, SlotsKept, RoomKept
    <3>2. CASE ~HasRoom(id)
      <4>1. \A i : loop' # <<"take", i>>
        BY <3>2, <2>1 DEF Free
      <4> QED BY <4>1, <2>1, LoopFrame
    <3> QED BY <3>1, <3>2
  <2> QED BY <2>1, <2>2, RecordsFrame, ListedFrame
<1>3. CASE TakeSlot(id)
  <2>1. /\ loop = <<"take", id>> /\ active' = active \cup {id} /\ loop' = Free /\ Active
        /\ UNCHANGED <<day, progress, results, reps, completed, listing>>
    BY <1>3 DEF TakeSlot
  <2>2. Cardinality(active) < MaxActive /\ IsFiniteSet(active) /\ Cardinality(active) \in Nat /\ MaxActive \in Nat
    BY <2>1, FS_CardinalityType, AcademyAssumption DEF SlotsKept, RoomKept
  <2>3. IsFiniteSet(active \cup {id}) /\ Cardinality(active \cup {id}) <= Cardinality(active) + 1
    BY <2>2, FS_AddElement
  <2>4. Cardinality(active') <= MaxActive
    <3>1. Cardinality(active \cup {id}) \in Nat
      BY <2>3, FS_CardinalityType
    <3> QED BY <2>1, <2>2, <2>3, <3>1
  <2>5. \A i : loop' # <<"take", i>>
    BY <2>1 DEF Free
  <2>6. SlotsKept'
    BY <2>1, <2>3, <2>4, <2>5 DEF SlotsKept, RoomKept
  <2>7. RecordsTyped' /\ Stands
    <3>1. progress' \in [Lessons -> {"new", "attempted", "done"}]
      BY <2>1 DEF RecordsTyped
    <3> QED BY <2>1, <3>1, ActiveFrame, LessonStep
  <2> QED BY <2>1, <2>6, <2>7, ListedFrame
<1>4. CASE Abandon(id)
  <2>1. /\ loop = Free /\ active' = active \ {id}
        /\ UNCHANGED <<day, days, progress, results, reps, completed, loop, listing>>
    BY <1>4 DEF Abandon
  <2>2. SlotsKept'
    <3>1. IsFiniteSet(active) /\ active' \subseteq active
      BY <2>1 DEF SlotsKept
    <3>2. IsFiniteSet(active') /\ Cardinality(active') <= Cardinality(active)
      BY <3>1, FS_Subset
    <3>3. Cardinality(active) \in Nat /\ Cardinality(active') \in Nat /\ MaxActive \in Nat
      BY <3>1, <3>2, FS_CardinalityType, AcademyAssumption
    <3>4. \A i : loop' # <<"take", i>>
      BY <2>1 DEF Free
    <3> QED BY <3>1, <3>2, <3>3, <3>4 DEF SlotsKept, RoomKept
  <2> QED BY <2>1, <2>2, RecordsFrame, ListedFrame
<1> QED BY <1>1, <1>2, <1>3, <1>4

\* A listing's step: it reads, records a mission once, and clears slots.
LEMMA ListingStep ==
    ASSUME AcademyInv, NEW r \in Listers, List(r)
    PROVE  AcademyInv' /\ Stands
<1> USE DEF AcademyInv
<1> DEFINE l == listing[r]
<1>0. InCatalog(l) /\ Current(r).id \in Ids
  BY CurrentIsListed
<1>1. ASSUME NEW to, Moves(r, to), InCatalog(to),
             UNCHANGED <<day, days, progress, results, reps, completed, active, loop>>
      PROVE  AcademyInv' /\ Stands
  BY <1>1, MovesListed, RecordsFrame, SlotsFrame
<1>2. CASE BeginListing(r)
  BY <1>0, <1>1, <1>2, InCatalogUpdate DEF BeginListing, tables
<1>3. CASE ReadField(r)
  <2>1. PICK f : f = Fields[Cardinality(DOMAIN l.x) + 1]
    OBVIOUS
  <2>2. PICK x, at : x = Entered(l.x, f, Table[f]) /\ at = IF f = Last(Fields) THEN "completed" ELSE "context"
    OBVIOUS
  <2>3. /\ Moves(r, [l EXCEPT !.x = x, !.at = at])
        /\ UNCHANGED <<day, days, progress, results, reps, completed, active, loop>>
    BY <1>3, <2>1, <2>2 DEF ReadField, tables
  <2>4. InCatalog([l EXCEPT !.x = x, !.at = at])
    BY <1>0, InCatalogUpdate
  <2> QED BY <1>1, <2>3, <2>4
<1>4. CASE ReadCompleted(r)
  <2>1. PICK done : done = DOMAIN completed
    OBVIOUS
  <2>2. /\ Moves(r, [l EXCEPT !.completed = done, !.at = "active"])
        /\ UNCHANGED <<day, days, progress, results, reps, completed, active, loop>>
    BY <1>4, <2>1 DEF ReadCompleted, tables
  <2>3. InCatalog([l EXCEPT !.completed = done, !.at = "active"])
    BY <1>0, InCatalogUpdate
  <2> QED BY <1>1, <2>2, <2>3
<1>5. CASE ReadActive(r)
  <2>1. /\ Moves(r, [l EXCEPT !.active = active, !.at = "judge"])
        /\ UNCHANGED <<day, days, progress, results, reps, completed, active, loop>>
    BY <1>5 DEF ReadActive, tables
  <2>2. InCatalog([l EXCEPT !.active = active, !.at = "judge"])
    BY <1>0, InCatalogUpdate
  <2> QED BY <1>1, <2>1, <2>2
<1>6. CASE PassOver(r)
  BY <1>0, <1>1, <1>6, InCatalogUpdate DEF PassOver, tables
<1>7. CASE RecordMission(r)
  <2>1. PICK id : id = Current(r).id
    OBVIOUS
  <2>2. /\ completed' = IF id \in DOMAIN completed THEN completed ELSE Entered(completed, id, day)
        /\ Active /\ Moves(r, [l EXCEPT !.at = "recorded"])
        /\ UNCHANGED <<day, progress, results, reps, active, loop>>
    BY <1>7, <2>1 DEF RecordMission
  <2>3. id \in Ids /\ day \in 1..MaxDay /\ MaxDay \in Nat
    BY <1>0, <2>1, AcademyAssumption DEF RecordsTyped
  <2>4. /\ DOMAIN completed' \subseteq Ids
        /\ \A i \in DOMAIN completed' : completed'[i] \in 1..day
        /\ \A i \in DOMAIN completed : i \in DOMAIN completed' /\ completed'[i] = completed[i]
    BY <2>2, <2>3 DEF RecordsTyped, Entered
  <2>5. days' \subseteq 1..day' /\ days \subseteq days'
    BY <2>2, ActiveFrame
  <2>6. RecordsTyped'
    BY <2>2, <2>4, <2>5 DEF RecordsTyped, ResultsKept, Rows
  <2>7. \A t \in Terms : reps'[t] >= reps[t]
    <3>1. \A t \in Terms : reps[t] \in Nat
      BY DEF RecordsTyped
    <3> QED BY <2>2, <3>1
  <2>8. ASSUME NEW k \in Kinds, NEW s \in DOMAIN results[k]
        PROVE  /\ s \in DOMAIN results'[k] /\ results'[k][s].best >= results[k][s].best
               /\ results[k][s].passed => results'[k][s].passed
    <3>1. results[k][s].best \in Int
      BY DEF RecordsTyped, ResultsKept, Rows
    <3> QED BY <2>2, <3>1
  <2>9. Stands
    BY <2>2, <2>4, <2>5, <2>7, <2>8 DEF Stands
  <2>10. Listed'
    BY <1>0, <2>2, InCatalogUpdate, MovesListed
  <2> QED BY <2>2, <2>6, <2>9, <2>10, SlotsFrame
<1>8. CASE Reread(r)
  <2>1. InCatalog([l EXCEPT !.completed = DOMAIN completed])
    BY <1>0, InCatalogUpdate
  <2> QED BY <2>1, <1>1, <1>8, InCatalogUpdate DEF Reread, tables
<1>9. CASE ClearSlot(r)
  <2>1. PICK id : id = Current(r).id
    OBVIOUS
  <2>2. /\ active' = active \ {id} /\ Moves(r, [l EXCEPT !.at = "cleared"])
        /\ UNCHANGED <<day, days, progress, results, reps, completed, loop>>
    BY <1>9, <2>1 DEF ClearSlot
  <2>3. SlotsKept'
    <3>1. IsFiniteSet(active) /\ active' \subseteq active
      BY <2>2 DEF SlotsKept
    <3>2. IsFiniteSet(active') /\ Cardinality(active') <= Cardinality(active)
      BY <3>1, FS_Subset
    <3>3. Cardinality(active) \in Nat /\ Cardinality(active') \in Nat /\ MaxActive \in Nat
      BY <3>1, <3>2, FS_CardinalityType, AcademyAssumption
    <3> QED BY <2>2, <3>1, <3>2, <3>3 DEF SlotsKept, RoomKept
  <2>4. Listed'
    BY <1>0, <2>2, InCatalogUpdate, MovesListed
  <2> QED BY <2>2, <2>3, <2>4, RecordsFrame
<1>10. CASE RereadActive(r)
  <2>1. InCatalog([l EXCEPT !.active = active])
    BY <1>0, InCatalogUpdate
  <2> QED BY <2>1, <1>1, <1>10, InCatalogUpdate DEF RereadActive, tables
<1> QED BY <1>2, <1>3, <1>4, <1>5, <1>6, <1>7, <1>8, <1>9, <1>10 DEF List

\* Clearing a user's data leaves empty tables, of the same types.
LEMMA ClearStep ==
    ASSUME AcademyInv, ClearUserData
    PROVE  AcademyInv'
<1> USE DEF AcademyInv
<1>1. /\ loop = Free /\ days' = {} /\ progress' = NewProgress /\ results' = NewResults
      /\ reps' = [t \in Terms |-> 0] /\ completed' = <<>> /\ active' = {}
      /\ UNCHANGED <<day, loop, listing>>
  BY DEF ClearUserData
<1>2. RecordsTyped'
  <2>1. ResultsKept'
    BY <1>1 DEF ResultsKept, NewResults, Rows
  <2>2. DOMAIN completed' = {}
    BY <1>1
  <2>3. progress' \in [Lessons -> {"new", "attempted", "done"}]
    BY <1>1 DEF NewProgress
  <2>4. reps' \in [Terms -> 0..MaxReps]
    BY <1>1, AcademyAssumption
  <2> QED BY <1>1, <2>1, <2>2, <2>3, <2>4 DEF RecordsTyped
<1>3. SlotsKept'
  <2>1. IsFiniteSet({}) /\ Cardinality({}) = 0
    BY FS_EmptySet
  <2>2. \A i : loop' # <<"take", i>>
    BY <1>1 DEF Free
  <2>3. RoomKept'
    BY <2>2 DEF RoomKept
  <2>4. active' = {} /\ MaxActive \in Nat
    BY <1>1, AcademyAssumption
  <2> QED BY <2>1, <2>3, <2>4 DEF SlotsKept
<1> QED BY <1>1, <1>2, <1>3, ListedFrame

\* Midnight: every day recorded is still no later than today.
LEMMA MidnightStep ==
    ASSUME AcademyInv, Midnight
    PROVE  AcademyInv' /\ Stands
<1> USE DEF AcademyInv
<1>1. /\ day < MaxDay /\ day' = day + 1
      /\ UNCHANGED <<days, progress, results, reps, completed, active, loop, listing>>
  BY DEF Midnight, tables
<1>2. day \in Nat /\ day' \in 1..MaxDay /\ 1..day \subseteq 1..day'
  BY <1>1, AcademyAssumption DEF RecordsTyped
<1>3. RecordsTyped'
  BY <1>1, <1>2 DEF RecordsTyped, ResultsKept, Rows
<1>4. \A t \in Terms : reps'[t] >= reps[t]
  <2>1. \A t \in Terms : reps[t] \in Nat
    BY DEF RecordsTyped
  <2> QED BY <1>1, <2>1
<1>5. ASSUME NEW k \in Kinds, NEW s \in DOMAIN results[k]
      PROVE  /\ s \in DOMAIN results'[k] /\ results'[k][s].best >= results[k][s].best
             /\ results[k][s].passed => results'[k][s].passed
  <2>1. results[k][s].best \in Int
    BY DEF RecordsTyped, ResultsKept, Rows
  <2> QED BY <1>1, <2>1
<1>6. Stands
  BY <1>1, <1>4, <1>5 DEF Stands
<1> QED BY <1>1, <1>3, <1>6, SlotsFrame, ListedFrame

\* The invariant holds in new tables.
LEMMA AcademyInvInit == AcademyInit => AcademyInv
<1> SUFFICES ASSUME AcademyInit PROVE AcademyInv
  OBVIOUS
<1>1. /\ day = 1 /\ days = {} /\ progress = NewProgress /\ results = NewResults
      /\ reps = [t \in Terms |-> 0] /\ completed = <<>> /\ active = {} /\ loop = Free
      /\ listing = [r \in Listers |-> Idle]
  BY DEF AcademyInit
<1>2. RecordsTyped
  <2>1. ResultsKept
    BY <1>1 DEF ResultsKept, NewResults, Rows
  <2>2. DOMAIN completed = {}
    BY <1>1
  <2>3. progress \in [Lessons -> {"new", "attempted", "done"}]
    BY <1>1 DEF NewProgress
  <2>4. reps \in [Terms -> 0..MaxReps] /\ day \in 1..MaxDay
    BY <1>1, AcademyAssumption
  <2> QED BY <1>1, <2>1, <2>2, <2>3, <2>4 DEF RecordsTyped
<1>3. SlotsKept
  <2>1. IsFiniteSet({}) /\ Cardinality({}) = 0
    BY FS_EmptySet
  <2>2. \A i : loop # <<"take", i>>
    BY <1>1 DEF Free
  <2> QED BY <1>1, <2>1, <2>2, AcademyAssumption DEF SlotsKept, RoomKept
<1>4. Listed
  BY <1>1, Catalog DEF Listed, InCatalog, Idle
<1> QED BY <1>2, <1>3, <1>4 DEF AcademyInv

\* Every step keeps the invariant and, unless the user clears the data, the records.
LEMMA AcademyInvStep == AcademyInv /\ [AcademyNext]_academy => AcademyInv' /\ [ClearUserData \/ Stands]_academy
<1> SUFFICES ASSUME AcademyInv, [AcademyNext]_academy
             PROVE  AcademyInv' /\ [ClearUserData \/ Stands]_academy
  OBVIOUS
<1>1. CASE UNCHANGED academy
  BY <1>1, RecordsFrame, SlotsFrame, ListedFrame DEF academy, tables, AcademyInv
<1>2. CASE AcademyNext
  <2>1. CASE Study
    BY <2>1, StudyStep
  <2>2. CASE Practise
    BY <2>2, PractiseStep
  <2>3. CASE FillSlots
    BY <2>3, SlotStep DEF FillSlots
  <2>4. CASE ListMissions
    BY <2>4, ListingStep DEF ListMissions
  <2>5. CASE ClearUserData
    BY <2>5, ClearStep
  <2>6. CASE Midnight
    BY <2>6, MidnightStep
  <2> QED BY <1>2, <2>1, <2>2, <2>3, <2>4, <2>5, <2>6 DEF AcademyNext
<1> QED BY <1>1, <1>2

\* The learning tables keep their types, and no more than MaxActive missions
\* stand in the slots whatever accepts, listings and clearings overlap
\* (services/missions.py, storage/state_store/learn.py).
THEOREM AcademyKeepsTypes == AcademySpec => []AcademyTypeOK
<1>1. AcademyInv => AcademyTypeOK
  BY DEF AcademyInv, RecordsTyped, ResultsKept, Rows, SlotsKept, AcademyTypeOK
<1> QED BY <1>1, AcademyInvInit, AcademyInvStep, PTL DEF AcademySpec

\* Only the user's clearing takes an achievement away: lessons done, verdicts and
\* best scores, repetitions, active days and the day of a completion stand
\* through retakes, wrong answers and listings that record a mission again.
THEOREM AchievementsStand == AcademySpec => RecordsStand
  BY AcademyInvInit, AcademyInvStep, PTL DEF AcademySpec, RecordsStand

(***************************************************************************)
(* The Academy: missions are earned.                                       *)
(***************************************************************************)
\* A set of natural numbers has a least element: what the inductions on days
\* below look at.
LEMMA LeastDay ==
    ASSUME NEW S, S \subseteq Nat, S # {}
    PROVE  \E n \in S : n = 0 \/ n - 1 \notin S
<1>1. IsWellFoundedOn(OpToRel(<, Nat), Nat)
  BY NatLessThanWellFounded
<1> DEFINE Less == OpToRel(<, Nat)
<1>2. PICK n \in S : \A m \in S : ~(<<m, n>> \in Less)
  <2> HIDE DEF Less
  <2> QED BY <1>1, WFMin DEF Less
<1>3. ASSUME n # 0, n - 1 \in S PROVE FALSE
  <2>1. n \in Nat /\ n - 1 \in Nat /\ n - 1 < n
    BY <1>3
  <2>2. <<n - 1, n>> \in Less
    BY <2>1 DEF OpToRel
  <2> QED BY <1>2, <1>3, <2>2
<1> QED BY <1>2, <1>3

\* The run of active days that ends at a day, up to day n: the function that
\* CurrentStreak computes.
Run(D, n, f) == f = [d \in 0..n |-> IF d \in D THEN 1 + f[d - 1] ELSE 0]

\* Runs are natural numbers, and computed up to two days they agree on both.
LEMMA RunsAgree ==
    ASSUME NEW D, D \subseteq Nat \ {0}, NEW n \in Nat, NEW m \in Nat, n <= m,
           NEW f, Run(D, n, f), NEW g, Run(D, m, g)
    PROVE  \A d \in 0..n : f[d] = g[d] /\ f[d] \in Nat
<1> DEFINE bad == {d \in 0..n : ~(f[d] = g[d] /\ f[d] \in Nat)}
<1>1. SUFFICES ASSUME bad # {} PROVE FALSE
  OBVIOUS
<1>2. PICK d \in bad : d = 0 \/ d - 1 \notin bad
  <2> HIDE DEF bad
  <2>1. bad \subseteq Nat
    BY DEF bad
  <2> QED BY <1>1, <2>1, LeastDay
<1>3. d \in 0..n /\ d \in 0..m /\ d \in Nat
  BY <1>2
<1>4. /\ f[d] = IF d \in D THEN 1 + f[d - 1] ELSE 0
      /\ g[d] = IF d \in D THEN 1 + g[d - 1] ELSE 0
  BY <1>3 DEF Run
<1>5. CASE d \notin D
  BY <1>2, <1>4, <1>5
<1>6. CASE d \in D
  <2>1. d # 0 /\ d - 1 \in 0..n
    BY <1>3, <1>6
  <2>2. f[d - 1] = g[d - 1] /\ f[d - 1] \in Nat
    BY <1>2, <2>1
  <2> QED BY <1>2, <1>4, <1>6, <2>2
<1> QED BY <1>5, <1>6

\* The runs up to a day exist.
LEMMA RunExists ==
    ASSUME NEW D, D \subseteq Nat \ {0}, NEW n \in Nat
    PROVE  \E f : Run(D, n, f)
<1> DEFINE bad == {k \in Nat : ~\E f : Run(D, k, f)}
<1>1. SUFFICES ASSUME bad # {} PROVE FALSE
  OBVIOUS
<1>2. PICK k \in bad : k = 0 \/ k - 1 \notin bad
  <2> HIDE DEF bad
  <2>1. bad \subseteq Nat
    BY DEF bad
  <2> QED BY <1>1, <2>1, LeastDay
<1>3. k \in Nat /\ ~\E f : Run(D, k, f)
  BY <1>2
<1>4. CASE k = 0
  <2>1. Run(D, 0, [d \in 0..0 |-> 0])
    <3> DEFINE z == [d \in 0..0 |-> 0]
    <3>1. 0 \notin D
      OBVIOUS
    <3>2. \A d \in 0..0 : d = 0
      OBVIOUS
    <3>3. z = [d \in 0..0 |-> IF d \in D THEN 1 + z[d - 1] ELSE 0]
      BY <3>1, <3>2
    <3> QED BY <3>3 DEF Run
  <2> QED BY <1>3, <1>4, <2>1
<1>5. CASE k # 0
  <2>1. k - 1 \in Nat
    BY <1>3, <1>5
  <2>2. PICK g : Run(D, k - 1, g)
    BY <1>2, <1>5, <2>1
  <2> DEFINE f == [d \in 0..k |-> IF d = k THEN (IF k \in D THEN 1 + g[k - 1] ELSE 0) ELSE g[d]]
  <2>3. ASSUME NEW d \in 0..k PROVE f[d] = IF d \in D THEN 1 + f[d - 1] ELSE 0
    <3>1. CASE d = k
      <4>1. k - 1 \in 0..k /\ k - 1 # k
        BY <1>3, <2>1
      <4> QED BY <3>1, <4>1
    <3>2. CASE d # k
      <4>1. d \in 0..(k - 1) /\ f[d] = g[d]
        BY <1>3, <3>2
      <4>2. g[d] = IF d \in D THEN 1 + g[d - 1] ELSE 0
        BY <2>2, <4>1 DEF Run
      <4>3. ASSUME d \in D PROVE f[d - 1] = g[d - 1]
        <5>1. d - 1 \in 0..k /\ d - 1 # k
          BY <1>3, <4>1, <4>3
        <5> QED BY <5>1
      <4> QED BY <4>1, <4>2, <4>3
    <3> QED BY <3>1, <3>2
  <2>4. f = [d \in 0..k |-> f[d]]
    OBVIOUS
  <2> HIDE DEF f
  <2>5. f = [d \in 0..k |-> IF d \in D THEN 1 + f[d - 1] ELSE 0]
    BY <2>3, <2>4
  <2>6. Run(D, k, f)
    BY <2>5 DEF Run
  <2> QED BY <1>3, <2>6
<1> QED BY <1>4, <1>5

\* A streak that is long enough at a later day, from the same days, was so
\* before: it can only lapse.
LEMMA StreakLapses ==
    ASSUME NEW today \in Nat \ {0}, NEW D, D \subseteq 1..today, NEW later \in Nat, later >= today,
           NEW bar \in Int, CurrentStreak(D, later) >= bar
    PROVE  CurrentStreak(D, today) >= bar
<1>1. D \subseteq Nat \ {0}
  OBVIOUS
<1> DEFINE f == CHOOSE f : Run(D, today, f)
           g == CHOOSE g : Run(D, later, g)
<1>2. Run(D, today, f) /\ Run(D, later, g)
  BY <1>1, RunExists
<1>3. CurrentStreak(D, today) = f[IF today \in D THEN today ELSE today - 1]
  BY DEF CurrentStreak, Run
<1>4. CurrentStreak(D, later) = g[IF later \in D THEN later ELSE later - 1]
  BY DEF CurrentStreak, Run
<1> HIDE DEF f, g
<1>5. \A d \in 0..today : f[d] = g[d] /\ f[d] \in Nat
  BY <1>1, <1>2, RunsAgree
<1>6. CASE later = today
  BY <1>3, <1>4, <1>5, <1>6
<1>7. CASE later > today
  <2>1. later \notin D /\ later - 1 \in 0..later /\ later - 1 \in Nat /\ later - 1 >= today
    BY <1>7
  <2>2. CurrentStreak(D, later) = g[later - 1]
    BY <1>4, <2>1
  <2>3. CurrentStreak(D, today) \in Nat
    <3>1. (IF today \in D THEN today ELSE today - 1) \in 0..today
      OBVIOUS
    <3> QED BY <1>3, <1>5, <3>1
  <2>4. CASE later - 1 \in D
    <3>1. later - 1 = today
      BY <2>1, <2>4
    <3>2. CurrentStreak(D, today) = f[today] /\ today \in 0..today
      BY <1>3, <2>4, <3>1
    <3> QED BY <1>5, <2>2, <3>1, <3>2
  <2>5. CASE later - 1 \notin D
    <3>1. g[later - 1] = 0
      BY <1>2, <2>1, <2>5 DEF Run
    <3> QED BY <2>2, <2>3, <3>1
  <2> QED BY <2>4, <2>5
<1> QED BY <1>6, <1>7

(***************************************************************************)
(* What a criterion reads.                                                 *)
(***************************************************************************)
ItemTypes ==
    {"min_trades", "all_have_stops", "max_risk_percent_each", "max_dangerous_success",
     "min_classification", "consecutive_process_scores", "min_process_average",
     "min_planned_losses_taken", "min_resolved", "min_symbol_diversity", "max_daily_trades",
     "min_trades_with_reason", "min_emotions_logged", "zero_tilt_entries"}
JournalTypes == {"min_journaled", "min_tagged"}
\* The tables a type of criterion is decided by; an unknown type reads none.
Reads(type) ==
    CASE type \in ItemTypes -> {"items"}
      [] type \in JournalTypes -> {"items", "journal"}
      [] type \in {"scenario_passed", "min_scenarios_passed"} -> {"scenarios"}
      [] type = "min_lessons_completed" -> {"lessons"}
      [] type = "assessment_passed" -> {"exams"}
      [] type = "min_streak_days" -> {"days"}
      [] type = "min_review_reps" -> {"reps"}
      [] type = "constitution_adopted" -> {"adopted"}
      [] OTHER -> {}

\* A criterion of an unknown type is never met.
LEMMA UnknownUnmet ==
    ASSUME NEW c, NEW x, NEW d, Met(c, x, d)
    PROVE  Reads(c.type) # {}
BY DEF Met, Reads, ItemTypes, JournalTypes

\* Two contexts that agree on what a criterion reads agree on the criterion; the
\* day matters to a streak alone.
LEMMA MetReads ==
    ASSUME NEW c, NEW x, NEW y, NEW d, NEW e,
           \A f \in Reads(c.type) : y[f] = x[f],
           c.type = "min_streak_days" => d = e,
           Met(c, x, d)
    PROVE  Met(c, y, e)
<1>1. CASE c.type \in ItemTypes
  <2>1. y.items = x.items
    BY <1>1 DEF Reads, ItemTypes, JournalTypes
  <2>2. /\ Items(x) = Items(y)
        /\ \A S : CountItems(x, S) = CountItems(y, S)
        /\ \A S : NoteCount(x, S) = NoteCount(y, S)
        /\ \A bar : LongestScoreRun(x, bar) = LongestScoreRun(y, bar)
        /\ TotalScore(x) = TotalScore(y)
    BY <2>1 DEF Items, CountItems, NoteCount, LongestScoreRun, TotalScore
  <2>3. BusiestDay(x) = BusiestDay(y)
    BY <2>1, <2>2 DEF BusiestDay
  <2>4. CASE c.type \in {"min_trades", "all_have_stops", "max_risk_percent_each", "zero_tilt_entries",
                        "consecutive_process_scores", "min_process_average"}
    BY <2>1, <2>2, <2>4 DEF Met
  <2>5. CASE c.type \in {"max_dangerous_success", "min_classification", "min_planned_losses_taken"}
    BY <2>2, <2>5 DEF Met
  <2>6. CASE c.type \in {"min_resolved", "min_trades_with_reason", "min_emotions_logged"}
    BY <2>2, <2>6 DEF Met
  <2>7. CASE c.type \in {"min_symbol_diversity", "max_daily_trades"}
    BY <2>1, <2>2, <2>3, <2>7 DEF Met
  <2> QED BY <1>1, <2>4, <2>5, <2>6, <2>7 DEF ItemTypes
<1>2. CASE c.type \in JournalTypes
  <2>1. y.items = x.items /\ y.journal = x.journal
    BY <1>2 DEF Reads, ItemTypes, JournalTypes
  <2>2. /\ Items(x) = Items(y)
        /\ \A S : CountItems(x, S) = CountItems(y, S)
    BY <2>1 DEF Items, CountItems
  <2> QED BY <1>2, <2>1, <2>2 DEF Met, JournalTypes
<1>3. CASE c.type \in {"scenario_passed", "min_scenarios_passed"}
  <2>1. y.scenarios = x.scenarios
    BY <1>3 DEF Reads, ItemTypes, JournalTypes
  <2> QED BY <1>3, <2>1 DEF Met
<1>4. CASE c.type = "min_lessons_completed"
  <2>1. y.lessons = x.lessons
    BY <1>4 DEF Reads, ItemTypes, JournalTypes
  <2> QED BY <1>4, <2>1 DEF Met
<1>5. CASE c.type = "assessment_passed"
  <2>1. y.exams = x.exams
    BY <1>5 DEF Reads, ItemTypes, JournalTypes
  <2> QED BY <1>5, <2>1 DEF Met
<1>6. CASE c.type = "min_streak_days"
  <2>1. y.days = x.days /\ d = e
    BY <1>6 DEF Reads, ItemTypes, JournalTypes
  <2> QED BY <1>6, <2>1 DEF Met
<1>7. CASE c.type = "min_review_reps"
  <2>1. y.reps = x.reps
    BY <1>7 DEF Reads, ItemTypes, JournalTypes
  <2> QED BY <1>7, <2>1 DEF Met
<1>8. CASE c.type = "constitution_adopted"
  <2>1. y.adopted = x.adopted
    BY <1>8 DEF Reads, ItemTypes, JournalTypes
  <2> QED BY <1>8, <2>1 DEF Met
<1> QED BY <1>1, <1>2, <1>3, <1>4, <1>5, <1>6, <1>7, <1>8 DEF Met, ItemTypes, JournalTypes

(***************************************************************************)
(* Trades and the journal.                                                 *)
(***************************************************************************)
\* Trades as the venue executes them: each one of the book so far, in some order.
Booked(s) ==
    /\ s \in Seq({s[i] : i \in DOMAIN s})
    /\ Len(s) <= Len(TradeBook)
    /\ \A i \in 1..Len(s) : \E j \in 1..Len(s) : s[i].id = TradeBook[j].id
    /\ \A i, j \in 1..Len(s) : s[i].id = s[j].id => i = j
\* Only trades that are executed are annotated.
Annotated(s, j) == j.notes \cup j.tags \subseteq {s[i].id : i \in DOMAIN s}

\* The trades of an older list that a journal names are among those of today's.
Named(s, J) == Cardinality({i \in DOMAIN s : s[i].id \in J})

\* The annotated trades of an older list are no more than those of the present one.
LEMMA JournaledOnce ==
    ASSUME NEW s, Booked(s), NEW t, Booked(t), NEW J, J \subseteq {t[i].id : i \in DOMAIN t}
    PROVE  Named(s, J) <= Named(t, J) /\ Named(s, J) \in Nat /\ Named(t, J) \in Nat
<1> DEFINE S == {i \in DOMAIN s : s[i].id \in J}
           T == {i \in DOMAIN t : t[i].id \in J}
           n == Len(s)
           m == Len(t)
<1>1. /\ n \in Nat /\ DOMAIN s = 1..n /\ m \in Nat /\ DOMAIN t = 1..m
      /\ Len(TradeBook) \in Nat /\ DOMAIN TradeBook = 1..Len(TradeBook)
      /\ n <= Len(TradeBook) /\ m <= Len(TradeBook)
  BY AcademyAssumption, LenProperties DEF Booked
<1> DEFINE same(i) == CHOOSE k \in T : t[k].id = s[i].id
<1>2. ASSUME NEW i \in S PROVE same(i) \in T /\ t[same(i)].id = s[i].id
  <2>1. \E k \in T : t[k].id = s[i].id
    BY <1>2
  <2> QED BY <2>1
<1>3. [i \in S |-> same(i)] \in Injection(S, T)
  <2>1. ASSUME NEW i \in S, NEW j \in S, same(i) = same(j) PROVE i = j
    <3>1. s[i].id = s[j].id
      BY <1>2, <2>1
    <3> QED BY <1>1, <3>1 DEF Booked
  <2> DEFINE f == [i \in S |-> same(i)]
  <2> HIDE DEF S, T, n, m, same
  <2>2. f \in [S -> T]
    BY <1>2
  <2>3. \A i, j \in S : f[i] = f[j] => i = j
    BY <2>1
  <2> HIDE DEF f
  <2>4. f \in Injection(S, T)
    BY <2>2, <2>3 DEF Injection, IsInjective
  <2> QED BY <2>4 DEF f
<1>4. IsFiniteSet(T)
  <2>1. IsFiniteSet(1..m) /\ T \subseteq 1..m
    BY <1>1, FS_Interval
  <2> QED BY <2>1, FS_Subset
<1>5. IsFiniteSet(S) /\ Cardinality(S) <= Cardinality(T)
  <2> HIDE DEF S, T, n, m
  <2> QED BY <1>3, <1>4, FS_Injection
<1>6. Cardinality(S) \in Nat /\ Cardinality(T) \in Nat
  BY <1>4, <1>5, FS_CardinalityType
<1>7. Named(s, J) = Cardinality(S) /\ Named(t, J) = Cardinality(T)
  BY DEF Named
<1> QED BY <1>5, <1>6, <1>7

\* What a journal criterion counts, in terms of the trades' ids.
LEMMA JournalCount ==
    ASSUME NEW x, NEW J
    PROVE  CountItems(x, {t \in Items(x) : t.id \in J}) = Named(x.items, J)
<1>1. \A i \in DOMAIN x.items : x.items[i] \in Items(x)
  BY DEF Items, ToSet
<1>2. {i \in DOMAIN x.items : x.items[i] \in {t \in Items(x) : t.id \in J}}
        = {i \in DOMAIN x.items : x.items[i].id \in J}
  BY <1>1
<1> QED BY <1>2 DEF CountItems, Named

\* A journal criterion met by an older list of trades under today's journal is met
\* by today's list.
LEMMA JournalMet ==
    ASSUME NEW c, c.type \in JournalTypes, c.value \in Int, NEW x, NEW y, NEW d, NEW e,
           Booked(x.items), Booked(y.items), y.journal = x.journal, Annotated(y.items, y.journal),
           Met(c, x, d)
    PROVE  Met(c, y, e)
<1>1. ASSUME NEW J, J \subseteq y.journal.notes \cup y.journal.tags,
             CountItems(x, {t \in Items(x) : t.id \in J}) >= c.value
      PROVE  CountItems(y, {t \in Items(y) : t.id \in J}) >= c.value
  <2>1. J \subseteq {y.items[i].id : i \in DOMAIN y.items}
    BY <1>1 DEF Annotated
  <2>2. Named(x.items, J) <= Named(y.items, J) /\ Named(x.items, J) \in Nat /\ Named(y.items, J) \in Nat
    BY <2>1, JournaledOnce
  <2>3. Named(x.items, J) >= c.value
    BY <1>1, JournalCount
  <2>4. CountItems(y, {u \in Items(y) : u.id \in J}) = Named(y.items, J)
    BY JournalCount
  <2> QED BY <2>2, <2>3, <2>4
<1>2. CASE c.type = "min_journaled"
  <2>1. CountItems(x, {t \in Items(x) : t.id \in x.journal.notes \cup x.journal.tags}) >= c.value
    BY <1>2 DEF Met
  <2>2. CountItems(y, {t \in Items(y) : t.id \in y.journal.notes \cup y.journal.tags}) >= c.value
    BY <1>1, <2>1
  <2> QED BY <1>2, <2>2 DEF Met
<1>3. CASE c.type = "min_tagged"
  <2>1. CountItems(x, {t \in Items(x) : t.id \in x.journal.tags}) >= c.value
    BY <1>3 DEF Met
  <2>2. CountItems(y, {t \in Items(y) : t.id \in y.journal.tags}) >= c.value
    BY <1>1, <2>1
  <2> QED BY <1>3, <2>2 DEF Met
<1> QED BY <1>2, <1>3 DEF JournalTypes

(***************************************************************************)
(* What a listing has read.                                                *)
(***************************************************************************)
\* Every criterion that a context read so far decides for itself, on the day given
\* or a later one, is among those that held; so is every drill.
Backed(x, held_, today) ==
    \A k \in DOMAIN Missions : \A i \in 0..Len(Missions[k].criteria) :
        /\ i = 0 /\ (Missions[k].drill = NoDrill
                       \/ ("drills" \in DOMAIN x /\ Missions[k].drill \in x.drills))
             => <<Missions[k].id, 0>> \in held_
        /\ i # 0 /\ Reads(Missions[k].criteria[i].type) \subseteq DOMAIN x
             => \A d \in Nat : d >= today /\ Met(Missions[k].criteria[i], x, d)
                                  => <<Missions[k].id, i>> \in held_
\* The tables a listing has read after n steps, and when it has read them all.
FirstFields(n) == {Fields[j] : j \in 1..n}
Early == {"idle", "context"}
Fetched(l) ==
    /\ "x" \in DOMAIN l
    /\ "at" \in DOMAIN l
    /\ \E n \in 0..9 : /\ DOMAIN l.x = FirstFields(n)
                       /\ n = 9 <=> l.at \notin Early
    /\ "items" \in DOMAIN l.x => Booked(l.x.items)
EarnedBy(done, held_) ==
    \A k \in DOMAIN Missions : Missions[k].id \in done =>
        \A c \in 0..Len(Missions[k].criteria) : <<Missions[k].id, c>> \in held_
\* What MissionsEarned rests on: whatever a listing would conclude from what it
\* has read did hold when it read it, and trades are annotated after they executed.
EarnedInv ==
    /\ Held \subseteq met
    /\ Booked(items)
    /\ Annotated(items, journal)
    /\ \A r \in Listers : Fetched(listing[r]) /\ Backed(listing[r].x, met, day)
    /\ EarnedBy(DOMAIN completed, met)

\* The nine tables are read one by one.
LEMMA FieldsInOrder ==
    /\ Len(Fields) = 9
    /\ \A i, j \in 1..9 : Fields[i] = Fields[j] => i = j
    /\ Last(Fields) = Fields[9]
    /\ Fields[1] = "items"
    /\ \A f \in {"items", "journal", "scenarios", "lessons", "exams", "days", "reps", "adopted", "drills"} :
          f \in FirstFields(9)
<1>1. Len(Fields) = 9
  BY DEF Fields
<1>2. \A i, j \in 1..9 : Fields[i] = Fields[j] => i = j
  BY DEF Fields
<1>3. Last(Fields) = Fields[9]
  BY <1>1 DEF Last
<1>4. Fields[1] = "items"
  BY DEF Fields
<1>5. ASSUME NEW f \in {"items", "journal", "scenarios", "lessons", "exams", "days", "reps", "adopted", "drills"}
      PROVE  \E j \in 1..9 : Fields[j] = f
  <2>1. /\ Fields[1] = "items" /\ Fields[2] = "journal" /\ Fields[3] = "scenarios"
        /\ Fields[4] = "lessons" /\ Fields[5] = "exams" /\ Fields[6] = "days"
        /\ Fields[7] = "reps" /\ Fields[8] = "adopted" /\ Fields[9] = "drills"
    BY DEF Fields
  <2> QED BY <2>1
<1> QED BY <1>1, <1>2, <1>3, <1>4, <1>5 DEF FirstFields

\* Reading the next table adds it and no other.
LEMMA NextField ==
    ASSUME NEW n \in 0..8, NEW x, DOMAIN x = FirstFields(n)
    PROVE  /\ Cardinality(DOMAIN x) = n
           /\ FirstFields(n) \cup {Fields[n + 1]} = FirstFields(n + 1)
           /\ Fields[n + 1] = "items" => n = 0
           /\ Fields[n + 1] = Last(Fields) <=> n + 1 = 9
<1>1. Cardinality(FirstFields(n)) = n
  <2> DEFINE f == [j \in 1..n |-> Fields[j]]
  <2>1. f \in [1..n -> FirstFields(n)]
    BY DEF FirstFields
  <2>2. \A i, j \in 1..n : f[i] = f[j] => i = j
    BY FieldsInOrder
  <2>3. \A y \in FirstFields(n) : \E j \in 1..n : f[j] = y
    BY DEF FirstFields
  <2> HIDE DEF f
  <2>4. f \in Bijection(1..n, FirstFields(n))
    BY <2>1, <2>2, <2>3 DEF Bijection, Injection, Surjection, IsInjective
  <2> QED BY <2>4, FS_CountingElements DEF ExistsBijection
<1>2. \A j \in 1..(n + 1) : j \in 1..n \/ j = n + 1
  OBVIOUS
<1>3. FirstFields(n) \cup {Fields[n + 1]} = FirstFields(n + 1)
  BY <1>2 DEF FirstFields
<1> QED BY <1>1, <1>3, FieldsInOrder

\* A context that is backed stays so as days pass and more is remembered.
LEMMA BackedLonger ==
    ASSUME NEW x, NEW M, NEW N, M \subseteq N, NEW d \in Nat, NEW e \in Nat, d <= e, Backed(x, M, d)
    PROVE  Backed(x, N, e)
<1> SUFFICES ASSUME NEW k \in DOMAIN Missions, NEW i \in 0..Len(Missions[k].criteria)
             PROVE  /\ i = 0 /\ (Missions[k].drill = NoDrill
                                   \/ ("drills" \in DOMAIN x /\ Missions[k].drill \in x.drills))
                         => <<Missions[k].id, 0>> \in N
                    /\ i # 0 /\ Reads(Missions[k].criteria[i].type) \subseteq DOMAIN x
                         => \A t \in Nat : t >= e /\ Met(Missions[k].criteria[i], x, t)
                                              => <<Missions[k].id, i>> \in N
  BY DEF Backed
<1>1. \A t \in Nat : t >= e => t >= d
  OBVIOUS
<1> QED BY <1>1 DEF Backed

\* What holds in the tables today is remembered.
LEMMA HoldsNow ==
    ASSUME Held \subseteq met, NEW k \in DOMAIN Missions, NEW i \in 0..Len(Missions[k].criteria),
           Holds(Missions[k], i, Table)
    PROVE  <<Missions[k].id, i>> \in met
BY DEF Held

\* A listing that has read nothing concludes nothing.
LEMMA NothingBacked == ASSUME Held \subseteq met PROVE Backed(<<>>, met, day)
<1>1. DOMAIN <<>> = {}
  OBVIOUS
<1> SUFFICES ASSUME NEW k \in DOMAIN Missions, NEW i \in 0..Len(Missions[k].criteria)
             PROVE  /\ i = 0 /\ Missions[k].drill = NoDrill => <<Missions[k].id, 0>> \in met
                    /\ i # 0 /\ Reads(Missions[k].criteria[i].type) = {}
                         => \A d \in Nat : ~Met(Missions[k].criteria[i], <<>>, d)
  BY <1>1 DEF Backed
<1>2. ASSUME i = 0, Missions[k].drill = NoDrill PROVE <<Missions[k].id, 0>> \in met
  <2>1. Holds(Missions[k], 0, Table)
    BY <1>2 DEF Holds
  <2> QED BY <1>2, <2>1, HoldsNow
<1> QED BY <1>2, UnknownUnmet

\* A table that is read supports what it decides: single tables because the
\* criterion holds now, a journal because the trades read before it are
\* among those of now, a streak because it can only lapse.
LEMMA FieldBacked ==
    ASSUME AcademyInv, EarnedInv, NEW n \in 0..8, NEW x, DOMAIN x = FirstFields(n),
           Backed(x, met, day), "items" \in DOMAIN x => Booked(x.items)
    PROVE  Backed(Entered(x, Fields[n + 1], Table[Fields[n + 1]]), met, day)
<1> DEFINE f == Fields[n + 1]
           y == Entered(x, f, Table[f])
<1>1. /\ DOMAIN y = DOMAIN x \cup {f}
      /\ y[f] = Table[f]
      /\ \A g \in DOMAIN x : g # f => y[g] = x[g]
  BY DEF Entered
<1>2. /\ f = "items" => DOMAIN x = {}
  BY NextField DEF FirstFields
<1>3. day \in Nat \ {0} /\ days \subseteq 1..day
  BY AcademyAssumption DEF AcademyInv, RecordsTyped
<1> HIDE DEF f, y
<1>4. ASSUME NEW k \in DOMAIN Missions, 0 \in 0..Len(Missions[k].criteria),
             Missions[k].drill = NoDrill \/ ("drills" \in DOMAIN y /\ Missions[k].drill \in y.drills)
      PROVE  <<Missions[k].id, 0>> \in met
  <2>1. CASE f = "drills" /\ Missions[k].drill # NoDrill
    <3>1. Missions[k].drill \in Table.drills
      BY <1>1, <1>4, <2>1
    <3>2. Holds(Missions[k], 0, Table)
      BY <3>1 DEF Holds
    <3> QED BY <1>4, <3>2, HoldsNow DEF EarnedInv
  <2>2. CASE f # "drills" /\ Missions[k].drill # NoDrill
    BY <1>1, <1>4, <2>2 DEF Backed
  <2>3. CASE Missions[k].drill = NoDrill
    BY <1>4, <2>3 DEF Backed
  <2> QED BY <2>1, <2>2, <2>3
<1>5. ASSUME NEW k \in DOMAIN Missions, NEW i \in 0..Len(Missions[k].criteria), i # 0,
             Reads(Missions[k].criteria[i].type) \subseteq DOMAIN y,
             NEW d \in Nat, d >= day, Met(Missions[k].criteria[i], y, d)
      PROVE  <<Missions[k].id, i>> \in met
  <2>1. PICK c : c = Missions[k].criteria[i]
    OBVIOUS
  <2>2. SUFFICES ASSUME f \in Reads(c.type) PROVE Met(c, Table, day)
    <3>1. CASE f \in Reads(c.type)
      <4>1. Met(c, Table, day)
        BY <2>2, <3>1
      <4>2. Holds(Missions[k], i, Table)
        BY <1>5, <2>1, <4>1 DEF Holds
      <4> QED BY <4>2, HoldsNow DEF EarnedInv
    <3>2. CASE f \notin Reads(c.type)
      <4>1. Reads(c.type) \subseteq DOMAIN x /\ \A g \in Reads(c.type) : x[g] = y[g]
        BY <1>1, <1>5, <2>1, <3>2
      <4>2. Met(c, x, d)
        BY <1>5, <2>1, <4>1, MetReads
      <4> QED BY <1>5, <2>1, <4>1, <4>2 DEF Backed
    <3> QED BY <3>1, <3>2
  <2>3. c.type \in {"min_journaled", "min_tagged", "min_streak_days"} => c.value \in Int
    <3>1. i \in 1..Len(Missions[k].criteria)
      BY <1>5, AcademyAssumption
    <3> QED BY <2>1, <3>1, AcademyAssumption
  <2>4. CASE c.type \in JournalTypes
    <3>1. Reads(c.type) = {"items", "journal"}
      BY <2>4 DEF Reads, ItemTypes, JournalTypes
    <3>2. f = "journal" /\ "items" \in DOMAIN x /\ y.items = x.items /\ y.journal = journal
      <4>1. f # "items"
        BY <1>1, <1>2, <1>5, <2>1, <3>1
      <4>2. f = "journal"
        BY <2>2, <3>1, <4>1
      <4> QED BY <1>1, <1>5, <2>1, <3>1, <4>2 DEF Table
    <3>3. Table.items = items /\ Table.journal = journal
      BY DEF Table
    <3>4. Met(c, y, d)
      BY <1>5, <2>1
    <3> QED BY <2>3, <2>4, <3>2, <3>3, <3>4, JournalMet DEF EarnedInv, JournalTypes
  <2>5. CASE c.type = "min_streak_days"
    <3>1. f = "days"
      BY <2>2, <2>5 DEF Reads, ItemTypes, JournalTypes
    <3>2. y.days = days /\ Table.days = days
      BY <1>1, <3>1 DEF Table
    <3>3. CurrentStreak(days, d) >= c.value
      BY <1>5, <2>1, <2>5, <3>2 DEF Met
    <3>4. CurrentStreak(days, day) >= c.value
      BY <1>3, <1>5, <2>3, <2>5, <3>3, StreakLapses
    <3> QED BY <2>5, <3>2, <3>4 DEF Met
  <2>6. CASE c.type \notin JournalTypes \cup {"min_streak_days"}
    <3>1. Reads(c.type) = {f}
      BY <2>2, <2>6 DEF Reads, ItemTypes, JournalTypes
    <3>2. \A g \in Reads(c.type) : Table[g] = y[g]
      BY <1>1, <3>1
    <3>3. Met(c, y, d)
      BY <1>5, <2>1
    <3> QED BY <2>6, <3>2, <3>3, MetReads
  <2> QED BY <2>4, <2>5, <2>6
<1>6. Backed(y, met, day)
  BY <1>4, <1>5 DEF Backed
<1> QED BY <1>6 DEF f, y

\* What a listing turns to keeps what it has read, or forgets it.
LEMMA FetchedOnward ==
    ASSUME NEW l, Fetched(l), InCatalog(l), l.at \notin Early
    PROVE  /\ \A at : at \notin Early => Fetched([l EXCEPT !.at = at])
           /\ \A c, at : at \notin Early => /\ Fetched([l EXCEPT !.completed = c, !.at = at])
                                            /\ [l EXCEPT !.completed = c, !.at = at].x = l.x
           /\ \A a, at : at \notin Early => /\ Fetched([l EXCEPT !.active = a, !.at = at])
                                            /\ [l EXCEPT !.active = a, !.at = at].x = l.x
           /\ \A c : Fetched([l EXCEPT !.completed = c]) /\ [l EXCEPT !.completed = c].x = l.x
                       /\ [l EXCEPT !.completed = c].at = l.at
           /\ \A a : Fetched([l EXCEPT !.active = a]) /\ [l EXCEPT !.active = a].x = l.x
                       /\ [l EXCEPT !.active = a].at = l.at
           /\ \A at : [l EXCEPT !.at = at].x = l.x
           /\ Fetched(Onward(l)) /\ Onward(l).x \in {l.x, <<>>}
           /\ \A m : Fetched(AfterRecord(l, m)) /\ AfterRecord(l, m).x \in {l.x, <<>>}
<1>0. ASSUME NEW to, "x" \in DOMAIN to, "at" \in DOMAIN to, to.x = l.x, to.at \notin Early
      PROVE  Fetched(to)
  BY <1>0 DEF Fetched
<1>1. "x" \in DOMAIN l /\ "at" \in DOMAIN l
  BY DEF Fetched
<1>2. ASSUME NEW at
      PROVE  /\ [l EXCEPT !.at = at].x = l.x
             /\ at \notin Early => Fetched([l EXCEPT !.at = at])
  BY <1>0, <1>1
<1>3. ASSUME NEW c, NEW at, at \notin Early
      PROVE  Fetched([l EXCEPT !.completed = c, !.at = at]) /\ [l EXCEPT !.completed = c, !.at = at].x = l.x
  <2> DEFINE to == [l EXCEPT !.completed = c, !.at = at]
  <2>1. "x" \in DOMAIN to /\ "at" \in DOMAIN to /\ to.x = l.x /\ to.at = at
    BY <1>1
  <2> HIDE DEF to
  <2>2. Fetched(to)
    BY <1>0, <1>3, <2>1
  <2> QED BY <2>1, <2>2 DEF to
<1>4. ASSUME NEW a, NEW at, at \notin Early
      PROVE  Fetched([l EXCEPT !.active = a, !.at = at]) /\ [l EXCEPT !.active = a, !.at = at].x = l.x
  <2> DEFINE to == [l EXCEPT !.active = a, !.at = at]
  <2>1. "x" \in DOMAIN to /\ "at" \in DOMAIN to /\ to.x = l.x /\ to.at = at
    BY <1>1
  <2> HIDE DEF to
  <2>2. Fetched(to)
    BY <1>0, <1>4, <2>1
  <2> QED BY <2>1, <2>2 DEF to
<1>5. ASSUME NEW c
      PROVE  /\ Fetched([l EXCEPT !.completed = c]) /\ [l EXCEPT !.completed = c].x = l.x
             /\ [l EXCEPT !.completed = c].at = l.at
  BY <1>0, <1>1
<1>6. ASSUME NEW a
      PROVE  /\ Fetched([l EXCEPT !.active = a]) /\ [l EXCEPT !.active = a].x = l.x
             /\ [l EXCEPT !.active = a].at = l.at
  BY <1>0, <1>1
<1>7. Fetched(Idle) /\ Idle.x = <<>>
  <2>1. DOMAIN <<>> = {} /\ FirstFields(0) = {}
    BY DEF FirstFields
  <2>2. /\ "x" \in DOMAIN Idle
        /\ "at" \in DOMAIN Idle
        /\ Idle.x = <<>>
        /\ Idle.at = "idle"
    BY DEF Idle
  <2>3. 0 \in 0..9 /\ 0 # 9
    OBVIOUS
  <2> QED BY <2>1, <2>2, <2>3 DEF Fetched, Early
<1>8. Fetched(Onward(l)) /\ Onward(l).x \in {l.x, <<>>}
  <2>1. CASE l.mission = Len(Missions)
    BY <2>1, <1>7 DEF Onward
  <2>2. CASE l.mission # Len(Missions)
    <3> DEFINE to == [l EXCEPT !.mission = @ + 1, !.at = "judge"]
    <3>1. /\ "x" \in DOMAIN to
          /\ "at" \in DOMAIN to
          /\ to.x = l.x
          /\ to.at = "judge"
      BY <1>1
    <3>2. Onward(l) = to
      BY <2>2 DEF Onward
    <3> HIDE DEF to
    <3>3. Fetched(to)
      BY <1>0, <3>1 DEF Early
    <3> QED BY <3>1, <3>2, <3>3
  <2> QED BY <2>1, <2>2
<1>9. ASSUME NEW m PROVE Fetched(AfterRecord(l, m)) /\ AfterRecord(l, m).x \in {l.x, <<>>}
  <2>1. CASE m.id \in l.active
    BY <2>1, <1>2 DEF AfterRecord, Early
  <2>2. CASE m.id \notin l.active
    BY <2>2, <1>8 DEF AfterRecord
  <2> QED BY <2>1, <2>2
<1> QED BY <1>2, <1>3, <1>4, <1>5, <1>6, <1>8, <1>9

\* A step of everybody but the listings, which keeps the listings as they are and
\* records no mission.
LEMMA EarnedFrame ==
    ASSUME AcademyInv, EarnedInv, Remember, UNCHANGED listing, day' \in Nat, day <= day',
           completed' \in {completed, <<>>}, Booked(items'), Annotated(items', journal')
    PROVE  EarnedInv'
<1>1. met \subseteq met' /\ Held' \subseteq met'
  BY DEF Remember
<1>2. day \in Nat
  BY AcademyAssumption DEF AcademyInv, RecordsTyped
<1>3. ASSUME NEW r \in Listers PROVE Fetched(listing'[r]) /\ Backed(listing'[r].x, met', day')
  BY <1>1, <1>2, BackedLonger DEF EarnedInv
<1>4. EarnedBy(DOMAIN completed', met')
  <2>1. DOMAIN <<>> = {}
    OBVIOUS
  <2>2. DOMAIN completed' \subseteq DOMAIN completed
    BY <2>1
  <2> QED BY <1>1, <2>2 DEF EarnedBy, EarnedInv
<1> QED BY <1>1, <1>3, <1>4 DEF EarnedInv

\* A listing's step that records no mission.
LEMMA EarnedMoves ==
    ASSUME AcademyInv, EarnedInv, Remember, NEW r \in Listers, NEW to, Moves(r, to),
           Fetched(to), Backed(to.x, met, day),
           UNCHANGED <<day, completed, items, journal>>
    PROVE  EarnedInv'
<1>1. met \subseteq met' /\ Held' \subseteq met'
  BY DEF Remember
<1>2. day \in Nat
  BY AcademyAssumption DEF AcademyInv, RecordsTyped
<1>3. listing' = [q \in Listers |-> IF q = r THEN to ELSE listing[q]]
  BY DEF Moves, AcademyInv, Listed
<1>4. ASSUME NEW q \in Listers PROVE Fetched(listing'[q]) /\ Backed(listing'[q].x, met', day')
  <2>1. CASE q = r
    BY <1>1, <1>2, <1>3, <2>1, BackedLonger
  <2>2. CASE q # r
    BY <1>1, <1>2, <1>3, <2>2, BackedLonger DEF EarnedInv
  <2> QED BY <2>1, <2>2
<1>5. EarnedBy(DOMAIN completed', met')
  BY <1>1 DEF EarnedBy, EarnedInv
<1> QED BY <1>1, <1>4, <1>5 DEF EarnedInv

\* A listing records a mission only if each of its criteria did hold.
LEMMA EarnedRecord ==
    ASSUME AcademyInv, EarnedInv, Remember, NEW r \in Listers, RecordMission(r)
    PROVE  EarnedInv'
<1> DEFINE l == listing[r]
           to == [l EXCEPT !.at = "recorded"]
<1>1. /\ l.at = "judge"
      /\ Accomplished(Current(r), l.x)
      /\ DOMAIN completed' \subseteq DOMAIN completed \cup {Current(r).id}
      /\ Moves(r, to)
      /\ UNCHANGED <<day, items, journal>>
  BY DEF RecordMission, Entered
<1>2. met \subseteq met' /\ Held' \subseteq met' /\ day \in Nat
  BY AcademyAssumption DEF Remember, AcademyInv, RecordsTyped
<1>3. /\ InCatalog(l) /\ Fetched(l) /\ Backed(l.x, met, day)
      /\ l.mission \in DOMAIN Missions
      /\ Current(r) = Missions[l.mission]
  BY CurrentIsListed, Catalog DEF AcademyInv, EarnedInv, InCatalog, Current
<1>4. DOMAIN l.x = FirstFields(9)
  BY <1>1, <1>3 DEF Fetched, Early
<1>5. ASSUME NEW i \in 0..Len(Missions[l.mission].criteria)
      PROVE  <<Missions[l.mission].id, i>> \in met
  <2>1. Holds(Missions[l.mission], i, l.x)
    BY <1>1, <1>3 DEF Accomplished
  <2>2. CASE i = 0
    <3>1. Missions[l.mission].drill = NoDrill \/ Missions[l.mission].drill \in l.x.drills
      BY <2>1, <2>2 DEF Holds
    <3>2. "drills" \in DOMAIN l.x
      BY <1>4, FieldsInOrder
    <3> QED BY <1>3, <2>2, <3>1, <3>2 DEF Backed
  <2>3. CASE i # 0
    <3>1. Met(Missions[l.mission].criteria[i], l.x, day)
      BY <2>1, <2>3 DEF Holds
    <3>2. Reads(Missions[l.mission].criteria[i].type) \subseteq
             {"items", "journal", "scenarios", "lessons", "exams", "days", "reps", "adopted"}
      BY DEF Reads, ItemTypes, JournalTypes
    <3>3. Reads(Missions[l.mission].criteria[i].type) \subseteq DOMAIN l.x
      BY <1>4, <3>2, FieldsInOrder
    <3>4. day >= day
      BY <1>2
    <3> QED BY <1>2, <1>3, <2>3, <3>1, <3>3, <3>4 DEF Backed
  <2> QED BY <2>2, <2>3
<1>6. EarnedBy(DOMAIN completed', met')
  <2> SUFFICES ASSUME NEW k \in DOMAIN Missions, Missions[k].id \in DOMAIN completed',
                      NEW c \in 0..Len(Missions[k].criteria)
               PROVE  <<Missions[k].id, c>> \in met'
    BY DEF EarnedBy
  <2>1. CASE Missions[k].id \in DOMAIN completed
    BY <1>2, <2>1 DEF EarnedInv, EarnedBy
  <2>2. CASE Missions[k].id = Current(r).id
    <3>1. k = l.mission
      BY <1>3, <2>2, AcademyAssumption
    <3> QED BY <1>2, <1>5, <3>1
  <2> QED BY <1>1, <2>1, <2>2
<1>7. Fetched(to) /\ to.x = l.x
  BY <1>1, <1>3, FetchedOnward DEF Early
<1>8. listing' = [q \in Listers |-> IF q = r THEN to ELSE listing[q]]
  BY <1>1 DEF Moves, AcademyInv, Listed
<1> HIDE DEF to
<1>9. ASSUME NEW q \in Listers PROVE Fetched(listing'[q]) /\ Backed(listing'[q].x, met', day')
  <2>1. CASE q = r
    BY <1>1, <1>2, <1>3, <1>7, <1>8, <2>1, BackedLonger
  <2>2. CASE q # r
    BY <1>1, <1>2, <1>8, <2>2, BackedLonger DEF EarnedInv
  <2> QED BY <2>1, <2>2
<1> QED BY <1>1, <1>2, <1>6, <1>9 DEF EarnedInv

\* The other steps of a listing read, or go on.
LEMMA EarnedListing ==
    ASSUME AcademyInv, EarnedInv, Remember, NEW r \in Listers, List(r)
    PROVE  EarnedInv'
<1> DEFINE l == listing[r]
<1>a. "active" \notin Early /\ "judge" \notin Early /\ "cleared" \notin Early
  BY DEF Early
<1>0. InCatalog(l) /\ Fetched(l) /\ Backed(l.x, met, day) /\ Backed(<<>>, met, day)
  BY CurrentIsListed, NothingBacked DEF AcademyInv, EarnedInv
<1>1. ASSUME NEW to, Moves(r, to), Fetched(to), to.x \in {l.x, <<>>},
             UNCHANGED <<day, completed, items, journal>>
      PROVE  EarnedInv'
  BY <1>0, <1>1, EarnedMoves
<1>2. CASE BeginListing(r)
  <2> DEFINE to == [Idle EXCEPT !.at = "context"]
  <2>1. Moves(r, to) /\ UNCHANGED <<day, completed, items, journal>>
    BY <1>2 DEF BeginListing, tables
  <2>2. /\ "x" \in DOMAIN to
        /\ "at" \in DOMAIN to
        /\ to.x = <<>>
        /\ to.at = "context"
    BY DEF Idle
  <2>3. DOMAIN <<>> = {} /\ FirstFields(0) = {} /\ 0 \in 0..9 /\ 0 # 9
    BY DEF FirstFields
  <2> HIDE DEF to
  <2>4. Fetched(to)
    BY <2>2, <2>3 DEF Fetched, Early
  <2> QED BY <1>1, <2>1, <2>2, <2>4
<1>3. CASE ReadField(r)
  <2>1. PICK n \in 0..9 : DOMAIN l.x = FirstFields(n) /\ (n = 9 <=> l.at \notin Early)
    BY <1>0 DEF Fetched
  <2>2. n \in 0..8 /\ n + 1 \in 0..9 /\ n + 1 = Cardinality(DOMAIN l.x) + 1
    <3>1. l.at = "context"
      BY <1>3 DEF ReadField
    <3>2. n \in 0..8
      BY <2>1, <3>1 DEF Early
    <3> QED BY <2>1, <3>2, NextField
  <2>3. PICK x, at : /\ x = Entered(l.x, Fields[n + 1], Table[Fields[n + 1]])
                     /\ at = IF Fields[n + 1] = Last(Fields) THEN "completed" ELSE "context"
    OBVIOUS
  <2> DEFINE to == [l EXCEPT !.x = x, !.at = at]
  <2>4. Moves(r, to) /\ UNCHANGED <<day, completed, items, journal>>
    BY <1>3, <2>2, <2>3 DEF ReadField, tables
  <2>5. /\ "x" \in DOMAIN to
        /\ "at" \in DOMAIN to
        /\ to.x = x
        /\ to.at = at
    BY <1>0 DEF Fetched
  <2>6. DOMAIN x = FirstFields(n + 1)
    <3>1. DOMAIN x = DOMAIN l.x \cup {Fields[n + 1]}
      BY <2>3 DEF Entered
    <3> QED BY <2>1, <2>2, <3>1, NextField
  <2>7. n + 1 = 9 <=> at \notin Early
    BY <2>1, <2>2, <2>3, NextField DEF Early
  <2>8. ASSUME "items" \in DOMAIN x PROVE Booked(x.items)
    <3>1. CASE Fields[n + 1] = "items"
      <4>1. x.items = items
        BY <2>3, <3>1 DEF Entered, Table
      <4> QED BY <4>1 DEF EarnedInv
    <3>2. CASE Fields[n + 1] # "items"
      <4>1. "items" \in DOMAIN l.x /\ x.items = l.x.items
        BY <2>3, <2>8, <3>2 DEF Entered
      <4> QED BY <1>0, <4>1 DEF Fetched
    <3> QED BY <3>1, <3>2
  <2>9. Backed(x, met, day)
    <3>1. "items" \in DOMAIN l.x => Booked(l.x.items)
      BY <1>0 DEF Fetched
    <3> QED BY <1>0, <2>1, <2>2, <2>3, <3>1, FieldBacked
  <2> HIDE DEF to
  <2>10. Fetched(to)
    BY <2>2, <2>5, <2>6, <2>7, <2>8 DEF Fetched
  <2> QED BY <2>4, <2>5, <2>9, <2>10, EarnedMoves
<1>4. CASE ReadCompleted(r)
  <2>1. PICK done : done = DOMAIN completed
    OBVIOUS
  <2>2. /\ l.at \notin Early
        /\ Moves(r, [l EXCEPT !.completed = done, !.at = "active"])
        /\ UNCHANGED <<day, completed, items, journal>>
    BY <1>4, <2>1 DEF ReadCompleted, tables, Early
  <2>3. /\ Fetched([l EXCEPT !.completed = done, !.at = "active"])
        /\ [l EXCEPT !.completed = done, !.at = "active"].x = l.x
    <3>1. \A c, at : at \notin Early => /\ Fetched([l EXCEPT !.completed = c, !.at = at])
                                         /\ [l EXCEPT !.completed = c, !.at = at].x = l.x
      BY <1>0, <2>2, FetchedOnward
    <3> QED BY <1>a, <3>1
  <2> QED BY <1>1, <2>2, <2>3
<1>5. CASE ReadActive(r)
  <2>1. PICK slots : slots = active
    OBVIOUS
  <2>2. /\ l.at \notin Early
        /\ Moves(r, [l EXCEPT !.active = slots, !.at = "judge"])
        /\ UNCHANGED <<day, completed, items, journal>>
    BY <1>5, <2>1 DEF ReadActive, tables, Early
  <2>3. /\ Fetched([l EXCEPT !.active = slots, !.at = "judge"])
        /\ [l EXCEPT !.active = slots, !.at = "judge"].x = l.x
    <3>1. \A a, at : at \notin Early => /\ Fetched([l EXCEPT !.active = a, !.at = at])
                                         /\ [l EXCEPT !.active = a, !.at = at].x = l.x
      BY <1>0, <2>2, FetchedOnward
    <3> QED BY <1>a, <3>1
  <2> QED BY <1>1, <2>2, <2>3
<1>6. CASE PassOver(r)
  <2>1. /\ l.at \notin Early
        /\ \E m : Moves(r, AfterRecord(l, m)) \/ Moves(r, Onward(l))
        /\ UNCHANGED <<day, completed, items, journal>>
    BY <1>6 DEF PassOver, tables, Early
  <2>2. PICK m : Moves(r, AfterRecord(l, m)) \/ Moves(r, Onward(l))
    BY <2>1
  <2>3. /\ Fetched(Onward(l)) /\ Onward(l).x \in {l.x, <<>>}
        /\ Fetched(AfterRecord(l, m)) /\ AfterRecord(l, m).x \in {l.x, <<>>}
    BY <1>0, <2>1, FetchedOnward
  <2> QED BY <1>1, <2>1, <2>2, <2>3
<1>7. CASE RecordMission(r)
  BY <1>7, EarnedRecord
<1>8. CASE Reread(r)
  <2>1. PICK done, m : done = DOMAIN completed /\ m = Current(r)
    OBVIOUS
  <2> DEFINE again == [l EXCEPT !.completed = done]
  <2>2. /\ l.at \notin Early
        /\ Moves(r, AfterRecord(again, m))
        /\ UNCHANGED <<day, completed, items, journal>>
    BY <1>8, <2>1 DEF Reread, tables, Early
  <2>3. Fetched(again) /\ again.x = l.x /\ again.at \notin Early /\ InCatalog(again)
    BY <1>0, <2>2, FetchedOnward, InCatalogUpdate
  <2> HIDE DEF again
  <2>4. Fetched(AfterRecord(again, m)) /\ AfterRecord(again, m).x \in {l.x, <<>>}
    BY <2>3, FetchedOnward
  <2> QED BY <1>1, <2>2, <2>4
<1>9. CASE ClearSlot(r)
  <2>1. /\ l.at \notin Early
        /\ Moves(r, [l EXCEPT !.at = "cleared"])
        /\ UNCHANGED <<day, completed, items, journal>>
    BY <1>9 DEF ClearSlot, Early
  <2>2. Fetched([l EXCEPT !.at = "cleared"]) /\ [l EXCEPT !.at = "cleared"].x = l.x
    BY <1>a, <1>0, <2>1, FetchedOnward
  <2> QED BY <1>1, <2>1, <2>2
<1>10. CASE RereadActive(r)
  <2>1. PICK slots : slots = active
    OBVIOUS
  <2> DEFINE again == [l EXCEPT !.active = slots]
  <2>2. /\ l.at \notin Early
        /\ Moves(r, Onward(again))
        /\ UNCHANGED <<day, completed, items, journal>>
    BY <1>10, <2>1 DEF RereadActive, tables, Early
  <2>3. Fetched(again) /\ again.x = l.x /\ again.at \notin Early /\ InCatalog(again)
    BY <1>0, <2>2, FetchedOnward, InCatalogUpdate
  <2> HIDE DEF again
  <2>4. Fetched(Onward(again)) /\ Onward(again).x \in {l.x, <<>>}
    BY <2>3, FetchedOnward
  <2> QED BY <1>1, <2>2, <2>4
<1> QED BY <1>2, <1>3, <1>4, <1>5, <1>6, <1>7, <1>8, <1>9, <1>10 DEF List

\* A sequence with an element put in: t is s, of n elements of S, with row at its place.
With(t, S, s, n, at, row) ==
    /\ t \in Seq(S) /\ Len(t) = n + 1
    /\ t[at] = row
    /\ \A i \in 1..(at - 1) : t[i] = s[i]
    /\ \A i \in at..n : t[i + 1] = s[i]

\* InsertAt is that (a new row of a listing goes to the place its time gives it).
LEMMA Inserted ==
    ASSUME NEW S, NEW s \in Seq(S), NEW row \in S, NEW n \in Nat, n = Len(s), NEW at \in 1..(n + 1)
    PROVE  With(InsertAt(s, at, row), S, s, n, at, row)
<1>1. PICK before : before = SubSeq(s, 1, at - 1)
  OBVIOUS
<1>2. PICK after : after = SubSeq(s, at, n)
  OBVIOUS
<1>3. at \in Int /\ at - 1 \in Int /\ n \in Int /\ 1 \in Int
  OBVIOUS
<1>4. before \in Seq(S) /\ Len(before) = at - 1 /\ \A i \in 1..(at - 1) : before[i] = s[i]
  <2>1. \A i \in 1..(at - 1) : s[i] \in S
    OBVIOUS
  <2>2. /\ before \in Seq(S)
        /\ Len(before) = IF 1 <= at - 1 THEN at - 1 - 1 + 1 ELSE 0
        /\ \A i \in 1..(at - 1 - 1 + 1) : before[i] = s[1 + i - 1]
    BY <1>1, <1>3, <2>1, SubSeqProperties
  <2>3. \A i \in 1..(at - 1) : before[i] = s[i]
    BY <1>3, <2>2
  <2> QED BY <1>3, <2>2, <2>3
<1>5. after \in Seq(S) /\ Len(after) = n + 1 - at /\ \A i \in 1..(n + 1 - at) : after[i] = s[at + i - 1]
  <2>1. \A i \in at..n : s[i] \in S
    OBVIOUS
  <2>2. /\ after \in Seq(S)
        /\ Len(after) = IF at <= n THEN n - at + 1 ELSE 0
        /\ \A i \in 1..(n - at + 1) : after[i] = s[at + i - 1]
    BY <1>2, <1>3, <2>1, SubSeqProperties
  <2> QED BY <1>3, <2>2
<1>6. PICK u : u = before \o <<row>>
  OBVIOUS
<1>7. u \in Seq(S) /\ Len(u) = at /\ u[at] = row /\ \A i \in 1..(at - 1) : u[i] = before[i]
  BY <1>3, <1>4, <1>6
<1>8. PICK t : t = u \o after
  OBVIOUS
<1>9. /\ t \in Seq(S) /\ Len(t) = n + 1
      /\ \A i \in 1..at : t[i] = u[i]
      /\ \A i \in 1..(n + 1 - at) : t[at + i] = after[i]
  BY <1>3, <1>5, <1>7, <1>8
<1>10. ASSUME NEW i \in at..n PROVE t[i + 1] = s[i]
  <2>1. PICK j \in 1..(n + 1 - at) : at + j = i + 1 /\ at + j - 1 = i
    <3>1. i - at + 1 \in 1..(n + 1 - at) /\ at + (i - at + 1) = i + 1 /\ at + (i - at + 1) - 1 = i
      BY <1>3
    <3> QED BY <3>1
  <2>2. t[at + j] = after[j] /\ after[j] = s[at + j - 1]
    BY <1>5, <1>9
  <2> QED BY <2>1, <2>2
<1>11. InsertAt(s, at, row) = t
  BY <1>1, <1>2, <1>6, <1>8 DEF InsertAt
<1>12. t[at] = row /\ \A i \in 1..(at - 1) : t[i] = s[i]
  BY <1>3, <1>4, <1>7, <1>9
<1> QED BY <1>9, <1>10, <1>11, <1>12 DEF With

\* A trade executes: the book goes on, and what is annotated still is.
LEMMA TradeBooked ==
    ASSUME Booked(items), Annotated(items, journal), Execute
    PROVE  Booked(items') /\ Annotated(items', journal')
<1>1. PICK at \in 1..(Len(items) + 1), submitted \in 1..day :
         items' = InsertAt(items, at, [TradeBook[Len(items) + 1] EXCEPT !.day = submitted])
  BY DEF Execute
<1>2. PICK row : row = [TradeBook[Len(items) + 1] EXCEPT !.day = submitted]
  OBVIOUS
<1>3. PICK s, t : s = items /\ t = items'
  OBVIOUS
<1>a. /\ Len(s) < Len(TradeBook) /\ at \in 1..(Len(s) + 1)
      /\ t = SubSeq(s, 1, at - 1) \o <<row>> \o SubSeq(s, at, Len(s))
      /\ journal' = journal
  BY <1>1, <1>2, <1>3 DEF Execute, InsertAt
<1>4. PICK S : S = {s[i] : i \in DOMAIN s} /\ s \in Seq(S)
  BY <1>3 DEF Booked
<1>5. Len(s) \in Nat /\ DOMAIN s = 1..Len(s) /\ Len(TradeBook) \in Nat /\ DOMAIN TradeBook = 1..Len(TradeBook)
  BY <1>4, AcademyAssumption
<1>6. row.id = TradeBook[Len(s) + 1].id
  <2>1. Len(s) + 1 \in DOMAIN TradeBook
    BY <1>5, <1>a
  <2>2. "id" \in DOMAIN TradeBook[Len(s) + 1]
    BY <2>1, AcademyAssumption
  <2> QED BY <1>2, <1>3, <2>2
<1>n. PICK n \in Nat : n = Len(s)
  BY <1>5
<1>t. at \in 1..(n + 1) /\ at \in Nat /\ n < Len(TradeBook) /\ n + 1 \in DOMAIN TradeBook
  <2>1. at \in 1..(n + 1) /\ n < Len(TradeBook)
    BY <1>n, <1>a
  <2>2. PICK m \in Nat : m = Len(TradeBook)
    BY <1>5
  <2>3. DOMAIN TradeBook = 1..m /\ n < m
    BY <2>1, <2>2, <1>5
  <2>4. n + 1 \in 1..m /\ at \in Nat
    BY <2>1, <2>3
  <2> QED BY <2>1, <2>3, <2>4
<1>7. /\ t \in Seq(S \cup {row})
      /\ Len(t) = n + 1
      /\ DOMAIN t = 1..(n + 1)
      /\ t[at] = row
      /\ \A i \in 1..(at - 1) : t[i] = s[i]
      /\ \A i \in at..n : t[i + 1] = s[i]
  <2>0. t = InsertAt(s, at, row)
    BY <1>1, <1>2, <1>3
  <2>a. PICK T : T = S \cup {row}
    OBVIOUS
  <2>b. S \subseteq T /\ row \in T
    BY <2>a
  <2>c. s \in Seq(T)
    BY <1>4, <2>b
  <2>e. row \in T /\ n \in Nat /\ n = Len(s)
    BY <2>b, <1>n
  <2>1. With(InsertAt(s, at, row), T, s, n, at, row)
    BY <2>c, <2>e, <1>t, Inserted
  <2>2. /\ t \in Seq(T) /\ Len(t) = n + 1 /\ t[at] = row
        /\ \A i \in 1..(at - 1) : t[i] = s[i]
        /\ \A i \in at..n : t[i + 1] = s[i]
    BY <2>0, <2>1 DEF With
  <2> QED BY <2>2, <2>a
<1>8. t \in Seq({t[i] : i \in DOMAIN t})
  <2>1. t = [i \in 1..(n + 1) |-> t[i]]
    BY <1>7
  <2> QED BY <2>1, <1>7, <1>n, <1>5
<1>b. ASSUME NEW i \in 1..(n + 1)
      PROVE  \/ i < at /\ i \in 1..n /\ t[i] = s[i]
             \/ i = at /\ t[i] = row
             \/ i > at /\ i - 1 \in 1..n /\ t[i] = s[i - 1]
  <2>0. i \in Nat /\ 1 <= i /\ i <= n + 1 /\ at \in Nat /\ 1 <= at /\ at <= n + 1
    BY <1>t
  <2>1. CASE i < at
    <3>1. i \in 1..(at - 1) /\ i \in 1..n
      BY <2>0, <2>1
    <3>2. t[i] = s[i]
      BY <3>1, <1>7
    <3> QED BY <2>1, <3>1, <3>2
  <2>2. CASE i > at
    <3>1. i - 1 \in at..n /\ (i - 1) + 1 = i /\ i - 1 \in 1..n
      BY <2>0, <2>2
    <3>2. t[(i - 1) + 1] = s[i - 1]
      BY <3>1, <1>7
    <3> QED BY <2>2, <3>1, <3>2
  <2>3. CASE i = at
    BY <2>3, <1>7
  <2>4. i < at \/ i = at \/ i > at
    BY <2>0
  <2> QED BY <2>1, <2>2, <2>3, <2>4
<1>c. \A i \in 1..n : s[i].id # row.id /\ \E j \in 1..n : s[i].id = TradeBook[j].id
  <2> SUFFICES ASSUME NEW i \in 1..n
               PROVE  s[i].id # row.id /\ \E j \in 1..n : s[i].id = TradeBook[j].id
    OBVIOUS
  <2>0. Booked(s) /\ i \in DOMAIN s
    BY <1>3, <1>5, <1>n
  <2>a. \E j \in 1..Len(s) : s[i].id = TradeBook[j].id
    BY <2>0 DEF Booked
  <2>1. PICK j \in 1..n : s[i].id = TradeBook[j].id
    BY <2>a, <1>n
  <2>2. PICK m \in Nat : m = Len(TradeBook) /\ DOMAIN TradeBook = 1..m
    BY <1>5
  <2>3. n < m
    BY <1>t, <2>2
  <2>4. j \in 1..m /\ n + 1 \in 1..m /\ j # n + 1
    BY <2>3
  <2>5. \A k, l \in DOMAIN TradeBook : TradeBook[k].id = TradeBook[l].id => k = l
    BY AcademyAssumption
  <2>6. TradeBook[j].id # TradeBook[n + 1].id
    BY <2>2, <2>4, <2>5
  <2>7. row.id = TradeBook[n + 1].id
    BY <1>6, <1>n
  <2> QED BY <2>1, <2>6, <2>7
<1>9. ASSUME NEW i \in 1..(n + 1) PROVE \E j \in 1..(n + 1) : t[i].id = TradeBook[j].id
  <2>1. 1..n \subseteq 1..(n + 1) /\ n + 1 \in 1..(n + 1)
    OBVIOUS
  <2>2. CASE i < at /\ i \in 1..n /\ t[i] = s[i]
    BY <1>c, <2>1, <2>2
  <2>3. CASE i = at /\ t[i] = row
    <3>1. row.id = TradeBook[n + 1].id
      BY <1>6, <1>n
    <3> QED BY <2>1, <2>3, <3>1
  <2>4. CASE i > at /\ i - 1 \in 1..n /\ t[i] = s[i - 1]
    BY <1>c, <2>1, <2>4
  <2> QED BY <1>b, <2>2, <2>3, <2>4
<1>d. ASSUME NEW i \in 1..(n + 1), NEW j \in 1..(n + 1), t[i].id = t[j].id PROVE i = j
  <2>0. Booked(s) /\ Len(s) = n
    BY <1>3, <1>n
  <2>1. \A k, l \in 1..n : s[k].id = s[l].id => k = l
    BY <2>0 DEF Booked
  <2>2. i \in Nat /\ j \in Nat /\ at \in Nat
    BY <1>t
  <2>a. CASE i = at
    <3>1. CASE j < at
      <4>1. j \in 1..n /\ t[j] = s[j] /\ t[i] = row
        BY <2>a, <3>1, <2>2, <1>b, <1>7
      <4> QED BY <4>1, <1>c, <1>d
    <3>2. CASE j > at
      <4>1. j - 1 \in 1..n /\ t[j] = s[j - 1] /\ t[i] = row
        BY <2>a, <3>2, <2>2, <1>b, <1>7
      <4> QED BY <4>1, <1>c, <1>d
    <3> QED BY <2>a, <2>2, <3>1, <3>2
  <2>b. CASE j = at
    <3>1. CASE i < at
      <4>1. i \in 1..n /\ t[i] = s[i] /\ t[j] = row
        BY <2>b, <3>1, <2>2, <1>b, <1>7
      <4> QED BY <4>1, <1>c, <1>d
    <3>2. CASE i > at
      <4>1. i - 1 \in 1..n /\ t[i] = s[i - 1] /\ t[j] = row
        BY <2>b, <3>2, <2>2, <1>b, <1>7
      <4> QED BY <4>1, <1>c, <1>d
    <3> QED BY <2>b, <2>2, <3>1, <3>2
  <2>4. CASE i < at /\ j < at
    BY <2>1, <2>2, <2>4, <1>b, <1>d
  <2>5. CASE i > at /\ j > at
    <3>1. i - 1 \in 1..n /\ j - 1 \in 1..n /\ s[i - 1].id = s[j - 1].id
      BY <2>2, <2>5, <1>b, <1>d
    <3>2. i - 1 = j - 1
      BY <2>1, <3>1
    <3> QED BY <2>2, <3>2
  <2>6. CASE i < at /\ j > at
    <3>1. i \in 1..n /\ j - 1 \in 1..n /\ s[i].id = s[j - 1].id
      BY <2>2, <2>6, <1>b, <1>d
    <3>2. i = j - 1
      BY <2>1, <3>1
    <3> QED BY <2>2, <2>6, <3>2
  <2>7. CASE i > at /\ j < at
    <3>1. i - 1 \in 1..n /\ j \in 1..n /\ s[i - 1].id = s[j].id
      BY <2>2, <2>7, <1>b, <1>d
    <3>2. i - 1 = j
      BY <2>1, <3>1
    <3> QED BY <2>2, <2>7, <3>2
  <2> QED BY <2>2, <2>a, <2>b, <2>4, <2>5, <2>6, <2>7
<1>10. Booked(t)
  <2>1. Len(t) <= Len(TradeBook)
    <3>1. PICK m \in Nat : m = Len(TradeBook)
      BY <1>5
    <3>2. n < m
      BY <1>t, <3>1
    <3>3. n + 1 <= m
      BY <3>2
    <3> QED BY <3>1, <3>3, <1>7
  <2> QED BY <1>7, <2>1, <1>8, <1>9, <1>d DEF Booked
<1>11. Annotated(t, journal)
  <2> SUFFICES ASSUME NEW id \in journal.notes \cup journal.tags
               PROVE  id \in {t[i].id : i \in DOMAIN t}
    BY DEF Annotated
  <2>1. PICK i \in DOMAIN s : id = s[i].id
    BY <1>3 DEF Annotated
  <2>a. i \in 1..n
    BY <1>n, <1>5
  <2>2. CASE i < at
    <3>1. i \in DOMAIN t /\ t[i] = s[i]
      <4>1. i \in 1..(at - 1) /\ i \in 1..(n + 1)
        BY <2>a, <2>2, <1>t
      <4> QED BY <4>1, <1>7
    <3> QED BY <2>1, <3>1
  <2>3. CASE i >= at
    <3>1. i + 1 \in DOMAIN t /\ t[i + 1] = s[i]
      <4>1. i \in at..n /\ i + 1 \in 1..(n + 1)
        BY <2>a, <2>3, <1>t
      <4> QED BY <4>1, <1>7
    <3> QED BY <2>1, <3>1
  <2> QED BY <2>2, <2>3, <2>a, <1>t
<1> QED BY <1>a, <1>3, <1>10, <1>11

\* Every other handler, and midnight, leaves the trades or empties the tables,
\* and annotates only trades that are there.
LEMMA TablesBooked ==
    ASSUME AcademyInv, EarnedInv, Study \/ Practise \/ FillSlots \/ ClearUserData \/ Midnight
    PROVE  /\ UNCHANGED listing /\ day' \in Nat /\ day <= day' /\ completed' \in {completed, <<>>}
           /\ Booked(items') /\ Annotated(items', journal')
<1>0. day \in Nat /\ Booked(items) /\ Annotated(items, journal)
  <2>1. Booked(items) /\ Annotated(items, journal)
    BY DEF EarnedInv
  <2>2. day \in 1..MaxDay
    BY DEF AcademyInv, RecordsTyped
  <2> QED BY <2>1, <2>2
<1>1. CASE Study
  <2>1. UNCHANGED <<listing, day, completed, items, journal>>
    BY <1>1 DEF Study, Answer, MarkComplete, GradeCard, Submit
  <2> QED BY <1>0, <2>1
<1>2. CASE Practise
  <2>1. UNCHANGED <<listing, day, completed>>
    BY <1>2 DEF Practise, Execute, Adopt, Annotate
  <2>2. CASE Execute
    BY <1>0, <2>1, <2>2, TradeBooked
  <2>3. CASE Adopt
    <3>1. UNCHANGED <<items, journal>>
      BY <2>3 DEF Adopt
    <3> QED BY <1>0, <2>1, <3>1
  <2>4. ASSUME NEW i \in DOMAIN items, NEW entry \in Annotations, Annotate(items[i].id, entry)
        PROVE  Annotated(items', journal') /\ UNCHANGED items
    <3>1. /\ UNCHANGED items
          /\ journal'.notes \subseteq journal.notes \cup {items[i].id}
          /\ journal'.tags \subseteq journal.tags \cup {items[i].id}
      BY <2>4 DEF Annotate
    <3>2. items[i].id \in {items[j].id : j \in DOMAIN items}
      OBVIOUS
    <3> QED BY <1>0, <3>1, <3>2 DEF Annotated
  <2> QED BY <1>0, <1>2, <2>1, <2>2, <2>3, <2>4 DEF Practise
<1>3. CASE FillSlots
  <2>1. UNCHANGED <<listing, day, completed, items, journal>>
    BY <1>3 DEF FillSlots, Accept, CountSlots, TakeSlot, Abandon, tables
  <2> QED BY <1>0, <2>1
<1>4. CASE ClearUserData
  <2>1. /\ UNCHANGED <<listing, day>>
        /\ completed' = <<>>
        /\ items' = <<>>
        /\ journal' = [notes |-> {}, tags |-> {}]
    BY <1>4 DEF ClearUserData
  <2>2. Booked(<<>>)
    BY AcademyAssumption DEF Booked
  <2>3. Annotated(<<>>, [notes |-> {}, tags |-> {}])
    BY DEF Annotated
  <2> QED BY <1>0, <2>1, <2>2, <2>3
<1>5. CASE Midnight
  <2>1. /\ UNCHANGED <<listing, completed, items, journal>>
        /\ day' = day + 1
    BY <1>5 DEF Midnight, tables
  <2> QED BY <1>0, <2>1
<1> QED BY <1>1, <1>2, <1>3, <1>4, <1>5

\* What holds in tables that stay as they are, on the same day, stays.
LEMMA HeldStays == ASSUME UNCHANGED academy PROVE Held' = Held
<1>1. UNCHANGED <<day, days, progress, results, reps, items, journal, adopted>>
  BY DEF academy, tables
<1>2. Table' = Table
  <2>1. \A k : Passed(k)' = Passed(k)
    BY <1>1 DEF Passed
  <2>2. Done' = Done
    BY <1>1 DEF Done
  <2>3. RepsDone' = RepsDone
    BY <1>1 DEF RepsDone, FoldSet, MapThenFoldSet
  <2> QED BY <1>1, <2>1, <2>2, <2>3 DEF Table
<1> QED BY <1>1, <1>2 DEF Held, Holds

\* Every step keeps what MissionsEarned rests on.
LEMMA EarnedStep == AcademyInv /\ EarnedInv /\ [AcademyNext]_academy => EarnedInv'
<1> SUFFICES ASSUME AcademyInv, EarnedInv, [AcademyNext]_academy PROVE EarnedInv'
  OBVIOUS
<1>1. CASE UNCHANGED academy
  <2>1. UNCHANGED <<day, items, journal, completed, listing, met>>
    BY <1>1 DEF academy, tables
  <2> QED BY <1>1, <2>1, HeldStays DEF EarnedInv
<1>2. CASE AcademyNext
  <2>1. Remember
    BY <1>2 DEF AcademyNext
  <2>2. CASE ListMissions
    BY <2>1, <2>2, EarnedListing DEF ListMissions
  <2>3. CASE Study \/ Practise \/ FillSlots \/ ClearUserData \/ Midnight
    BY <2>1, <2>3, TablesBooked, EarnedFrame
  <2> QED BY <1>2, <2>2, <2>3 DEF AcademyNext
<1> QED BY <1>1, <1>2

\* Nothing is recorded, read or executed to begin with.
LEMMA EarnedInit == AcademyInit => EarnedInv
<1> SUFFICES ASSUME AcademyInit PROVE EarnedInv
  OBVIOUS
<1>1. /\ met = Held
      /\ completed = <<>>
      /\ items = <<>>
      /\ journal = [notes |-> {}, tags |-> {}]
      /\ listing = [r \in Listers |-> Idle]
  BY DEF AcademyInit
<1>2. Booked(<<>>) /\ Annotated(<<>>, [notes |-> {}, tags |-> {}])
  BY AcademyAssumption DEF Booked, Annotated
<1>3. Backed(<<>>, met, day)
  BY <1>1, NothingBacked
<1>4. Fetched(Idle) /\ Idle.x = <<>>
  <2>1. /\ "x" \in DOMAIN Idle
        /\ "at" \in DOMAIN Idle
        /\ Idle.x = <<>>
        /\ Idle.at = "idle"
    BY DEF Idle
  <2>2. DOMAIN <<>> = {} /\ FirstFields(0) = {} /\ 0 \in 0..9 /\ 0 # 9
    BY DEF FirstFields
  <2> QED BY <2>1, <2>2 DEF Fetched, Early
<1>5. EarnedBy(DOMAIN completed, met)
  <2>1. DOMAIN completed = {}
    BY <1>1
  <2> QED BY <2>1 DEF EarnedBy
<1> QED BY <1>1, <1>2, <1>3, <1>4, <1>5 DEF EarnedInv

\* A mission recorded as completed was earned, each criterion and the drill of
\* its category, although a listing reads nine tables one after another and
\* judges what it read days later (services/missions.py, list_missions).
THEOREM MissionsAreEarned == AcademySpec => []MissionsEarned
<1>1. EarnedInv => MissionsEarned
  BY DEF EarnedInv, EarnedBy, MissionsEarned
<1> QED BY <1>1, AcademyInvInit, AcademyInvStep, EarnedInit, EarnedStep, PTL DEF AcademySpec

(***************************************************************************)
(* What the judgements promise, for every input: levels, certificates and  *)
(* cards, readiness, reviews and packs.  A run checks them on samples.     *)
(***************************************************************************)
\* Every set of natural numbers that is not empty has a least, and a bounded one a
\* greatest, and these are what Min and Max choose.
LEMMA MinOfSet ==
    ASSUME NEW S, S \subseteq Nat, S # {}
    PROVE  Min(S) \in S /\ \A y \in S : Min(S) <= y
<1> DEFINE below == {n \in Nat : \E x \in S : x <= n}
<1>1. PICK n \in below : n = 0 \/ n - 1 \notin below
  <2>1. PICK x \in S : TRUE
    OBVIOUS
  <2>2. x \in below
    BY <2>1
  <2>3. below \subseteq Nat
    OBVIOUS
  <2> HIDE DEF below
  <2> QED BY <2>2, <2>3, LeastDay
<1>2. PICK x \in S : x <= n
  BY <1>1
<1>3. ASSUME NEW y \in S PROVE x <= y
  <2>1. CASE n = 0
    BY <1>2, <2>1
  <2>2. CASE n # 0
    <3>1. n - 1 \in Nat /\ n - 1 \notin below
      BY <1>1, <2>2
    <3>2. ~(y <= n - 1)
      BY <3>1
    <3> QED BY <1>1, <1>2, <3>2
  <2> QED BY <2>1, <2>2
<1> QED BY <1>3 DEF Min

\* The mirror image of MinOfSet.
LEMMA MaxOfSet ==
    ASSUME NEW S, S \subseteq Nat, S # {}, NEW n \in Nat, \A y \in S : y <= n
    PROVE  Max(S) \in S /\ \A y \in S : y <= Max(S)
<1> DEFINE mirror == {m \in Nat : n - m \in S}
<1>1. mirror \subseteq Nat /\ mirror # {}
  <2>1. PICK y \in S : TRUE
    OBVIOUS
  <2>2. n - y \in Nat /\ n - (n - y) = y
    BY <2>1
  <2> QED BY <2>1, <2>2
<1>2. Min(mirror) \in mirror /\ \A y \in mirror : Min(mirror) <= y
  <2> HIDE DEF mirror
  <2> QED BY <1>1, MinOfSet
<1> DEFINE x == n - Min(mirror)
<1>3. x \in S /\ Min(mirror) = n - x
  BY <1>2
<1>4. ASSUME NEW y \in S PROVE y <= x
  <2>1. n - y \in Nat /\ n - (n - y) = y
    OBVIOUS
  <2>2. n - y \in mirror
    BY <2>1
  <2>3. n - x <= n - y
    BY <1>2, <1>3, <2>2
  <2> HIDE DEF x
  <2> QED BY <1>3, <2>1, <2>3
<1> QED BY <1>3, <1>4 DEF Max

\* xp_level names the level an amount of XP reaches and no higher one, and
\* next_level_xp the amount at which the next is reached, for every amount.
THEOREM LevelsAreReached == \A xp \in Nat : LevelSound(xp)
<1> SUFFICES ASSUME NEW xp \in Nat PROVE LevelSound(xp)
  OBVIOUS
<1> DEFINE S == {n \in 0..(Titles - 1) : 100 * n * n <= xp}
<1>1. S \subseteq Nat /\ 0 \in S /\ \A y \in S : y <= 7
  BY DEF Titles
<1>2. XpLevel(xp) = Max(S)
  BY DEF XpLevel
<1>3. XpLevel(xp) \in S /\ \A y \in S : y <= XpLevel(xp)
  <2> HIDE DEF S
  <2> QED BY <1>1, <1>2, MaxOfSet
<1> DEFINE l == XpLevel(xp)
<1>4. l \in 0..7 /\ 100 * l * l <= xp
  BY <1>3 DEF Titles
<1>5. ASSUME l < 7 PROVE xp < 100 * (l + 1) * (l + 1)
  <2>1. l + 1 \in 0..(Titles - 1) /\ ~(l + 1 <= l)
    BY <1>4, <1>5 DEF Titles
  <2>2. l + 1 \notin S
    <3> HIDE DEF S
    <3> QED BY <1>3, <2>1
  <2>3. ~(100 * (l + 1) * (l + 1) <= xp)
    BY <2>1, <2>2
  <2>4. 100 * (l + 1) * (l + 1) \in Int
    BY <1>4
  <2> HIDE DEF l
  <2> QED BY <2>3, <2>4
<1> QED BY <1>4, <1>5 DEF LevelSound, NextLevelXp, Titles

\* A certificate is issued exactly when the list of what is missing for it is
\* empty, for every count of lessons and every result of the exam.
THEOREM CertificatesHold ==
    \A level \in [total : Nat, done : Nat], exam \in [taken : BOOLEAN, score : Int, passed : BOOLEAN] :
        level.done <= level.total => CertificatesAgree(level, exam)
  BY DEF CertificatesAgree, CertificateEarned, Requirements

\* The cards of the deck: the intervals a review leaves are whole hundredths, the
\* ease never below its floor.
Cards == [interval : Nat, ease : {e \in Nat : e >= MinEase}, reps : Nat, lapses : Nat, due : Nat]
\* Rounding to hundredths moves a value by half of one at most.
LEMMA RoundedBy == \A n \in Nat : 100 * HalfEven(n, 100) - n \in -50..50
  BY DEF HalfEven
\* A reviewed card comes back when its grade says: a forgotten one at once, a known
\* one no later than an easy one, whatever the card's interval and ease, although
\* what is stored of the interval is rounded; a grade that has no date is refused
\* and leaves the card one that can be forgotten and graded again.
THEOREM CardsComeBack == \A card \in Cards, now \in 0..LastTime : CardSound(card, now)
<1> SUFFICES ASSUME NEW card \in Cards, NEW now \in 0..LastTime PROVE CardSound(card, now)
  OBVIOUS
<1>0. LastTime \in Nat /\ now \in Nat /\ now <= LastTime
  BY CalendarAssumption
<1> DEFINE p == card.interval * card.ease
<1>1. p \in Nat /\ card.interval \in Nat /\ card.ease \in Nat /\ card.ease >= MinEase /\ card.reps \in Nat
  BY DEF Cards
<1> DEFINE good == IF card.interval = 0 THEN 10000 ELSE Max({10000, p})
           easy == Max({20000, (3 * p) \div 2})
<1>2. /\ Max({10000, p}) = IF 10000 >= p THEN 10000 ELSE p
      /\ easy = IF 20000 >= (3 * p) \div 2 THEN 20000 ELSE (3 * p) \div 2
      /\ Max({MinEase, card.ease - 20}) = IF MinEase >= card.ease - 20 THEN MinEase ELSE card.ease - 20
  <2>1. (3 * p) \div 2 \in Int /\ card.ease - 20 \in Int /\ MinEase \in Int
    BY <1>1 DEF MinEase
  <2> HIDE DEF p
  <2> QED BY <1>1, <2>1, MaxOfTwo
<1>3. /\ Graded(card, "again", now) = [interval |-> HalfEven(0, 100), due |-> now + 0, reps |-> card.reps + 1,
              ease |-> Max({MinEase, card.ease - 20}), lapses |-> card.lapses + 1]
      /\ Graded(card, "good", now) =
             IF now + good > LastTime THEN card
             ELSE [interval |-> HalfEven(good, 100), due |-> now + good, reps |-> card.reps + 1,
                   ease |-> card.ease, lapses |-> card.lapses + 0]
      /\ Graded(card, "easy", now) =
             IF now + easy > LastTime THEN card
             ELSE [interval |-> HalfEven(easy, 100), due |-> now + easy, reps |-> card.reps + 1,
                   ease |-> card.ease + 10, lapses |-> card.lapses + 0]
  <2>0. ~(now + 0 > LastTime)
    BY <1>0
  <2>1. CASE card.interval = 0
    BY <2>0, <2>1 DEF Graded
  <2>2. CASE card.interval # 0
    BY <2>0, <2>2 DEF Graded
  <2> QED BY <2>1, <2>2
<1>4. good \in Nat /\ easy \in Nat /\ good >= 10000 /\ good <= easy
  <2> HIDE DEF p
  <2> QED BY <1>1, <1>2
<1>5. 100 * HalfEven(0, 100) - 0 \in -50..50 /\ 100 * HalfEven(good, 100) - good \in -50..50
          /\ 100 * HalfEven(easy, 100) - easy \in -50..50
  <2> HIDE DEF good, easy
  <2>1. 100 * HalfEven(0, 100) - 0 \in -50..50
    BY RoundedBy
  <2>2. 100 * HalfEven(good, 100) - good \in -50..50
    BY <1>4, RoundedBy
  <2>3. 100 * HalfEven(easy, 100) - easy \in -50..50
    BY <1>4, RoundedBy
  <2> QED BY <2>1, <2>2, <2>3
<1> HIDE DEF good, easy, p
<1>6. now + 0 = now /\ now < now + good /\ now + good <= now + easy
      /\ (now + 0) - now = 0 /\ (now + good) - now = good /\ (now + easy) - now = easy
  BY <1>0, <1>4
<1>7. Max({MinEase, card.ease - 20}) >= MinEase /\ card.ease + 10 >= MinEase
  BY <1>1, <1>2 DEF MinEase
<1> DEFINE g(v) == Graded(card, v, now)
<1>8. /\ g("again").due = now /\ g("again").ease >= MinEase /\ g("again").reps = card.reps + 1
      /\ g("again").interval = HalfEven(0, 100)
  BY <1>3, <1>6, <1>7
<1>9. \/ g("good") = card /\ now + good > LastTime
      \/ /\ ~(now + good > LastTime) /\ g("good").due = now + good /\ g("good").ease >= MinEase
         /\ g("good").reps = card.reps + 1 /\ g("good").interval = HalfEven(good, 100)
  BY <1>1, <1>3
<1>10. \/ g("easy") = card /\ now + easy > LastTime
       \/ /\ ~(now + easy > LastTime) /\ g("easy").due = now + easy /\ g("easy").ease >= MinEase
          /\ g("easy").reps = card.reps + 1 /\ g("easy").interval = HalfEven(easy, 100)
  BY <1>3, <1>7
<1>11. ASSUME now + 10000 <= LastTime PROVE Graded(g("again"), "good", now).due = now + 10000
  <2>1. PICK forgotten : forgotten = g("again")
    OBVIOUS
  <2>2. forgotten.interval = 0
    BY <1>8, <2>1 DEF HalfEven
  <2>3. ~(now + 10000 > LastTime)
    BY <1>0, <1>11
  <2>4. Graded(forgotten, "good", now).due = now + 10000
    BY <2>2, <2>3 DEF Graded
  <2> QED BY <2>1, <2>4
<1> DEFINE stored(v) == g(v) # card
<1> HIDE DEF g
<1>12. stored("again") /\ g("again").due = now
  <2>1. card.reps + 1 # card.reps
    BY <1>1
  <2> QED BY <1>8, <2>1
<1>13. stored("good") => now < g("good").due
  BY <1>6, <1>9
<1>14. stored("easy") => stored("good") /\ g("good").due <= g("easy").due
  <2> SUFFICES ASSUME stored("easy") PROVE stored("good") /\ g("good").due <= g("easy").due
    OBVIOUS
  <2>1. ~(now + easy > LastTime) /\ g("easy").due = now + easy
    BY <1>10
  <2>2. ~(now + good > LastTime)
    BY <2>1, <1>0, <1>4, <1>6
  <2>3. g("good").due = now + good /\ g("good").reps = card.reps + 1 /\ card.reps + 1 # card.reps
    BY <2>2, <1>1, <1>9
  <2>4. stored("good")
    BY <2>3
  <2> QED BY <2>1, <2>3, <2>4, <1>6
<1>15. ASSUME NEW v \in {"again", "good", "easy"}, stored(v)
       PROVE  /\ g(v).ease >= MinEase /\ g(v).reps = card.reps + 1
              /\ 100 * g(v).interval - (g(v).due - now) \in -50..50
  <2>1. CASE v = "again"
    BY <2>1, <1>5, <1>6, <1>8
  <2>2. CASE v = "good"
    BY <2>2, <1>15, <1>5, <1>6, <1>9
  <2>3. CASE v = "easy"
    BY <2>3, <1>15, <1>5, <1>6, <1>10
  <2> QED BY <2>1, <2>2, <2>3
<1>16. CardSound(card, now) <=>
         /\ stored("again") /\ g("again").due = now
         /\ stored("good") => now < g("good").due
         /\ stored("easy") => stored("good") /\ g("good").due <= g("easy").due
         /\ \A v \in {"again", "good", "easy"} : stored(v) =>
               /\ g(v).ease >= MinEase /\ g(v).reps = card.reps + 1
               /\ 100 * g(v).interval - (g(v).due - now) \in -50..50
         /\ now + 10000 <= LastTime => Graded(g("again"), "good", now).due = now + 10000
  BY DEF CardSound, g, stored
<1> HIDE DEF g, stored
<1> QED BY <1>8, <1>11, <1>12, <1>13, <1>14, <1>15, <1>16

\* The evidence readiness reads: finite tables of whatever names, in which what is
\* completed was attempted.
Evidence(Names) ==
    {e \in [lessons : SUBSET [id : Names, level : Names], completed : SUBSET Names, attempted : SUBSET Names,
            trades : Nat, passed : SUBSET Names, missions : SUBSET Names, moments : SUBSET Names] :
        IsFiniteSet(e.lessons) /\ IsFiniteSet(e.attempted) /\ e.completed \subseteq e.attempted}

\* A share of what is there is between 0 and 100 percent.
LEMMA PercentBounds == \A n, d \in Nat : n <= d => Percent(n, d) \in 0..100
<1> SUFFICES ASSUME NEW n \in Nat, NEW d \in Nat, n <= d, d # 0 PROVE HalfEven(100 * n, d) \in 0..100
  BY DEF Percent
<1> DEFINE q == (100 * n) \div d
           r == (100 * n) % d
<1>1. q \in Nat /\ r \in 0..(d - 1) /\ 100 * n = d * q + r
  OBVIOUS
<1>2. 100 * n <= 100 * d
  OBVIOUS
<1>3. d * q <= d * 100
  BY <1>1, <1>2
<1>4. q <= 100
  BY <1>1, <1>3
<1>5. CASE q = 100
  BY <1>1, <1>2, <1>5 DEF HalfEven
<1>6. CASE q < 100
  BY <1>1, <1>6 DEF HalfEven
<1> QED BY <1>1, <1>4, <1>5, <1>6

\* The five readiness scores are percentages: lessons with one id are counted once
\* among the completed and never make more than there are.
LEMMA ScoresInRange ==
    ASSUME NEW Names, NEW e \in Evidence(Names)
    PROVE  \A d \in DOMAIN Scores(e) : Scores(e)[d] \in 0..100
<1> DEFINE ids == {l.id : l \in e.lessons}
<1>1. IsFiniteSet(e.lessons) /\ IsFiniteSet(e.attempted) /\ e.completed \subseteq e.attempted /\ e.trades \in Nat
  BY DEF Evidence
<1>2. IsFiniteSet(ids) /\ Cardinality(ids) <= Cardinality(e.lessons)
  <2> DEFINE f == [l \in e.lessons |-> l.id]
  <2>1. f \in Surjection(e.lessons, ids)
    BY DEF Surjection
  <2> QED BY <1>1, <2>1, FS_Surjection
<1>3. /\ Cardinality(e.completed \cap ids) \in Nat /\ Cardinality(e.lessons) \in Nat
      /\ Cardinality(e.completed \cap ids) <= Cardinality(e.lessons)
  <2>1. e.completed \cap ids \subseteq ids
    OBVIOUS
  <2> HIDE DEF ids
  <2> QED BY <1>1, <1>2, <2>1, FS_Subset, FS_CardinalityType
<1>4. /\ Cardinality(e.completed) \in Nat /\ Cardinality(e.attempted) \in Nat
      /\ Cardinality(e.completed) <= Cardinality(e.attempted)
  BY <1>1, FS_Subset, FS_CardinalityType
<1>5. Min({100, HalfEven(100 * e.trades, 50)}) \in 0..100
  <2> DEFINE x == HalfEven(100 * e.trades, 50)
  <2>1. x \in Nat
    BY <1>1 DEF HalfEven
  <2> HIDE DEF x
  <2>2. Min({100, x}) = IF 100 <= x THEN 100 ELSE x
    BY <2>1, MinOfTwo
  <2>3. Min({100, x}) \in 0..100
    BY <2>1, <2>2
  <2> QED BY <2>3 DEF x
<1>6. Scores(e).knowledge \in 0..100 /\ Scores(e).consistency \in 0..100
  <2> HIDE DEF ids
  <2> QED BY <1>3, <1>4, PercentBounds DEF Scores, ids
<1>7. Scores(e).execution \in 0..100 /\ Scores(e).risk \in 0..100 /\ Scores(e).psychology \in 0..100
  <2>1. Scores(e).execution \in 0..100
    BY <1>5 DEF Scores
  <2>2. Scores(e).risk \in {100, 65, 30} /\ Scores(e).psychology \in {100, 60}
    BY DEF Scores
  <2> QED BY <2>1, <2>2
<1>8. DOMAIN Scores(e) = {"knowledge", "execution", "risk", "psychology", "consistency"}
  BY DEF Scores
<1> QED BY <1>6, <1>7, <1>8

\* Stages are unlocked in order, tilt keeps the advanced one locked, and evidence
\* that only grows locks nothing again, for every two tables of evidence.
THEOREM LadderClimbed ==
    ASSUME NEW Names, NEW e \in Evidence(Names), NEW more \in Evidence(Names)
    PROVE  LadderIsClimbed(e, more)
<1>1. \A i \in 1..3 : Ladder[i + 1] \in Unlocked(e) => Ladder[i] \in Unlocked(e)
  <2>1. SUFFICES ASSUME NEW i \in 1..3, Ladder[i + 1] \in Unlocked(e) PROVE Ladder[i] \in Unlocked(e)
    OBVIOUS
  <2>2. i = 1 \/ i = 2 \/ i = 3
    OBVIOUS
  <2> QED BY <2>1, <2>2 DEF Unlocked, Ladder
<1>2. ASSUME "advanced" \in Unlocked(e)
      PROVE  e.moments \cap {"oversized_position", "unprotected_drawdown"} = {}
  <2>1. Scores(e).risk >= 70
    BY <1>2 DEF Unlocked
  <2> QED BY <2>1 DEF Scores
<1>3. ASSUME e.lessons = more.lessons, e.completed \subseteq more.completed, e.trades <= more.trades,
             e.passed \subseteq more.passed, e.missions \subseteq more.missions, more.moments \subseteq e.moments
      PROVE  Unlocked(e) \subseteq Unlocked(more)
  <2>1. \A level : Studied(e, level) => Studied(more, level)
    BY <1>3 DEF Studied
  <2>2. Scores(e).risk <= Scores(more).risk /\ Scores(e).psychology <= Scores(more).psychology
        /\ Scores(e).risk \in Int /\ Scores(e).psychology \in Int
        /\ Scores(more).risk \in Int /\ Scores(more).psychology \in Int
    <3> DEFINE large == "oversized_position"
               bare == "unprotected_drawdown"
               rapid == "rapid_fire_entries"
               risk(m) == 100 - (IF large \in m THEN 35 ELSE 0) - (IF bare \in m THEN 35 ELSE 0)
               calm(m) == 100 - (IF rapid \in m THEN 40 ELSE 0)
    <3>1. ASSUME NEW d PROVE Scores(d).risk = risk(d.moments) /\ Scores(d).psychology = calm(d.moments)
      BY DEF Scores
    <3>2. \A m : risk(m) \in Int /\ calm(m) \in Int
      OBVIOUS
    <3>3. ASSUME NEW m, NEW n, m \subseteq n PROVE risk(n) <= risk(m) /\ calm(n) <= calm(m)
      BY <3>3
    <3> HIDE DEF risk, calm
    <3>4. risk(e.moments) <= risk(more.moments) /\ calm(e.moments) <= calm(more.moments)
      BY <1>3, <3>3
    <3> QED BY <3>1, <3>2, <3>4
  <2>3. e.trades \in Nat /\ more.trades \in Nat
    BY DEF Evidence
  <2>4. /\ e.trades >= 20 => more.trades >= 20
        /\ e.trades >= 50 => more.trades >= 50
        /\ Scores(e).risk >= 70 => Scores(more).risk >= 70
        /\ Scores(e).psychology >= 70 => Scores(more).psychology >= 70
    BY <1>3, <2>2, <2>3
  <2> QED BY <1>3, <2>1, <2>4 DEF Unlocked
<1>4. \A d \in DOMAIN Scores(e) : Scores(e)[d] \in 0..100
  BY ScoresInRange
<1> QED BY <1>1, <1>2, <1>3, <1>4 DEF LadderIsClimbed

\* A ticket under review has a positive price, and a stop and a target or none (0).
Reviewable == {t \in [side : {"long", "short"}, entry : Nat, stop : Nat, target : Nat,
                      risk : Nat \cup {NoRisk}, reason : BOOLEAN, emotion : STRING] : t.entry > 0}
\* A bar after the ticket, as far as a review reads it.
Prices == [low : Nat, high : Nat, close : Nat]

\* The score adds what the notes say.
LEMMA ScoreOf ==
    ASSUME NEW t \in Reviewable
    PROVE  /\ Score(t) \in 0..100
           /\ Score(t) = 100 <=> Notes(t) = {} /\ t.emotion # ""
           /\ Score(t) >= GoodProcess => t.stop # 0
<1> USE DEF Reviewable, NoRisk
<1> DEFINE a == IF t.stop # 0 THEN 30 + (IF StopIsSane(t) THEN 15 ELSE 0) ELSE 0
           b == IF t.reason THEN 20 ELSE 0
           c == IF t.risk = NoRisk \/ t.risk > 200 THEN 0 ELSE IF t.risk > 100 THEN 15 ELSE 25
           d == IF t.emotion \notin Tilt \cup {""} THEN 10 ELSE 0
<1>1. Score(t) = a + b + c + d
  BY DEF Score
<1>2. a \in {0, 30, 45} /\ b \in {0, 20} /\ c \in {0, 15, 25} /\ d \in {0, 10}
  OBVIOUS
<1>3. a # 0 => t.stop # 0
  OBVIOUS
<1>4. /\ "no_stop" \in Notes(t) <=> t.stop = 0
      /\ "wrong_side" \in Notes(t) <=> t.stop # 0 /\ ~StopIsSane(t)
      /\ "no_reason" \in Notes(t) <=> ~t.reason
      /\ "exceeds" \in Notes(t) <=> t.risk > 100 /\ t.risk <= 200
      /\ "double" \in Notes(t) <=> t.risk > 200
      /\ "no_risk" \in Notes(t) <=> t.risk = NoRisk
      /\ "tilt" \in Notes(t) <=> t.emotion \in Tilt
  BY DEF Notes
<1>5. /\ a = 45 <=> "no_stop" \notin Notes(t) /\ "wrong_side" \notin Notes(t)
      /\ b = 20 <=> "no_reason" \notin Notes(t)
      /\ c = 25 <=> "exceeds" \notin Notes(t) /\ "double" \notin Notes(t) /\ "no_risk" \notin Notes(t)
      /\ d = 10 <=> "tilt" \notin Notes(t) /\ t.emotion # ""
  <2>1. a = 45 <=> "no_stop" \notin Notes(t) /\ "wrong_side" \notin Notes(t)
    BY <1>4
  <2>2. b = 20 <=> "no_reason" \notin Notes(t)
    BY <1>4
  <2>3. c = 25 <=> "exceeds" \notin Notes(t) /\ "double" \notin Notes(t) /\ "no_risk" \notin Notes(t)
    BY <1>4
  <2>4. d = 10 <=> "tilt" \notin Notes(t) /\ t.emotion # ""
    <3>1. t.emotion \notin Tilt \cup {""} <=> "tilt" \notin Notes(t) /\ t.emotion # ""
      BY <1>4, Zenon
    <3>2. 10 # 0
      OBVIOUS
    <3> QED BY <3>1, <3>2, Zenon
  <2> HIDE DEF a, b, c, d
  <2> QED BY <2>1, <2>2, <2>3, <2>4
<1> HIDE DEF a, b, c, d
<1>6. Score(t) \in 0..100 /\ (Score(t) = 100 <=> a = 45 /\ b = 20 /\ c = 25 /\ d = 10)
  BY <1>1, <1>2
<1>7. Score(t) >= 70 => a # 0
  BY <1>1, <1>2
<1>8. Notes(t) = {} <=> \A n \in {"no_stop", "wrong_side", "no_reason", "exceeds", "double", "no_risk", "tilt"} :
                           n \notin Notes(t)
  BY DEF Notes
<1>9. Score(t) = 100 <=> Notes(t) = {} /\ t.emotion # ""
  <2>1. Notes(t) = {} => /\ "no_stop" \notin Notes(t) /\ "wrong_side" \notin Notes(t) /\ "no_reason" \notin Notes(t)
                         /\ "exceeds" \notin Notes(t) /\ "double" \notin Notes(t) /\ "no_risk" \notin Notes(t)
                         /\ "tilt" \notin Notes(t)
    BY <1>8
  <2>2. Notes(t) = {} /\ t.emotion # "" => Score(t) = 100
    BY <1>5, <1>6, <2>1
  <2>3. ASSUME Score(t) = 100 PROVE Notes(t) = {} /\ t.emotion # ""
    <3>1. a = 45 /\ b = 20 /\ c = 25 /\ d = 10
      BY <1>6, <2>3
    <3> QED BY <1>5, <1>8, <3>1, Zenon
  <2> QED BY <2>2, <2>3
<1> QED BY <1>3, <1>6, <1>7, <1>9 DEF GoodProcess

\* The bars held that touch a level.
Touches(t, bars) == {i \in DOMAIN bars \cap 1..ResolveBars : StopTraded(t, bars[i]) \/ TargetTraded(t, bars[i])}
\* What resolve_outcome keeps of the series reads as the series does: the
\* same bars touch.
LEMMA HeldBars ==
    ASSUME NEW t \in Reviewable, NEW bars \in Seq(Prices)
    PROVE  LET held == SubSeq(bars, 1, Min({ResolveBars, Len(bars)}))
           IN  /\ held = <<>> => bars = <<>>
               /\ {i \in DOMAIN held : StopTraded(t, held[i]) \/ TargetTraded(t, held[i])} = Touches(t, bars)
               /\ \A i \in Touches(t, bars) : held[i] = bars[i]
<1> DEFINE n == Min({ResolveBars, Len(bars)})
           held == SubSeq(bars, 1, n)
<1>1. n = IF 60 <= Len(bars) THEN 60 ELSE Len(bars)
  BY MinOfTwo DEF ResolveBars
<1>2. Len(bars) \in Nat /\ DOMAIN bars = 1..Len(bars) /\ n \in 0..Len(bars)
  BY <1>1
<1> HIDE DEF n
<1>3. DOMAIN held = 1..n /\ \A i \in 1..n : held[i] = bars[i]
  BY <1>2
<1>4. \A i \in Nat : i \in DOMAIN bars \cap 1..ResolveBars <=> i \in 1..n
  <2>1. CASE 60 <= Len(bars)
    BY <1>1, <1>2, <2>1 DEF ResolveBars
  <2>2. CASE ~(60 <= Len(bars))
    BY <1>1, <1>2, <2>2 DEF ResolveBars
  <2> QED BY <2>1, <2>2
<1> HIDE DEF held
<1>5. held = <<>> => bars = <<>>
  <2>1. SUFFICES ASSUME held = <<>> PROVE bars = <<>>
    OBVIOUS
  <2>2. 1 \notin 1..n
    <3>1. DOMAIN held = {}
      BY <2>1
    <3> QED BY <1>3, <3>1
  <2>3. n = 0
    BY <1>2, <2>2
  <2>4. Len(bars) = 0
    <3>1. Len(bars) \in Nat
      BY <1>2
    <3>2. n = IF 60 <= Len(bars) THEN 60 ELSE Len(bars)
      BY <1>1
    <3>3. CASE 60 <= Len(bars)
      BY <3>2, <3>3, <2>3
    <3>4. CASE ~(60 <= Len(bars))
      BY <3>2, <3>4, <2>3
    <3> QED BY <3>3, <3>4
  <2> QED BY <2>4
<1>6. {i \in DOMAIN held : StopTraded(t, held[i]) \/ TargetTraded(t, held[i])} = Touches(t, bars)
  <2>1. ASSUME NEW i, i \in DOMAIN held, StopTraded(t, held[i]) \/ TargetTraded(t, held[i])
        PROVE  i \in Touches(t, bars)
    BY <1>3, <1>4, <2>1 DEF Touches
  <2>2. ASSUME NEW i, i \in Touches(t, bars)
        PROVE  i \in DOMAIN held /\ (StopTraded(t, held[i]) \/ TargetTraded(t, held[i]))
    <3>1. i \in Nat
      BY <1>2, <2>2 DEF Touches
    <3> QED BY <1>3, <1>4, <2>2, <3>1 DEF Touches
  <2> QED BY <2>1, <2>2
<1>7. \A i \in Touches(t, bars) : held[i] = bars[i]
  BY <1>3, <1>4 DEF Touches
<1> QED BY <1>5, <1>6, <1>7 DEF held, n

\* The outcome in one look: a plan is resolved iff some bar held touches a level, the
\* first such bar decides, and its stop before its target.
LEMMA OutcomeOf ==
    ASSUME NEW t \in Reviewable, NEW bars \in Seq(Prices)
    PROVE  LET planned == t.stop # 0 /\ t.stop # t.entry
               first == Min(Touches(t, bars))
               o == Outcome(t, bars)
           IN  /\ o.status \in {"stopped", "target"} <=> planned /\ Touches(t, bars) # {}
               /\ planned /\ Touches(t, bars) # {} =>
                     o = IF StopTraded(t, bars[first])
                         THEN [status |-> "stopped", gain |-> -Distance(t.entry, t.stop)]
                         ELSE [status |-> "target", gain |-> Won(t, t.target)]
<1> DEFINE held == SubSeq(bars, 1, Min({ResolveBars, Len(bars)}))
           touched == {i \in DOMAIN held : StopTraded(t, held[i]) \/ TargetTraded(t, held[i])}
           first == Min(Touches(t, bars))
<1>1. touched = Touches(t, bars) /\ (held = <<>> => bars = <<>>) /\ \A i \in Touches(t, bars) : held[i] = bars[i]
  BY HeldBars
<1>2. Touches(t, bars) \subseteq Nat /\ (bars = <<>> => Touches(t, bars) = {})
  BY DEF Touches
<1>3. Touches(t, bars) # {} => first \in Touches(t, bars)
  BY <1>2, MinOfSet
<1>4. Outcome(t, bars) =
        IF t.stop = 0 \/ t.entry <= 0 \/ t.stop = t.entry THEN [status |-> "unscored", gain |-> 0]
        ELSE IF held = <<>> THEN [status |-> "open", gain |-> 0]
        ELSE IF touched = {} THEN [status |-> "open", gain |-> Won(t, Last(held).close)]
        ELSE IF StopTraded(t, held[Min(touched)])
             THEN [status |-> "stopped", gain |-> -Distance(t.entry, t.stop)]
             ELSE [status |-> "target", gain |-> Won(t, t.target)]
  BY DEF Outcome
<1>5. t.entry \in Nat /\ t.entry > 0 /\ ~(t.entry <= 0)
  BY DEF Reviewable
<1> HIDE DEF held, touched, first
<1>6. CASE t.stop = 0 \/ t.stop = t.entry
  BY <1>4, <1>6
<1>7. CASE t.stop # 0 /\ t.stop # t.entry /\ Touches(t, bars) = {}
  BY <1>1, <1>4, <1>7
<1>8. CASE t.stop # 0 /\ t.stop # t.entry /\ Touches(t, bars) # {}
  <2>1. held # <<>> /\ held[Min(touched)] = bars[first] /\ touched # {}
    BY <1>1, <1>2, <1>3, <1>8 DEF first
  <2>2. Outcome(t, bars) = IF StopTraded(t, bars[first])
                           THEN [status |-> "stopped", gain |-> -Distance(t.entry, t.stop)]
                           ELSE [status |-> "target", gain |-> Won(t, t.target)]
    BY <1>4, <1>5, <1>8, <2>1
  <2>3. Outcome(t, bars).status \in {"stopped", "target"}
    BY <2>2
  <2> QED BY <1>8, <2>2, <2>3 DEF first
<1> QED BY <1>6, <1>7, <1>8 DEF first

\* A review agrees with itself, for every ticket and every series of bars: full marks
\* are a complete plan with nothing to note, an outcome is the first touch of the
\* sixty bars looked at and costs the risk when it is the stop's, no later bar changes
\* it, and a success counts as dangerous only for a poor process that had a target.
THEOREM ReviewsAreSound == \A t \in Reviewable, bars \in Seq(Prices) : ReviewSound(t, bars)
<1> SUFFICES ASSUME NEW t \in Reviewable, NEW bars \in Seq(Prices) PROVE ReviewSound(t, bars)
  OBVIOUS
<1> DEFINE held == DOMAIN bars \cap 1..ResolveBars
           stops == {i \in held : StopTraded(t, bars[i])}
           targets == {i \in held : TargetTraded(t, bars[i])}
           all == Touches(t, bars)
           planned == t.stop # 0 /\ t.stop # t.entry
           o == Outcome(t, bars)
<1>1. all = stops \cup targets /\ all \subseteq Nat
  BY DEF Touches
<1>2. o.status \in {"stopped", "target"} <=> planned /\ all # {}
  BY OutcomeOf
<1>3. planned /\ all # {} =>
         o = IF StopTraded(t, bars[Min(all)])
             THEN [status |-> "stopped", gain |-> -Distance(t.entry, t.stop)]
             ELSE [status |-> "target", gain |-> Won(t, t.target)]
  BY OutcomeOf
<1>4. all # {} => Min(all) \in all /\ \A y \in all : Min(all) <= y
  <2> HIDE DEF all
  <2> QED BY <1>1, MinOfSet
<1>5. all # {} => (StopTraded(t, bars[Min(all)]) <=> Min(all) \in stops)
  <2>1. all # {} => Min(all) \in held
    BY <1>1, <1>4
  <2> HIDE DEF all
  <2> QED BY <2>1
<1>6. stops # {} => Min(stops) \in stops /\ \A y \in stops : Min(stops) <= y
  <2>1. stops \subseteq Nat
    BY <1>1
  <2> HIDE DEF stops
  <2> QED BY <2>1, MinOfSet
<1>7. targets # {} => Min(targets) \in targets /\ \A y \in targets : Min(targets) <= y
  <2>1. targets \subseteq Nat
    BY <1>1
  <2> HIDE DEF targets
  <2> QED BY <2>1, MinOfSet
<1>8. \A n \in 0..Len(bars) :
         LET early == Outcome(t, SubSeq(bars, 1, n)) IN early.status \in {"stopped", "target"} => o = early
  <2> SUFFICES ASSUME NEW n \in 0..Len(bars), Outcome(t, SubSeq(bars, 1, n)).status \in {"stopped", "target"}
               PROVE  o = Outcome(t, SubSeq(bars, 1, n))
    OBVIOUS
  <2> DEFINE start == SubSeq(bars, 1, n)
             soon == Touches(t, start)
  <2>1. start \in Seq(Prices) /\ DOMAIN start = 1..n /\ DOMAIN bars = 1..Len(bars) /\ Len(bars) \in Nat
        /\ \A i \in 1..n : start[i] = bars[i]
    OBVIOUS
  <2> HIDE DEF start
  <2>11. Outcome(t, start).status \in {"stopped", "target"}
    BY DEF start
  <2>2. soon = {i \in all : i <= n}
    BY <2>1 DEF Touches
  <2>3. planned /\ soon # {} /\ soon \subseteq Nat
    <3>1. planned /\ soon # {}
      BY <2>1, <2>11, OutcomeOf
    <3>2. soon \subseteq Nat
      BY <2>1 DEF Touches
    <3> QED BY <3>1, <3>2
  <2>4. Outcome(t, start) = IF StopTraded(t, start[Min(soon)])
             THEN [status |-> "stopped", gain |-> -Distance(t.entry, t.stop)]
             ELSE [status |-> "target", gain |-> Won(t, t.target)]
    BY <2>1, <2>3, OutcomeOf
  <2> HIDE DEF all, soon
  <2>5. Min(soon) \in soon /\ \A y \in soon : Min(soon) <= y
    BY <2>3, MinOfSet
  <2>6. all # {} /\ Min(all) \in all /\ \A y \in all : Min(all) <= y
    BY <1>4, <2>2, <2>3
  <2>7. Min(all) \in Nat /\ Min(soon) \in Nat /\ Min(soon) \in all /\ Min(soon) <= n /\ Min(all) <= Min(soon)
    BY <1>1, <2>2, <2>3, <2>5, <2>6
  <2>8. Min(all) \in soon
    BY <2>2, <2>6, <2>7
  <2>9. Min(all) = Min(soon)
    BY <2>5, <2>7, <2>8
  <2>10. start[Min(soon)] = bars[Min(all)]
    <3>1. Min(all) \in 1..n
      <4>1. \A x \in soon : x \in 1..n
        BY <2>1 DEF soon, Touches
      <4> QED BY <2>8, <4>1
    <3> QED BY <2>1, <2>9, <3>1
  <2> HIDE DEF planned, o
  <2>12. o = Outcome(t, start)
    BY <1>3, <2>3, <2>4, <2>6, <2>10
  <2> QED BY <2>12 DEF start, o
<1> HIDE DEF all, stops, targets, o, planned, held
<1>9. o.status = "stopped" <=> planned /\ all # {} /\ Min(all) \in stops
  BY <1>2, <1>3, <1>5
<1>10. o.status = "target" <=> planned /\ all # {} /\ Min(all) \notin stops
  BY <1>2, <1>3, <1>5
<1>11. (all # {} /\ Min(all) \in stops) <=> (stops # {} /\ \A i \in targets : Min(stops) <= i)
  <2>1. ASSUME all # {}, Min(all) \in stops PROVE stops # {} /\ \A i \in targets : Min(stops) <= i
    <3>1. Min(stops) \in Nat /\ Min(all) \in Nat /\ Min(stops) <= Min(all) /\ Min(all) <= Min(stops)
      BY <1>1, <1>4, <1>6, <2>1
    <3>2. \A i \in targets : i \in Nat /\ Min(all) <= i
      BY <1>1, <1>4, <2>1
    <3> QED BY <2>1, <3>1, <3>2
  <2>2. ASSUME stops # {}, \A i \in targets : Min(stops) <= i PROVE all # {} /\ Min(all) \in stops
    <3>1. all # {} /\ Min(stops) \in all /\ Min(all) \in all /\ Min(all) <= Min(stops) /\ Min(stops) <= Min(all)
      BY <1>1, <1>4, <1>6, <2>2
    <3>2. Min(all) = Min(stops)
      BY <1>1, <3>1
    <3> QED BY <1>6, <2>2, <3>1, <3>2
  <2> QED BY <2>1, <2>2
<1>12. o.status = "target" => targets # {} /\ \A k \in stops : Min(targets) < k
  <2> SUFFICES ASSUME all # {}, Min(all) \notin stops PROVE targets # {} /\ \A k \in stops : Min(targets) < k
    BY <1>10
  <2>1. Min(all) \in targets /\ targets # {}
    BY <1>1, <1>4
  <2>2. Min(targets) \in targets /\ Min(targets) <= Min(all) /\ Min(all) \in Nat /\ Min(targets) \in Nat
    BY <1>1, <1>7, <2>1
  <2>3. \A k \in stops : k \in Nat /\ Min(all) <= k /\ Min(all) # k
    BY <1>1, <1>4
  <2> QED BY <2>1, <2>2, <2>3
<1>13. o.status = "stopped" => o.gain = -Distance(t.entry, t.stop)
  BY <1>3, <1>5, <1>9
<1>14. Quadrant(Score(t), o) = "dangerous_success" => t.target # 0 /\ Score(t) < GoodProcess
  <2> SUFFICES ASSUME Quadrant(Score(t), o) = "dangerous_success" PROVE t.target # 0 /\ Score(t) < GoodProcess
    OBVIOUS
  <2>1. o.status \in {"stopped", "target"} /\ ~(Score(t) >= GoodProcess) /\ o.gain > 0
    BY DEF Quadrant
  <2>2. Score(t) \in 0..100
    BY ScoreOf
  <2>3. o.status # "stopped"
    <3>1. Distance(t.entry, t.stop) \in Nat
      BY DEF Distance, Reviewable
    <3> QED BY <1>13, <2>1, <3>1
  <2>4. targets # {}
    BY <1>12, <2>1, <2>3
  <2>5. t.target # 0
    BY <2>4 DEF targets, TargetTraded
  <2>6. Score(t) < GoodProcess
    <3>1. ~(Score(t) >= GoodProcess)
      BY <2>1
    <3>2. Score(t) \in Int
      <4>1. Score(t) \in 0..100
        BY ScoreOf
      <4>2. 0..100 \subseteq Int
        OBVIOUS
      <4> QED BY <4>1, <4>2
    <3>3. GoodProcess = 70
      BY DEF GoodProcess
    <3> QED BY <3>1, <3>2, <3>3
  <2> QED BY <2>5, <2>6
<1> QED BY <1>8, <1>9, <1>11, <1>12, <1>13, <1>14, ScoreOf DEF ReviewSound, held, stops, targets, planned, o

\* The packs a user can drop into the extension directories, as JSON: their ids are
\* sequences of words, a number may be absent or null.
Packs == INSTANCE Extensions
Criterion == [type : STRING, labelled : BOOLEAN, value : Int, minScore : Int, subject : BOOLEAN]
PackedMission == [id : Seq(STRING), written : BOOLEAN, level : STRING, criteria : Seq(Criterion)]
Pack == [id : Seq(STRING), level : STRING, missions : Seq(PackedMission),
         lessons : Seq([id : Seq(STRING), written : BOOLEAN, engine : BOOLEAN, terms : BOOLEAN,
                        exercise : [kind : STRING, options : Nat, correct : Int]])]

\* A criterion the validation lets through can be compared with progress.
LEMMA ValidIsComparable ==
    ASSUME NEW c \in Criterion, Packs!ValidCriterion(c), Packs!Null \notin {c.value, c.minScore}
    PROVE  Packs!Comparable(c)
<1>1. /\ c.value # Packs!Absent => c.value >= 0
      /\ c.minScore # Packs!Absent => c.minScore >= 0
  BY DEF Packs!ValidCriterion, Packs!ValidNumber, Packs!Absent, Packs!Null
<1>2. \A param \in Packs!Required(c.type) : Packs!Has(c, param)
  BY DEF Packs!ValidCriterion
<1>3. Packs!Has(c, "value") <=> c.value # Packs!Absent
  BY DEF Packs!Has
<1>4. Packs!Has(c, "min_score") <=> c.minScore # Packs!Absent
  BY DEF Packs!Has
<1>5. \A param \in {"classification", "scenario_id", "level"} : Packs!Has(c, param) = c.subject
  BY DEF Packs!Has
<1>6. c.type \in Packs!Counted => Packs!Required(c.type) = {"value"}
  BY DEF Packs!Counted, Packs!Required
<1>7. c.type = "min_classification" => Packs!Required(c.type) = {"value", "classification"}
  BY DEF Packs!Counted, Packs!Required
<1>8. c.type = "consecutive_process_scores" => Packs!Required(c.type) = {"value", "min_score"}
  BY DEF Packs!Counted, Packs!Required
<1>9. c.type = "scenario_passed" => Packs!Required(c.type) = {"scenario_id"}
  BY DEF Packs!Counted, Packs!Required
<1>10. c.type = "assessment_passed" => Packs!Required(c.type) = {"level"}
  BY DEF Packs!Counted, Packs!Required
<1>11. c.type \in Packs!Counted \cup {"min_classification", "consecutive_process_scores"} => c.value >= 0
  BY <1>1, <1>2, <1>3, <1>6, <1>7, <1>8
<1>12. c.type = "consecutive_process_scores" => c.minScore >= 0
  BY <1>1, <1>2, <1>4, <1>8
<1>13. c.type \in {"min_classification", "scenario_passed", "assessment_passed"} => c.subject
  BY <1>2, <1>5, <1>7, <1>9, <1>10
<1> QED BY <1>11, <1>12, <1>13 DEF Packs!Comparable

\* What registration accepts is usable: every criterion of an accepted mission can be
\* judged unless a number in it is null, and every exercise of an accepted lesson has
\* exactly one right answer, for every pack.
THEOREM AcceptedPacksWork ==
    \A kind \in {"missions", "lessons", "strategy", "provider"}, p \in Pack :
        Packs!PackSound([kind |-> kind, what |-> p])
<1> SUFFICES ASSUME NEW kind \in {"missions", "lessons", "strategy", "provider"}, NEW p \in Pack
             PROVE  Packs!PackSound([kind |-> kind, what |-> p])
  OBVIOUS
<1>1. ASSUME Packs!ValidMissionPack(p), NEW i \in DOMAIN p.missions, NEW j \in DOMAIN p.missions[i].criteria,
             Packs!Null \notin {p.missions[i].criteria[j].value, p.missions[i].criteria[j].minScore}
      PROVE  Packs!Comparable(p.missions[i].criteria[j])
  <2>1. p.missions \in Seq(PackedMission)
    BY DEF Pack
  <2>4. p.missions[i] \in PackedMission
    BY <2>1
  <2>5. p.missions[i].criteria \in Seq(Criterion)
    BY <2>4 DEF PackedMission
  <2>2. p.missions[i].criteria[j] \in Criterion
    BY <2>5
  <2>3. Packs!ValidCriterion(p.missions[i].criteria[j])
    BY <1>1 DEF Packs!ValidMissionPack, Packs!ValidMission
  <2> QED BY <1>1, <2>2, <2>3, ValidIsComparable
<1>2. ASSUME Packs!ValidLessonPack(p), NEW i \in DOMAIN p.lessons
      PROVE  Packs!RightAnswers(p.lessons[i].exercise) = {p.lessons[i].exercise.correct}
  <2>1. Packs!ValidExercise(p.lessons[i].exercise)
    BY <1>2 DEF Packs!ValidLessonPack, Packs!ValidLesson
  <2> QED BY <2>1 DEF Packs!ValidExercise, Packs!RightAnswers
<1>3. CASE kind = "missions"
  <2>1. CASE Packs!ValidMissionPack(p)
    BY <1>1, <1>3, <2>1 DEF Packs!PackSound
  <2>2. CASE ~Packs!ValidMissionPack(p)
    BY <1>3, <2>2 DEF Packs!PackSound
  <2> QED BY <2>1, <2>2
<1>4. CASE kind = "lessons"
  <2>1. CASE Packs!ValidLessonPack(p)
    BY <1>2, <1>4, <2>1 DEF Packs!PackSound
  <2>2. CASE ~Packs!ValidLessonPack(p)
    BY <1>4, <2>2 DEF Packs!PackSound
  <2> QED BY <2>1, <2>2
<1>5. CASE kind \notin {"missions", "lessons"}
  BY <1>5 DEF Packs!PackSound
<1> QED BY <1>3, <1>4, <1>5


-----------------------------------------------------------------------------
(***************************************************************************)
(* The normal form of the AI settings.                                     *)
(***************************************************************************)
Prefs == INSTANCE Settings

\* The fields of a normal form and the one an old payload may have instead; and
\* what the normal form makes of each.
AiFields == {"provider", "base_url", "api_key_id"}
OldFields == AiFields \cup {"ollama_base_url"}
ProviderOf(p) == IF "provider" \in DOMAIN p THEN p["provider"] ELSE "ollama"
UrlOf(p) ==
    IF Prefs!Given(p, "ollama_base_url") /\ ~Prefs!Given(p, "base_url") THEN p["ollama_base_url"]
    ELSE IF "base_url" \in DOMAIN p THEN p["base_url"] ELSE "local"
KeyGiven(p) == IF "api_key_id" \in DOMAIN p THEN p["api_key_id"] ELSE Prefs!None
KeyOf(p) ==
    IF ProviderOf(p) \in DOMAIN Prefs!HostedKey /\ KeyGiven(p) = Prefs!None
    THEN Prefs!HostedKey[ProviderOf(p)] ELSE KeyGiven(p)

AiOf(p) ==
    [f \in AiFields |-> IF f = "provider" THEN ProviderOf(p) ELSE IF f = "base_url" THEN UrlOf(p) ELSE KeyOf(p)]

\* A hosted provider has a key name.
LEMMA Hosted ==
    \A x \in DOMAIN Prefs!HostedKey : Prefs!HostedKey[x] # Prefs!None
<1> DEFINE blank == Prefs!None
<1>1. "openai-api-key" # blank /\ "anthropic-api-key" # blank /\ "google-gemini-api-key" # blank
  BY Zenon DEF Prefs!None
<1> HIDE DEF blank
<1>2. \A x \in DOMAIN Prefs!HostedKey :
         Prefs!HostedKey[x] \in {"openai-api-key", "anthropic-api-key", "google-gemini-api-key"}
  BY DEF Prefs!HostedKey
<1>3. \A x \in DOMAIN Prefs!HostedKey : Prefs!HostedKey[x] # blank
  BY <1>1, <1>2
<1> QED BY <1>3 DEF blank

\* The normal form, field by field.
LEMMA AiFieldwise ==
    ASSUME NEW p, DOMAIN p \subseteq OldFields
    PROVE  Prefs!NormalAiSettings(p) = AiOf(p)
<1> DEFINE blank == Prefs!None
           merged == [f \in DOMAIN p \cup AiFields |->
                        IF f \in DOMAIN p THEN p[f]
                        ELSE IF f = "provider" THEN "ollama" ELSE IF f = "base_url" THEN "local" ELSE blank]
           url == UrlOf(p)
           key == KeyOf(p)
<1>1. Prefs!Over(p, Prefs!AiDefaults) = merged
  <2>1. Prefs!AiDefaults = [f \in AiFields |-> IF f = "provider" THEN "ollama" ELSE IF f = "base_url" THEN "local" ELSE blank]
    <3> HIDE DEF blank
    <3> QED BY DEF AiFields, Prefs!AiDefaults, blank
  <2> HIDE DEF blank
  <2> QED BY <2>1 DEF Prefs!Over
<1>2. merged["provider"] = ProviderOf(p) /\ merged["api_key_id"] = KeyGiven(p)
      /\ ("base_url" \in DOMAIN p => merged["base_url"] = p["base_url"])
      /\ ("base_url" \notin DOMAIN p => merged["base_url"] = "local")
  BY DEF AiFields, ProviderOf, KeyGiven
<1>3. Prefs!NormalAi(p) = [merged EXCEPT !["base_url"] = url, !["api_key_id"] = key]
  BY <1>1, <1>2 DEF Prefs!NormalAi, UrlOf, KeyOf
<1>4. DOMAIN merged = DOMAIN p \cup AiFields
  OBVIOUS
<1>5. DOMAIN Prefs!NormalAi(p) = DOMAIN p \cup AiFields
  BY <1>3, <1>4
<1>6. (DOMAIN p \cup AiFields) \ {"ollama_base_url"} = AiFields
  BY DEF AiFields, OldFields
<1>7. \A f \in AiFields : Prefs!NormalAi(p)[f] = AiOf(p)[f]
  <2> HIDE DEF merged, url, key
  <2>1. DOMAIN merged = DOMAIN p \cup AiFields
    BY <1>4
  <2> QED BY <1>2, <1>3, <2>1 DEF AiFields, AiOf, url, key
<1> HIDE DEF merged
<1> QED BY <1>5, <1>6, <1>7 DEF Prefs!NormalAiSettings, Prefs!Restrict, AiOf

\* The AI settings' normal form (_normalize_ai_settings_payload, read and saved
\* through it): it has the fields of the defaults and no other, normalising it again
\* changes nothing, what the payload gives is kept, the old name of the URL is read
\* where no new one is given, and a hosted provider always has a key name.
THEOREM AiSettingsHaveANormalForm ==
    ASSUME NEW S \in SUBSET OldFields, NEW payload \in [S -> STRING]
    PROVE  Prefs!AiSound(payload)
<1> DEFINE ai == AiOf(payload)
           blank == Prefs!None
           Urls == {payload[field] : field \in DOMAIN payload \cap {"base_url", "ollama_base_url"}} \ {blank}
<1>1. Prefs!NormalAiSettings(payload) = ai
  BY AiFieldwise
<1>2. DOMAIN ai = AiFields /\ ai["provider"] = ProviderOf(payload) /\ ai["base_url"] = UrlOf(payload)
      /\ ai["api_key_id"] = KeyOf(payload)
  BY DEF AiOf, AiFields
<1> HIDE DEF ai, blank
<1>3. \A f : Prefs!Given(payload, f) <=> f \in S /\ payload[f] # blank
  BY DEF Prefs!Given, blank
<1>4. KeyGiven(payload) = IF "api_key_id" \in S THEN payload["api_key_id"] ELSE blank
  BY DEF KeyGiven, blank
<1>5. KeyOf(payload) # blank \/ ProviderOf(payload) \notin DOMAIN Prefs!HostedKey
  BY Hosted DEF KeyOf, blank
<1>6. AiOf(ai) = ai
  <2>1. ProviderOf(ai) = ProviderOf(payload)
    BY <1>2 DEF ProviderOf, AiFields
  <2>2. UrlOf(ai) = UrlOf(payload)
    <3>1. "ollama_base_url" \notin DOMAIN ai /\ "base_url" \in DOMAIN ai
      BY <1>2 DEF AiFields
    <3>2. UrlOf(ai) = ai["base_url"]
      BY <3>1 DEF UrlOf, Prefs!Given
    <3> QED BY <1>2, <3>2
  <2>3. KeyGiven(ai) = KeyOf(payload)
    BY <1>2 DEF KeyGiven, AiFields
  <2>4. KeyOf(ai) = KeyOf(payload)
    <3>1. KeyOf(ai) = IF ProviderOf(payload) \in DOMAIN Prefs!HostedKey /\ KeyOf(payload) = blank
                      THEN Prefs!HostedKey[ProviderOf(payload)] ELSE KeyOf(payload)
      BY <2>1, <2>3 DEF KeyOf, blank
    <3> QED BY <1>5, <3>1
  <2> QED BY <2>1, <2>2, <2>4 DEF AiOf, ai
<1>7. Prefs!NormalAiSettings(ai) = ai
  <2>1. DOMAIN ai \subseteq OldFields
    BY <1>2 DEF OldFields
  <2> QED BY <1>6, <2>1, AiFieldwise
<1>8. Urls # {} => ai["base_url"] \in Urls
  <2>1. ASSUME NEW f \in S \cap {"base_url", "ollama_base_url"}, payload[f] # blank
        PROVE  UrlOf(payload) \in Urls
    <3>1. CASE Prefs!Given(payload, "base_url")
      <4>1. UrlOf(payload) = payload["base_url"] /\ "base_url" \in S /\ payload["base_url"] # blank
        BY <1>3, <3>1 DEF UrlOf
      <4> QED BY <4>1
    <3>2. CASE ~Prefs!Given(payload, "base_url")
      <4>1. f = "ollama_base_url"
        BY <1>3, <2>1, <3>2
      <4>2. UrlOf(payload) = payload[f]
        BY <1>3, <2>1, <3>2, <4>1 DEF UrlOf
      <4> QED BY <2>1, <4>2
    <3> QED BY <3>1, <3>2
  <2> QED BY <1>2, <2>1
<1>9. DOMAIN ai = DOMAIN Prefs!AiDefaults
  BY <1>2 DEF Prefs!AiDefaults, AiFields
<1>10. ai["provider"] \in DOMAIN Prefs!HostedKey => ai["api_key_id"] # blank
  BY <1>2, <1>5
<1>11. ASSUME NEW field \in DOMAIN payload \cap DOMAIN ai, payload[field] # blank
       PROVE  ai[field] = payload[field]
  <2>1. field \in S /\ Prefs!Given(payload, field)
    BY <1>3, <1>11
  <2>2. CASE field = "provider"
    BY <1>2, <2>1, <2>2 DEF ProviderOf
  <2>3. CASE field = "base_url"
    BY <1>2, <2>1, <2>3 DEF UrlOf
  <2>4. CASE field = "api_key_id"
    <3>1. KeyGiven(payload) = payload[field]
      BY <1>4, <2>1, <2>4
    <3>2. KeyOf(payload) = payload[field]
      BY <1>11, <3>1 DEF KeyOf, blank
    <3> QED BY <1>2, <2>4, <3>2
  <2> QED BY <1>2, <2>2, <2>3, <2>4 DEF AiFields
<1> QED BY <1>1, <1>7, <1>8, <1>9, <1>10, <1>11 DEF Prefs!AiSound, blank
=============================================================================
