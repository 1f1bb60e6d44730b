------------------------------- MODULE Settings -------------------------------
(***************************************************************************)
(* SettingsStore (storage/state_store/settings.py) and the handlers over   *)
(* it (api/routes/providers.py, extensions.py): provider routes, safety,   *)
(* profiles of custom providers, the settings of extensions, and the part  *)
(* of them the provider manager works with.  The handlers await nothing,   *)
(* so they run one after another: what a desk of settings holds is a fold  *)
(* over the calls it got.                                                  *)
(*                                                                         *)
(* A name is a sequence of words and separators, Sep standing for every    *)
(* character that is neither a letter nor a digit.  A dictionary is a      *)
(* function on the keys it has.                                            *)
(***************************************************************************)
EXTENDS Integers, Sequences, FiniteSets, SequencesExt, Functions, TLC

Sep == "_"
None == ""
Empty == <<>>    \* the function without keys
\* One dictionary merged over another.
Over(new, old) == [f \in DOMAIN new \cup DOMAIN old |-> IF f \in DOMAIN new THEN new[f] ELSE old[f]]
AuthTypes == {"none", "bearer", "api_key_header", "api_key_query"}

(***************************************************************************)
(* Normal forms.                                                           *)
(***************************************************************************)
\* _normalize_provider_settings_payload: two routes older versions wrote.
OldCrypto(r) == r.primary = "coinbase" /\ r.secondary \in {"coingecko", None} /\ r.fallback = "kraken"
OldStocks(r) == r.primary \in {"alpaca", "finnhub", "twelvedata", "polygon"}
Route(a, b, c) == [primary |-> a, secondary |-> b, fallback |-> c]
NormalRoutes(routes) ==
    [crypto |-> IF OldCrypto(routes.crypto) THEN Route("coinbase", "kraken", "gemini") ELSE routes.crypto,
     stocks |-> IF OldStocks(routes.stocks) THEN Route("yahoo_public", None, None) ELSE routes.stocks]

\* _normalize_ai_settings_payload.
AiDefaults == [provider |-> "ollama", base_url |-> "local", api_key_id |-> None]
HostedKey == [openai |-> "openai-api-key", anthropic |-> "anthropic-api-key",
              google_gemini |-> "google-gemini-api-key"]
Given(payload, field) == field \in DOMAIN payload /\ payload[field] # None
NormalAi(payload) ==
    LET merged == Over(payload, AiDefaults)
        url == IF Given(payload, "ollama_base_url") /\ ~Given(payload, "base_url")
               THEN payload["ollama_base_url"] ELSE merged["base_url"]
        key == IF merged["provider"] \in DOMAIN HostedKey /\ merged["api_key_id"] = None
               THEN HostedKey[merged["provider"]] ELSE merged["api_key_id"]
    IN  [merged EXCEPT !["base_url"] = url, !["api_key_id"] = key]
NormalAiSettings(payload) == Restrict(NormalAi(payload), DOMAIN NormalAi(payload) \ {"ollama_base_url"})

\* _provider_profile_id: one leading "custom_" goes, runs of separators become
\* one, and the words are joined after "custom"; a name without a word gets the
\* time of the call.
IsPrefixed(raw) == Len(raw) >= 2 /\ raw[1] = "custom" /\ raw[2] = Sep
Words(raw) ==
    SelectSeq(IF IsPrefixed(raw) THEN SubSeq(raw, 3, Len(raw)) ELSE raw, LAMBDA w : w # Sep)
Joined(words) == FoldLeft(LAMBDA name, w : name \o <<Sep, w>>, <<"custom">>, words)
ProfileId(raw, now) == Joined(IF Words(raw) = <<>> THEN <<now>> ELSE Words(raw))

\* _normalize_custom_provider_profile: what is sent is [id, label, auth, key, caps].
NormalProfile(p, now) ==
    LET id == ProfileId(IF p.id = <<>> THEN p.label ELSE p.id, now)
        auth == IF p.auth \in AuthTypes THEN p.auth ELSE "none"
    IN  [id |-> id, label |-> p.label, auth |-> auth,
         key |-> IF auth # "none" /\ p.key = <<>> THEN id \o <<"api-key">> ELSE p.key,
         caps |-> IF p.caps = {} THEN {"ohlcv"} ELSE p.caps]
\* A stored list read again: the first of an id counts.  What is listed is kept by
\* id here, since the code sorts by it and keeps one of each.
Listed(stored, now) ==
    FoldLeft(LAMBDA byId, p : Over(byId, NormalProfile(p, now).id :> NormalProfile(p, now)), Empty, stored)
AsStored(byId) == SetToSeq(Range(byId))

(***************************************************************************)
(* The handlers.  A desk holds the stored routes, safety, profiles and     *)
(* extension settings, and what the manager works with: live, liveSafety   *)
(* and known.  A call is [does, with, now].                                *)
(***************************************************************************)
Known(s, now) == [s EXCEPT !.known = Listed(s.profiles, now)]   \* refresh_custom_provider_profiles

GetSettings(s) ==
    [s EXCEPT !.routes = NormalRoutes(@), !.live = NormalRoutes(s.routes)]
\* Confirming live trading is refused where no keychain can keep the credentials.
PutSettings(s, p) ==
    IF p.confirmed /\ ~p.keychain THEN s
    ELSE [s EXCEPT !.routes = p.routes, !.live = p.routes,
                   !.safety = p.confirmed, !.liveSafety = p.confirmed]
Upsert(s, p, now) ==
    LET new == NormalProfile(p, now)
    IN  Known([s EXCEPT !.profiles = AsStored(Over(new.id :> new, Listed(@, now)))], now)
DeleteProfile(s, raw, now) ==
    LET listed == Listed(s.profiles, now)
        id == ProfileId(raw, now)
    IN  Known(IF id \in DOMAIN listed
              THEN [s EXCEPT !.profiles = AsStored(Restrict(listed, DOMAIN listed \ {id}))] ELSE s, now)
\* PUT .../settings replaces an extension's dictionary, PUT .../enabled merges into it.
ReplaceExtras(s, settings) == [s EXCEPT !.extras = settings]
Enable(s, on) == [s EXCEPT !.extras = Over("enabled" :> on, @)]
\* A start: main.py reads settings, safety and profiles into a new manager.
Restart(s, now) == Known([GetSettings(s) EXCEPT !.liveSafety = s.safety], now)

Did(s, c) ==
    CASE c.does = "get" -> GetSettings(s)
      [] c.does = "put" -> PutSettings(s, c.with)
      [] c.does = "upsert" -> Upsert(s, c.with, c.now)
      [] c.does = "delete" -> DeleteProfile(s, c.with, c.now)
      [] c.does = "replace" -> ReplaceExtras(s, c.with)
      [] c.does = "enable" -> Enable(s, c.with)
      [] c.does = "restart" -> Restart(s, c.now)
Held(start, calls) == FoldLeft(Did, Restart(start, "now"), calls)

(***************************************************************************)
(* Property.                                                               *)
(***************************************************************************)
LastCall(calls, Is(_)) == SelectLastInSeq(calls, Is)
AboutProfile(c, id) ==
    \/ c.does = "upsert" /\ NormalProfile(c.with, c.now).id = id
    \/ c.does = "delete" /\ ProfileId(c.with, c.now) = id
Profiles(start, calls) ==
    DOMAIN Listed(start.profiles, "now")
    \cup {NormalProfile(calls[i].with, calls[i].now).id : i \in {j \in DOMAIN calls : calls[j].does = "upsert"}}

\* Whatever was called on the settings of an older version (settings.py,
\* routes/providers.py): what the manager works with and what is stored have one
\* normal form and the same safety; reading again changes nothing more; the last
\* call about a profile decides whether it is there and what it is, and a profile
\* nobody called about stands; a confirmed mode was last asked for with a keychain;
\* and an extension is on when the last call that says so turned it on.
SettingsSound(start, calls) ==
    LET s == Held(start, calls)
        again == Restart(s, "later")
        Puts(c) == c.does = "put" /\ (c.with.confirmed => c.with.keychain)
        Says(c) == c.does \in {"enable", "replace"}
        said == LastCall(calls, Says)
    IN  /\ NormalRoutes(s.live) = NormalRoutes(s.routes) /\ s.liveSafety = s.safety
        /\ s.known = Listed(s.profiles, "later")
        /\ again = Restart(again, "later still") /\ again.profiles = s.profiles
        /\ \A id \in Profiles(start, calls) :
              LET last == LastCall(calls, LAMBDA c : AboutProfile(c, id))
              IN  IF last = 0 THEN s.known[id] = Listed(start.profiles, "now")[id]
                  ELSE IF calls[last].does = "delete" THEN id \notin DOMAIN s.known
                  ELSE id \in DOMAIN s.known /\ s.known[id] = NormalProfile(calls[last].with, calls[last].now)
        /\ DOMAIN s.known \subseteq Profiles(start, calls)
        /\ s.safety = (IF LastCall(calls, Puts) = 0 THEN start.safety ELSE calls[LastCall(calls, Puts)].with.confirmed)
        /\ said > 0 =>
              s.extras = (IF calls[said].does = "replace" THEN calls[said].with
                          ELSE Over("enabled" :> calls[said].with,
                                    Held(start, SubSeq(calls, 1, said - 1)).extras))
\* The AI settings of any version have a normal form, reached in one reading: it
\* keeps every field the program knows, an address given under its old name too,
\* and names a key for a hosted provider.
AiSound(payload) ==
    LET ai == NormalAiSettings(payload)
        Urls == {payload[field] : field \in DOMAIN payload \cap {"base_url", "ollama_base_url"}} \ {None}
    IN  /\ NormalAiSettings(ai) = ai
        /\ Urls # {} => ai["base_url"] \in Urls
        /\ DOMAIN ai = DOMAIN AiDefaults
        /\ ai["provider"] \in DOMAIN HostedKey => ai["api_key_id"] # None
        /\ \A field \in DOMAIN payload \cap DOMAIN ai : payload[field] # None => ai[field] = payload[field]
=============================================================================
