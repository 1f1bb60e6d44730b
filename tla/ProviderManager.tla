---------------------------- MODULE ProviderManager ----------------------------
(***************************************************************************)
(* providers/manager.py: the registry of providers and their clients, and  *)
(* configure, which rebuilds both whenever settings, keys or profiles      *)
(* change (routes/providers.py and routes/settings.py call it, some of     *)
(* them on a GET).  Handlers run one at a time on the event loop; the      *)
(* refresh jobs read registry and clients from their own threads while     *)
(* configure is at work, so it is a sequence of steps here.                *)
(***************************************************************************)
EXTENDS Integers, Sequences, FiniteSets, SequencesExt, TLC

CONSTANTS Builtins,    \* _register_defaults, in order: [name, caps, client], client being
                       \* "always", "never" or the credential it needs
          Extensions,  \* registered once, at start, by active extensions: [name, caps]
          Configurations,     \* what handlers may install: [routes, keys, profiles]
          MaxConfigures \* bound on calls of configure

\* A route, the profiles and the defaults are lists.
ASSUME ManagerAssumption ==
    /\ Builtins \in Seq(ToSet(Builtins)) /\ Extensions \in Seq(ToSet(Extensions))
    /\ \A s \in Configurations :
          /\ s.profiles \in Seq(ToSet(s.profiles))
          /\ \A d \in DOMAIN s.routes : s.routes[d] \in Seq(ToSet(s.routes[d]))

\* routes: by domain, the providers named as primary, secondary and fallback;
\* keys: the credentials enabled and stored; profiles: [id, enabled, caps, key].
VARIABLES settings,
          registry,   \* by name: [caps, configured]
          clients,    \* names with a client object
          rebuilding, \* steps configure has still to take
          configures

manager == <<settings, registry, clients, rebuilding, configures>>

Nothing == <<>>   \* the function with no names

\* register: a name registered before keeps its client unless a new one comes.
Registered(entries, name, caps, hasClient) ==
    [n \in DOMAIN entries \cup {name} |->
        IF n = name THEN [caps |-> caps, configured |-> hasClient] ELSE entries[n]]

HasClient(builtin, keys) == builtin.client = "always" \/ builtin.client \in keys

\* _register_custom_profiles: enabled profiles with a name and a known
\* capability, none of them with a client.
Offers(profile) == profile.enabled /\ profile.caps # {}

Registrations(s) ==
    LET builtins == [i \in DOMAIN Builtins |->
                       [name |-> Builtins[i].name, caps |-> Builtins[i].caps,
                        client |-> HasClient(Builtins[i], s.keys)]]
        Add(list, p) == IF Offers(p)
                        THEN Append(list, [name |-> p.id, caps |-> p.caps, client |-> FALSE])
                        ELSE list
    IN  FoldLeft(Add, builtins, s.profiles)

ExtensionRegistrations ==
    [i \in DOMAIN Extensions |->
        [name |-> Extensions[i].name, caps |-> Extensions[i].caps, client |-> TRUE]]

RegistryOf(list) ==
    FoldLeft(LAMBDA entries, r : Registered(entries, r.name, r.caps, r.client), Nothing, list)
ClientsOf(list) == {list[i].name : i \in {j \in DOMAIN list : list[j].client}}

\* resolve_chain: the providers a domain names, if they have the capability now.
Chain(domain, capability) ==
    LET Add(chain, p) == IF p \in DOMAIN registry /\ capability \in registry[p].caps
                         THEN Append(chain, p) ELSE chain
    IN  FoldLeft(Add, <<>>, settings.routes[domain])

IsConfigured(name) == name \in DOMAIN registry /\ registry[name].configured

\* The registry a process starts with: configure in the constructor, then the
\* extensions (main.py, extensions/registry.py).
StartManager ==
    LET list == Registrations(settings') \o ExtensionRegistrations
    IN  registry' = RegistryOf(list) /\ clients' = ClientsOf(list) /\ rebuilding' = 0

ManagerInit ==
    /\ settings \in Configurations
    /\ registry = RegistryOf(Registrations(settings) \o ExtensionRegistrations)
    /\ clients = ClientsOf(Registrations(settings) \o ExtensionRegistrations)
    /\ rebuilding = 0 /\ configures \in 0..MaxConfigures

-----------------------------------------------------------------------------
\* configure: the new settings count at once, then the registry is emptied, then
\* the clients, then everything but the extensions is registered again.
Configure(s) ==
    /\ rebuilding = 0 /\ configures < MaxConfigures
    /\ configures' = configures + 1
    /\ settings' = s
    /\ rebuilding' = Len(Registrations(s)) + 2
    /\ UNCHANGED <<registry, clients>>

Missing == Len(Registrations(settings)) - rebuilding

DropRegistry ==
    /\ rebuilding > 0 /\ Missing = -2
    /\ registry' = Nothing /\ rebuilding' = rebuilding - 1
    /\ UNCHANGED <<settings, clients, configures>>

DropClients ==
    /\ rebuilding > 0 /\ Missing = -1
    /\ clients' = {} /\ rebuilding' = rebuilding - 1
    /\ UNCHANGED <<settings, registry, configures>>

RegisterNext ==
    /\ rebuilding > 0 /\ Missing >= 0
    /\ LET r == Registrations(settings)[Missing + 1] IN
          /\ registry' = Registered(registry, r.name, r.caps, r.client)
          /\ clients' = clients \cup (IF r.client THEN {r.name} ELSE {})
    /\ rebuilding' = rebuilding - 1
    /\ UNCHANGED <<settings, configures>>

Rebuild == DropRegistry \/ DropClients \/ RegisterNext
=============================================================================
