--------------------------- MODULE ProviderConnect ---------------------------
(***************************************************************************)
(* The dialog that connects a model provider: a draft per protocol, a key  *)
(* remembered for the session of the dialog, two calls that try the        *)
(* draft (discover models, test the connection) and the one that creates   *)
(* the provider.  An answer finds the draft as it is when it arrives, not  *)
(* as it was when the call was made.  An address is missing (or malformed: *)
(* the form asks the same of both) or right; a model name is missing or    *)
(* comes from the list of a protocol.                                      *)
(***************************************************************************)
EXTENDS ConsoleApi

Protocols == {"openai_compatible", "azure_openai", "ollama", "custom"}
Addresses == {NoArg, "good"}
ModelNames == Protocols \cup {NoArg}

ProviderConnectDraft ==
    [protocol : Protocols, named : BOOLEAN, url : Addresses, key : BOOLEAN,
     model : ModelNames, deployment : BOOLEAN, version : BOOLEAN]

\* What the dialog of a protocol shows; deployment and version are fields of Azure's.
Azure(protocol) == protocol = "azure_openai"

\* The defaults of a protocol: the custom one has none.
PROVIDER_CONNECT_PRESETS ==
    [p \in Protocols |-> [url |-> IF p = "custom" THEN NoArg ELSE "good",
                          model |-> IF p = "custom" THEN NoArg ELSE p]]

createProviderConnectDraft(protocol) ==
    [protocol |-> protocol, named |-> TRUE, url |-> PROVIDER_CONNECT_PRESETS[protocol].url, key |-> FALSE,
     model |-> PROVIDER_CONNECT_PRESETS[protocol].model,
     deployment |-> Azure(protocol), version |-> Azure(protocol)]

\* Another protocol: the key stays, the rest is the default of the new one.
applyProviderConnectProtocol(draft, protocol) ==
    [createProviderConnectDraft(protocol) EXCEPT !.key = draft.key]

catalogModelsForProtocol(protocol) == IF protocol = "custom" THEN {NoArg} ELSE {protocol}

\* The key the form would send: the one typed or the one remembered.
resolveProviderCredential(draft, session) == draft.key \/ session

\* What keeps the create button off.
validateProviderConnectDraft(draft, session) ==
    (IF draft.named THEN {} ELSE {"name"})
    \cup (IF draft.url # "good" THEN {"url"} ELSE {})
    \cup (IF draft.protocol = "ollama" \/ resolveProviderCredential(draft, session) THEN {} ELSE {"key"})
    \cup (IF draft.model = NoArg THEN {"model"} ELSE {})
    \cup (IF Azure(draft.protocol) /\ ~(draft.deployment /\ draft.version) THEN {"azure"} ELSE {})

\* What keeps the discover and test buttons off; the name is not asked for.
canTestConnectDraft(draft, session) ==
    /\ draft.url = "good"
    /\ draft.protocol = "ollama" \/ resolveProviderCredential(draft, session)
    /\ Azure(draft.protocol) => draft.deployment /\ draft.version

pickModelAfterDiscover(current, models) == IF current \in models THEN current ELSE CHOOSE m \in models : TRUE

\* Ollama is sent a stand-in for the key it does not have.
providerConnectToPayload(draft, session) ==
    [protocol |-> draft.protocol, named |-> draft.named, model |-> draft.model,
     credential |-> resolveProviderCredential(draft, session) \/ draft.protocol = "ollama"]

Idle == "idle"

Init ==
    /\ db = [draft |-> createProviderConnectDraft("openai_compatible"), session |-> FALSE,
             discover |-> Idle, test |-> Idle, keyAtCall |-> [discover |-> FALSE, test |-> FALSE], listed |-> {},
             create |-> {}, outcome |-> Idle]
    /\ NetInit

-----------------------------------------------------------------------------
(* The dialog, open until a provider was created. *)

Open == db.outcome # "created" /\ UNCHANGED net

\* Typing a key remembers it; clearing the field does not forget it.
patch ==
    /\ Open
    /\ \/ \E b \in BOOLEAN : db' = [db EXCEPT !.draft.key = b, !.session = @ \/ b]
       \/ \E b \in BOOLEAN : db' = [db EXCEPT !.draft.named = b]
       \/ \E a \in Addresses : db' = [db EXCEPT !.draft.url = a]
       \/ /\ Azure(db.draft.protocol)
          /\ \E b \in BOOLEAN : db' = [db EXCEPT !.draft.version = b]
       \/ \E m \in db.listed \cup {NoArg} : db' = [db EXCEPT !.draft.model = m]

switchProtocol ==
    /\ Open
    /\ \E p \in Protocols :
          db' = [db EXCEPT !.draft = applyProviderConnectProtocol(@, p), !.listed = {}]

\* The button is off while its own call is under way, not while the other one is.
discoverModels ==
    /\ Open /\ db.discover = Idle /\ canTestConnectDraft(db.draft, db.session)
    /\ db' = [db EXCEPT !.discover = db.draft.protocol, !.keyAtCall.discover = db.draft.key]

\* The answer is about the protocol of the call: the list may belong to another
\* protocol than the draft has by now.  The key of the call is remembered again.
onDiscovered ==
    /\ Open /\ db.discover # Idle
    /\ LET models == catalogModelsForProtocol(db.discover)
       IN  db' = [db EXCEPT !.discover = Idle, !.listed = models, !.session = @ \/ db.keyAtCall.discover,
                            !.draft.model = pickModelAfterDiscover(@, models)]

onDiscoverFailed == Open /\ db.discover # Idle /\ db' = [db EXCEPT !.discover = Idle, !.listed = {}]

testConnection ==
    /\ Open /\ db.test = Idle /\ canTestConnectDraft(db.draft, db.session)
    /\ db' = [db EXCEPT !.keyAtCall.test = db.draft.key,
                        !.test = IF resolveProviderCredential(db.draft, db.session) THEN "ok" ELSE "noKey"]

\* The server wants a key of every protocol: a test of Ollama without one is refused.
\* A test that went well remembers the key of its call again.
onTested ==
    /\ Open /\ db.test # Idle
    /\ db' = [db EXCEPT !.test = Idle,
                        !.session = @ \/ (db.test = "ok" /\ db.keyAtCall.test)]

\* Mutant: the button looks at the form as it was validated without its key.
submitUnchecked ==
    /\ Open /\ db.create = {}
    /\ validateProviderConnectDraft(db.draft, TRUE) = {}
    /\ db' = [db EXCEPT !.create = {providerConnectToPayload(db.draft, db.session)},
                        !.session = FALSE, !.draft.key = FALSE]

\* The form forgets the key as it hands it over.
submit ==
    /\ Open /\ db.create = {}
    /\ validateProviderConnectDraft(db.draft, db.session) = {}
    /\ db' = [db EXCEPT !.create = {providerConnectToPayload(db.draft, db.session)},
                        !.session = FALSE, !.draft.key = FALSE]

\* The server's own check of a new provider.
Accepted(payload) == payload.named /\ payload.model # NoArg /\ payload.credential

\* Created, and tested at once; or failed on the way, and the dialog stays open.
onCreated ==
    /\ UNCHANGED net
    /\ \E payload \in db.create :
          db' = [db EXCEPT !.create = {}, !.outcome = IF Accepted(payload) THEN "created" ELSE "refused"]

onCreateFailed == UNCHANGED net /\ db.create # {} /\ db' = [db EXCEPT !.create = {}]

Next ==
    \/ patch \/ switchProtocol \/ discoverModels \/ onDiscovered \/ onDiscoverFailed
    \/ testConnection \/ onTested \/ submit \/ onCreated \/ onCreateFailed

-----------------------------------------------------------------------------
TypeOK ==
    /\ db.draft \in ProviderConnectDraft
    /\ db.listed \subseteq ModelNames
    /\ db.outcome \in {Idle, "created", "refused"}

\* What the dialog lets through the server takes, whatever answers arrived in between.
FormAccepted == db.outcome # "refused"
=============================================================================
