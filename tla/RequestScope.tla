------------------------------ MODULE RequestScope ------------------------------
(***************************************************************************)
(* A request passes four hooks: chat.params fills in defaults of the       *)
(* catalog of the account active then, chat.headers notes on it which they *)
(* were, the fetch acquires an account, which becomes the active one, and  *)
(* the payload is changed to what that account's catalog says; a rejected  *)
(* attempt acquires and sends again.  What params found waits for headers  *)
(* under the message of the request: the two hooks share nothing else.     *)
(*                                                                         *)
(* Requests of one session.  A step is what runs between two awaits.  A    *)
(* catalog is the entry of the one model all requests ask for.             *)
(***************************************************************************)
EXTENDS RequestSettings

CONSTANTS Requests,
          KeyOf,        \* the message of a request ("unkeyed" is one, too)
          Scopes,       \* accounts, as keys of catalogs
          Catalogs,     \* the entries an account's catalog may have for the model
          Given,        \* the options a request's host may set, with the agent's build flag
          Settings,     \* configurations
          Names,        \* the names of the model, and its variants
          Variants,
          MaxAttempts
ASSUME RequestConstants == /\ MaxAttempts \in Nat \ {0}
                           /\ Absent \notin Requests \cup Scopes \cup {"ultra", "max", "none"}

VARIABLES settings,   \* of the plugin
          catalogs,   \* catalogModelsByScope
          active,     \* activeCatalogScopeKey
          provider,   \* the catalog entry the provider's model was made from
          pending,    \* catalogRequestMetadataBySession
          request
scopeVars == <<settings, catalogs, active, provider, pending, request>>

MessageKeys == {KeyOf[r] : r \in Requests}
Roles == {"root", "child", "auxiliary"}
Entries(s) == Catalogs[s] \cup {Absent}
Config == Configured(settings.behavior, Names, Variants)

\* `model' and `meta' are what params captured and headers took; `scope' is the
\* internal header, `old' the scope active before the acquisition; `previous' is
\* history: the entry of the old catalog when the request was sent.
NewRequest == [pc |-> "idle", given |-> Absent, model |-> Absent, scope |-> Absent, options |-> Absent,
          injected |-> {}, ultra |-> Absent, meta |-> Absent, old |-> Absent, account |-> Absent,
          selected |-> Absent, sent |-> Absent, previous |-> Absent, attempts |-> 0]
Over == [NewRequest EXCEPT !.pc = "done"]
Becomes(r, q) == request' = [request EXCEPT ![r] = q]
None == [of |-> Absent, scope |-> Absent, injected |-> {}, ultra |-> Absent]

\* activateCatalogScope and setCatalogModels: without models the provider's stay.
Follow(entry) == provider' = IF entry = Absent THEN provider ELSE entry

-----------------------------------------------------------------------------
(* chat.params.                                                            *)

Noted(r, q) == [of |-> r, scope |-> q.scope, injected |-> q.injected, ultra |-> q.ultra]
Publish(r, q) ==
  /\ pending' = [pending EXCEPT ![KeyOf[r]] = Append(@, Noted(r, q))]
  /\ Becomes(r, [q EXCEPT !.pc = "params"])

Params(r, given) ==
  /\ request[r].pc = "idle"
  /\ LET options == ApplyDefaults(given, Config, provider, settings)
         q == [NewRequest EXCEPT !.given = given, !.model = provider, !.scope = active,
                            !.injected = Injected(given, options),
                            !.options = [options EXCEPT !.text = Instruct(@, [selected |-> FALSE],
                                                                          given.build, settings)]]
     IN IF options.effort = "ultra" THEN /\ Becomes(r, [q EXCEPT !.pc = "agent", !.options = options])
                                         /\ UNCHANGED pending
        ELSE Publish(r, q)
  /\ UNCHANGED <<settings, catalogs, active, provider>>
\* An Ultra request waits for the role of its agent.
AgentKnown(r, role) ==
  /\ request[r].pc = "agent"
  /\ LET q == request[r]
         ultra == ResolveUltra("ultra", q.model, role)
     IN Publish(r, [q EXCEPT !.ultra = ultra,
                             !.options.text = Instruct(@, ultra, q.given.build, settings)])
  /\ UNCHANGED <<settings, catalogs, active, provider>>
\* The host gives up: what params found stays.
Abort(r) ==
  /\ request[r].pc = "params"
  /\ Becomes(r, Over)
  /\ UNCHANGED <<settings, catalogs, active, provider, pending>>

-----------------------------------------------------------------------------
(* chat.headers.                                                           *)

\* Faulty: the latest of several.
TakenLast(waiting) == IF waiting = <<>> THEN None ELSE waiting[Len(waiting)]
\* One that waits is taken; of several none, since no request knows its own.
Taken(waiting) == IF Len(waiting) = 1 THEN waiting[1] ELSE None

Headers(r) ==
  /\ request[r].pc = "params"
  /\ LET meta == Taken(pending[KeyOf[r]])
     IN Becomes(r, [request[r] EXCEPT !.pc = "headers", !.meta = meta,
                                      !.scope = IF meta.scope # Absent THEN meta.scope ELSE active])
  /\ pending' = [pending EXCEPT ![KeyOf[r]] = <<>>]
  /\ UNCHANGED <<settings, catalogs, active, provider>>
\* Headers of a request of another provider are of no use, but params of one drop what waits.
OtherProvider(key) ==
  /\ pending' = [pending EXCEPT ![key] = <<>>]
  /\ UNCHANGED <<settings, catalogs, active, provider, request>>
SessionDeleted ==
  /\ pending' = [key \in MessageKeys |-> <<>>]
  /\ UNCHANGED <<settings, catalogs, active, provider, request>>

-----------------------------------------------------------------------------
(* The fetch.                                                              *)

Acquire(r, s) ==
  /\ request[r].pc = "headers"
  /\ active' = s
  /\ IF active = s THEN UNCHANGED provider ELSE Follow(catalogs[s])
  /\ Becomes(r, [request[r] EXCEPT !.pc = IF catalogs[s] = Absent THEN "catalog" ELSE "selected",
                                   !.old = active, !.account = s, !.selected = catalogs[s],
                                   !.attempts = @ + 1])
  /\ UNCHANGED <<settings, catalogs, pending>>
\* An account without a catalog is waited for, and may still have none.
CatalogAwaited(r) ==
  /\ request[r].pc = "catalog"
  /\ Becomes(r, [request[r] EXCEPT !.pc = "selected", !.selected = catalogs[request[r].account]])
  /\ UNCHANGED <<settings, catalogs, active, provider, pending>>

ScopeOf(q) == IF q.scope # Absent THEN q.scope ELSE q.old
OldModel(q) == IF ScopeOf(q) = Absent THEN Absent ELSE catalogs[ScopeOf(q)]
\* Faulty: an account without a catalog changes nothing.
ChangedIfKnown(q) == q.selected # Absent /\ ScopeOf(q) # Absent /\ ScopeOf(q) # q.account
Changed(q) == \/ ScopeOf(q) # Absent /\ ScopeOf(q) # q.account
              \/ q.selected = Absent /\ OldModel(q) # Absent
Payload(q) == Transform(q.options, Config, settings, q.meta.injected, q.meta.ultra,
                        IF Changed(q) THEN OldModel(q) ELSE Absent, q.selected)
Send(r) ==
  /\ request[r].pc = "selected"
  /\ LET payload == Payload(request[r])
     IN Becomes(r, [request[r] EXCEPT !.pc = IF payload.fatal THEN "fatal" ELSE "sent",
                                      !.sent = payload, !.previous = OldModel(request[r])])
  /\ UNCHANGED <<settings, catalogs, active, provider, pending>>
\* A 429 or a 401 is tried again, from the request as the host made it.
Rejected(r) ==
  /\ request[r].pc = "sent" /\ request[r].attempts < MaxAttempts
  /\ Becomes(r, [request[r] EXCEPT !.pc = "headers", !.sent = Absent, !.previous = Absent])
  /\ UNCHANGED <<settings, catalogs, active, provider, pending>>
Ends(r) ==
  /\ request[r].pc \in {"sent", "fatal"}
  /\ Becomes(r, Over)
  /\ UNCHANGED <<settings, catalogs, active, provider, pending>>

\* A refresh of an account's catalog ends, with one or with none.
SetCatalog(s, entry) ==
  /\ catalogs[s] # entry
  /\ catalogs' = [catalogs EXCEPT ![s] = entry]
  /\ IF s = active THEN Follow(entry) ELSE UNCHANGED provider
  /\ UNCHANGED <<settings, active, pending, request>>

ScopeInit ==
  /\ settings \in Settings
  /\ catalogs \in {c \in [Scopes -> UNION {Entries(s) : s \in Scopes}] :
                     \A s \in Scopes : c[s] \in Entries(s)}
  /\ active \in Scopes
  /\ provider = catalogs[active]
  /\ pending = [key \in MessageKeys |-> <<>>]
  /\ request \in [Requests -> {NewRequest, Over}]     \* not all of them come

RequestStep(r) == \/ Headers(r) \/ CatalogAwaited(r) \/ Send(r) \/ Rejected(r) \/ Ends(r) \/ Abort(r)
                  \/ \E given \in Given[r] : Params(r, given)
                  \/ \E role \in Roles : AgentKnown(r, role)
                  \/ \E s \in Scopes : Acquire(r, s)
ScopeNext == \/ \E r \in Requests : RequestStep(r)
             \/ \E key \in MessageKeys : OtherProvider(key)
             \/ SessionDeleted
             \/ \E s \in Scopes : \E entry \in Entries(s) : SetCatalog(s, entry)

-----------------------------------------------------------------------------
Sent(r) == request[r].pc \in {"sent", "fatal"}
Own(r) == request[r].meta.of \in {r, Absent}

\* Every part of the state has its type.
ScopeTypeOK ==
  /\ active \in Scopes
  /\ \A s \in Scopes : catalogs[s] \in Entries(s)
  /\ \A key \in MessageKeys : \A i \in DOMAIN pending[key] : pending[key][i].of \in Requests
  /\ \A r \in Requests :
       /\ request[r].pc \in {"idle", "agent", "params", "headers", "catalog", "selected", "sent",
                             "fatal", "done"}
       /\ request[r].attempts \in 0..MaxAttempts
       /\ request[r].injected \subseteq Fields \cup {"instructions"}

\* Two requests of one message do not take each other's defaults (the queue of
\* chat.params): a request's headers get those of another one only if its own were
\* dropped before.
TakesOwn ==
  [][\A r \in Requests :
       LET waiting == {pending[KeyOf[r]][i].of : i \in DOMAIN pending[KeyOf[r]]}
       IN request[r].pc = "params" /\ request'[r].pc = "headers" /\ r \in waiting
          => request'[r].meta.of \in {r, Absent}]_scopeVars

\* What the host set is sent as it left chat.params, whatever catalogs and accounts
\* did since (applySelectedCatalogScopeToPayload touches injected fields only).
\* The effort of Ultra is another one on the wire.
HostValuesSurvive ==
  \A r \in Requests : Sent(r) /\ Own(r) =>
    \A f \in Fields \ request[r].injected :
      (f = "effort" => request[r].options.effort # "ultra") =>
        request[r].sent[f] = request[r].options[f]

\* A default of one account's catalog is not sent for another account whose catalog
\* says otherwise.  This is of a request that has its own note, of a model taken from
\* the catalog of the account then active, and of a catalog still known when sent.
\* An effort of ultra has another one on the wire.
NoForeignDefault ==
  \A r \in Requests :
    LET q == request[r]
    IN Sent(r) /\ q.meta.of = r /\ q.scope # q.account /\ q.model # Absent
       /\ q.previous = q.model /\ q.options.effort # "ultra" =>
         \A f \in {"effort", "verbosity", "parallel"} :
           q.given[f] = Absent /\ Config[f] = Absent /\ q.model[f] # Absent /\ q.options[f] = q.model[f]
           => q.sent[f] = (IF q.selected = Absent THEN Absent ELSE q.selected[f])

\* A model is told to delegate only if the catalog of the account that is asked
\* says it can, whichever catalog chat.params looked at.
DelegatesWhereEligible ==
  \A r \in Requests : Sent(r) /\ request[r].sent.text.delegates =>
    settings.ultra /\ request[r].selected # Absent /\ request[r].selected.ultra

\* A reasoning request whose summary is wanted asks for the encrypted reasoning, too,
\* unless another request's note was taken for its own.
EncryptedFollows ==
  \A r \in Requests : Sent(r) /\ Own(r) =>
    LET sent == request[r].sent
    IN Reasons(sent.effort) /\ sent.summary # Absent => sent.encrypted

\* A summary no server takes ends a request before it is sent.
OnlyValidSummaries ==
  \A r \in Requests : request[r].pc = "sent" => request[r].sent.summary \in Summaries \cup {Absent}

\* docs/configuration.md:150: "the backend receives this configured wire effort, not
\* literal `ultra`".
UltraStaysLocal == \A r \in Requests : request[r].pc = "sent" => request[r].sent.effort # "ultra"

\* What is sent is the host's, the user's or the asked account's, and a server can
\* take it (applySelectedCatalogScopeToPayload, transformOutboundRequestPayload).
RequestSound == /\ HostValuesSurvive /\ NoForeignDefault /\ DelegatesWhereEligible
                /\ EncryptedFollows /\ OnlyValidSummaries
=============================================================================
