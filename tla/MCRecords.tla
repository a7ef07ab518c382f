------------------------------ MODULE MCRecords ------------------------------
(***************************************************************************)
(* Instances of the parts that turn records into records: the accounts of  *)
(* the store, the requests, the models of the provider. They share nothing *)
(* here, so a behaviour is one of a single part.                           *)
(***************************************************************************)
EXTENDS AuthState, RequestScope, ProviderModels

CONSTANTS Parts, r1, r2, message, ann, bob, odd, part1, part2, t1, t2, t3

VARIABLE part
vars == <<part, authVars, scopeVars, modelVars>>

MCKeyOf == [r \in Requests |-> message]
Plus == [Bare EXCEPT !.instructions = "plus", !.effort = "low", !.summaries = TRUE, !.verbosity = "low",
                     !.parallel = TRUE, !.priority = TRUE]
Pro == [Bare EXCEPT !.instructions = "pro", !.effort = "ultra", !.verbosity = "high",
                    !.parallel = FALSE, !.ultra = TRUE]
Small == [Bare EXCEPT !.effort = "none", !.summary = "verbose", !.summaries = TRUE, !.verbose = FALSE]
MCCatalogs == [s \in Scopes |-> IF s = "a" THEN {Plus} ELSE {Pro, Small}]

Open == [base |-> Absent, build |-> FALSE, effort |-> Absent, summary |-> Absent,
          verbosity |-> Absent, parallel |-> Absent, tier |-> Absent]
Full == [Open EXCEPT !.base = "host", !.effort = "low", !.summary = "concise", !.verbosity = "low"]
Ultra == [Open EXCEPT !.effort = "ultra", !.build = TRUE, !.parallel = TRUE]
MCGiven == [r \in Requests |-> IF r = r1 THEN {Open, Full, Ultra} ELSE {Open}]

NoEntry == [own |-> [f \in Fields \cup {"tier"} |-> Absent], variants |-> [v \in {} |-> 0]]
NothingSet == [perModel |-> [n \in {} |-> 0], custom |-> Absent,
               global |-> [f \in Fields \cup {"tier"} |-> Absent]]
Detailed == [NothingSet EXCEPT
               !.perModel = [n \in {"model"} |->
                 [own |-> [NoEntry.own EXCEPT !.effort = "low"],
                  variants |-> [v \in {"variant"} |-> [NoEntry.own EXCEPT !.summary = "none"]]]],
               !.global = [@ EXCEPT !.effort = "high", !.summary = "auto", !.tier = "priority"]]
MCSettings == {[behavior |-> NothingSet, codex |-> TRUE, ultra |-> TRUE],
               [behavior |-> Detailed, codex |-> TRUE, ultra |-> FALSE],
               [behavior |-> NothingSet, codex |-> FALSE, ultra |-> TRUE]}
MCSetting == [behavior |-> NothingSet, codex |-> TRUE, ultra |-> TRUE]
MCNames == <<"model-high", "model">>
MCVariants == <<"variant">>

Stale == [text |-> "stale", stale |-> TRUE]
Text == [text |-> "text", stale |-> FALSE]
Big == [context |-> 300, max |-> Unset, fast |-> FALSE, efforts |-> {"high", "ultra"}, eligible |-> TRUE,
        effort |-> "ultra", template |-> Text, personal |-> TRUE, base |-> Text,
        voices |-> [n \in {"calm"} |-> Stale]]
Little == [Big EXCEPT !.context = 100, !.max = 400, !.fast = TRUE, !.efforts = {"high"}, !.effort = "high",
                      !.voices = [n \in {"default"} |-> Text]]
Older == [Little EXCEPT !.context = 200, !.max = Unset, !.fast = FALSE, !.efforts = @ \cup {"ultra"},
                        !.eligible = FALSE, !.template = Unset]
MCModelCatalogs == {[slug \in {"big", "small"} |-> IF slug = "big" THEN Big ELSE Little],
                    [slug \in {"small"} |-> Older],
                    [slug \in {"big", "other"} |-> [Big EXCEPT !.max = 2000]],
                    [slug \in {"big", "small", "small-fast"} |->
                       IF slug = "big" THEN [Big EXCEPT !.context = Unset, !.max = 200] ELSE Little]}
Offered == [of |-> Unset, owner |-> "host", generated |-> FALSE, context |-> 50, api |-> "proxy",
            on |-> {"high", "ultra"}, off |-> {}, fast |-> TRUE, effort |-> Unset, text |-> Unset]
MCHostModels == {NoModels, [slug \in {"big", "small-1m", "mine"} |-> [Offered EXCEPT !.of = slug]],
                 [slug \in {"other", "big-pro"} |-> [Offered EXCEPT !.of = slug, !.context = Unset]]}
MCCustoms == <<[slug |-> "mine", target |-> "small", on |-> {"ultra"}],
               [slug |-> "other", target |-> "big", on |-> {}]>>
MCBases == {"big", "small", "other", "mine"}
MCKinds == {"fast", "1m", "pro"}
MCAliasOf == [slug \in MCBases |-> [k \in MCKinds |-> slug \o "-" \o k]]
MCAliasSettings == [auth \in {"oauth", "api"} |-> IF auth = "oauth" THEN {"fast", "1m"} ELSE MCKinds]
MCPersonality == [file |-> Unset, name |-> "calm"]

MCIds == {ann, bob}
MCPartials == {part1, part2}
MCOddKeys == {odd}
MCRefreshes == {t1, t2, t3}
MCOwner == [t \in MCRefreshes |-> IF t = t2 THEN bob ELSE ann]
MCExpiries == 1..2
NothingStored == [native |-> [accounts |-> <<>>, active |-> NoKey], codex |-> NoDomain]
Whole(id, r, e) == Account(NoKey, id, part1, id, r, e, TRUE)
Half(partial, r, e, claim) == Account(NoKey, NoId, partial, claim, r, e, TRUE)
In(rows, ms) == FromFlat(rows, [x \in Range(rows) |-> ms[x.part]], NoKey)
Both == [x \in {part1, part2} |-> AuthModes]
Split == [x \in {part1, part2} |-> IF x = part1 THEN {"native"} ELSE {"native", "codex"}]
MCFirstAuths == {NothingStored, FromSingle(Half(part1, t1, 1, ann)), FromSingle(Half(part1, t1, 1, NoId)),
  In(<<Whole(ann, t1, 1), Half(part2, t2, 1, NoId)>>, Both),
  In(<<Half(part1, t1, 1, NoId), Half(part2, t1, 1, NoId)>>, Split),
  In(<<[Half(part2, t1, 1, NoId) EXCEPT !.key = odd], Whole(bob, t2, 1)>>, Split)}
MCLegacyAuths == {NothingStored, FromSingle(Half(part1, t1, 2, NoId)), In(<<Whole(ann, t3, 2), Half(part2, t2, 1, NoId)>>, Split),
  In(<<Half(part2, t1, 1, NoId), Whole(bob, t2, 2)>>, Both)}

\* A request alone meets every change of the catalogs; two of one message, none.
Only(name) == part = name /\ UNCHANGED part
Init == /\ part \in Parts /\ AuthInit /\ ScopeInit /\ ModelInit
        /\ part = "alone" => request[r1] = NewRequest /\ request[r2] = Over
        /\ part = "pair" => request = [r \in Requests |-> NewRequest]
        /\ part \in {"models", "accounts"} =>
             request = [r \in Requests |-> Over] /\ active = "a" /\ catalogs = [s \in Scopes |-> Absent]
        /\ part # "alone" => settings = MCSetting
        /\ part # "models" => ultraOn
        /\ part # "accounts" => stored = NothingStored /\ legacy = NothingStored
Next == \/ Only("alone") /\ ScopeNext /\ UNCHANGED <<authVars, modelVars>>
        \/ Only("pair") /\ ScopeNext /\ UNCHANGED <<catalogs, authVars, modelVars>>
        \/ Only("models") /\ ModelNext /\ UNCHANGED <<authVars, scopeVars>>
        \/ Only("accounts") /\ AuthNext /\ UNCHANGED <<scopeVars, modelVars>>
Spec == Init /\ [][Next]_vars

(* Every variable of the parts has its type, and what is made of the records *)
(* is sound: accounts are named by their tokens, requests are their own, the *)
(* models are the last catalog's.                                            *)
RecordsSound == /\ AuthTypeOK /\ OwnersAreNamed
                /\ ScopeTypeOK /\ RequestSound
                /\ MadeOfCurrentCatalog /\ NoUltraWhenOff

(* No import and no login loses an account or its tokens                     *)
(* (importLegacyInstallData, persistOAuthTokensForMode).                     *)
AccountsAreKept == ImportAddsOnce /\ ImportKeepsTokens /\ LoginWins

(* What the user does to a row of the tools or of the menu is done to that   *)
(* account, in every mode, and to no other (accounts-tools.ts,               *)
(* findDomainAccountIndex).                                                  *)
WritesHitTheirRow == ToggleSticks /\ RemoveRemoves /\ SwitchSticks /\ ToolsSpareOthers /\ MenuHitsShown
=============================================================================
