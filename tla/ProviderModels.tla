---------------------------- MODULE ProviderModels ----------------------------
(***************************************************************************)
(* The models the host offers.  The loader keeps the host's map of models  *)
(* and writes the catalog of the active account into it, again and again:  *)
(* an entry for every model of the catalog, the user's custom models,      *)
(* which are copies of others, and generated aliases (fast, 1m, pro) of    *)
(* what is there; what the catalog does not allow is dropped.  The config  *)
(* hook writes variants, custom models and aliases into the configuration. *)
(*                                                                         *)
(* The map is the only memory: an application starts from what the one     *)
(* before left.  Names, capabilities, prices and order are left out.       *)
(***************************************************************************)
EXTENDS Integers, Sequences, FiniteSets, SequencesExt

CONSTANTS Unset,
          ModelCatalogs,   \* the catalogs an account may have: slug -> model
          HostModels,      \* the maps a host may offer: slug -> entry
          Customs,         \* customModels, in order: [slug, target, on]
          Bases, Kinds,    \* slugs without a suffix, and the suffixes
          AliasOf,         \* their slug with the suffix
          Official,        \* the slugs of GPT-5.6
          AliasSettings,   \* the kinds wanted, of an OAuth and an API-key login
          Personality,
          VariantKeys,     \* REASONING_VARIANT_KEYS
          UltraChoices     \* whether Ultra is enabled
ModelFields == {"of", "owner", "generated", "context", "api", "on", "off", "fast", "effort", "text"}
\* The host knows nothing of the plugin's defaults, and no two aliases have one slug.
ASSUME ModelConstants ==
  /\ Unset # "ultra" /\ Customs \in Seq(Range(Customs))
  /\ \A map \in HostModels : \A slug \in DOMAIN map :
       DOMAIN map[slug] = ModelFields /\ map[slug].owner = "host" /\ map[slug].effort = Unset
  /\ \A b1, b2 \in Bases, k1, k2 \in Kinds :
       AliasOf[b1][k1] = AliasOf[b2][k2] => b1 = b2 /\ k1 = k2

VARIABLES ultraOn, models, linked, current, config
modelVars == <<ultraOn, models, linked, current, config>>

OfficialContext == 1050
NoModels == [slug \in {} |-> Unset]

-----------------------------------------------------------------------------
(* A model of the catalog.                                                 *)

\* A file of the user's, the model's text of that name, or its default.
Voice(model) ==
  LET named(n) == IF n \in DOMAIN model.voices THEN model.voices[n] ELSE Unset
  IN CASE Personality.file # Unset -> Personality.file
       [] Personality.file = Unset /\ named(Personality.name) # Unset -> named(Personality.name)
       [] OTHER -> named("default")
\* Instructions that are for another harness are not used: then the base ones are.
Safe(text) == IF text = Unset \/ text.stale THEN Unset ELSE text
Instructions(model) ==
  LET rendered == IF model.template = Unset \/ ~model.personal THEN model.template
                  ELSE [text |-> <<model.template.text, Voice(model)>>,
                        stale |-> model.template.stale
                                  \/ (Voice(model) # Unset /\ Voice(model).stale)]
  IN IF Safe(rendered) # Unset THEN Safe(rendered) ELSE Safe(model.base)

Supported(model) == {e \in model.efforts : e = "ultra" => ultraOn /\ model.eligible}
Built(slug, model, before) ==
  [of |-> slug, owner |-> "catalog", generated |-> FALSE, context |-> model.context,
   api |-> IF before = Unset THEN "codex" ELSE before.api,
   on |-> Supported(model), off |-> {}, fast |-> FALSE,
   effort |-> IF model.effort = "ultra" /\ ~ultraOn THEN "max" ELSE model.effort,
   text |-> Instructions(model)]

Under(map, slug) == IF slug \in DOMAIN map THEN map[slug] ELSE Unset
\* A model without a context window is not offered.
FromCatalog(map, catalog) ==
  LET offered == {slug \in DOMAIN catalog : catalog[slug].context # Unset}
  IN [slug \in (DOMAIN map \ DOMAIN catalog) \cup offered |->
        IF slug \in offered THEN Built(slug, catalog[slug], Under(map, slug)) ELSE map[slug]]

-----------------------------------------------------------------------------
(* Custom models.                                                          *)

Without(map, slugs) == [slug \in DOMAIN map \ slugs |-> map[slug]]
\* A copy of its target as that is now; a variant the configuration disabled stays so.
Custom(map, custom) ==
  IF custom.target \notin DOMAIN map THEN Without(map, {custom.slug})
  ELSE LET target == map[custom.target]
       IN [slug \in DOMAIN map \cup {custom.slug} |->
             IF slug # custom.slug THEN map[slug]
             ELSE [target EXCEPT !.owner = "custom", !.of = custom.target,
                                 !.on = @ \cup (custom.on \ target.off)]]
WithCustoms(map) ==
  LET upTo[n \in 0..Len(Customs)] == IF n = 0 THEN map ELSE Custom(upTo[n - 1], Customs[n])
  IN upTo[Len(Customs)]
CustomSlugs == {Customs[i].slug : i \in DOMAIN Customs}

-----------------------------------------------------------------------------
(* Aliases.                                                                *)

MaxContext(slug, model) ==
  CASE model # Unset /\ model.max # Unset -> model.max
    [] slug \in Official /\ (model = Unset \/ model.max = Unset) -> OfficialContext
    [] OTHER -> Unset
\* The kinds of alias a model gets.
Wanted(slug, base, model, kinds) ==
  LET max == MaxContext(slug, model)
      normal == IF model # Unset /\ model.context # Unset THEN model.context ELSE base.context
      longer == max # Unset /\ (slug \in Official \/ (IF normal = Unset THEN TRUE ELSE max > normal))
  IN {k \in kinds : CASE k = "fast" -> base.fast \/ (model # Unset /\ model.fast)
                      [] k = "1m"   -> longer
                      [] k = "pro"  -> slug \in Official}

\* The aliases of before are dropped.
Kept(map) == Without(map, {slug \in DOMAIN map : map[slug].generated})

\* A model of an alias's slug stays, but for the limit of a 1m one, which is set
\* whoever owns it.
Aliased(map, catalog, kinds) ==
  LET kept == Kept(map)
      slugOf(w) == AliasOf[w[1]][w[2]]
      wanted == {w \in (DOMAIN kept \cap Bases) \X Kinds :
                   w[2] \in Wanted(w[1], kept[w[1]], Under(catalog, w[1]), kinds)}
      made == {w \in wanted : slugOf(w) \notin DOMAIN kept \cup DOMAIN catalog}
      copied == [slug \in DOMAIN kept \cup {slugOf(w) : w \in made} |->
                   IF slug \in DOMAIN kept THEN kept[slug]
                   ELSE LET w == CHOOSE w \in made : slugOf(w) = slug
                        IN [kept[w[1]] EXCEPT !.owner = "alias", !.generated = TRUE, !.of = w[1]]]
      long(slug) == {w \in wanted : w[2] = "1m" /\ slugOf(w) = slug}
  IN [allowed |-> {slugOf(w) : w \in wanted},
      map |-> [slug \in DOMAIN copied |->
                 IF long(slug) = {} THEN copied[slug]
                 ELSE LET w == CHOOSE w \in long(slug) : TRUE
                      IN [copied[slug] EXCEPT !.context = MaxContext(w[1], Under(catalog, w[1]))]]]

-----------------------------------------------------------------------------
(* The models of the host.                                                 *)

Hidden(map) ==
  [slug \in DOMAIN map |-> IF ultraOn THEN map[slug]
                           ELSE [map[slug] EXCEPT !.on = @ \ {"ultra"}]]

\* applyCodexCatalogToProviderModels: no catalog changes nothing.
Applied(map, catalog) ==
  IF catalog = Unset THEN map
  ELSE LET custom == WithCustoms(FromCatalog(map, catalog))
           aliased == Aliased(custom, catalog, AliasSettings["oauth"])
           allowed == DOMAIN catalog \cup aliased.allowed \cup CustomSlugs
       IN Without(Hidden(aliased.map), DOMAIN aliased.map \ allowed)

\* The loader of an OAuth login keeps the map for what comes.
LoadOAuth(host) ==
  /\ ~linked
  /\ linked' = TRUE
  /\ models' = Hidden(host)
  /\ UNCHANGED <<ultraOn, current, config>>
\* With an API key there is no catalog.
LoadKey(host) ==
  /\ ~linked
  /\ models' = Aliased(Hidden(host), NoModels, AliasSettings["api"]).map
  /\ UNCHANGED <<ultraOn, linked, current, config>>
\* Another account is active, or its catalog was fetched.
Apply(catalog) ==
  /\ linked
  /\ models' = Applied(models, catalog)
  /\ current' = IF catalog = Unset THEN current ELSE catalog
  /\ UNCHANGED <<ultraOn, linked, config>>

-----------------------------------------------------------------------------
(* The configuration.                                                      *)

NewEntry(slug) == [of |-> slug, owner |-> "config", generated |-> FALSE, context |-> Unset,
                   api |-> "codex", on |-> {}, off |-> {}, fast |-> FALSE, effort |-> Unset,
                   text |-> Unset]
\* Every variant is either offered or disabled.
Overridden(map, catalog) ==
  LET told == {slug \in DOMAIN catalog : catalog[slug].efforts # {}}
      entry(slug) == IF slug \in DOMAIN map THEN map[slug] ELSE NewEntry(slug)
      on(slug) == Supported(catalog[slug])
      off(slug) == (VariantKeys \cup catalog[slug].efforts) \ on(slug)
  IN [slug \in DOMAIN map \cup told |->
        IF slug \notin told THEN map[slug]
        ELSE [entry(slug) EXCEPT !.on = (@ \cup on(slug)) \ off(slug),
                                 !.off = (@ \cup off(slug)) \ on(slug)]]
Disabled(map) ==
  [slug \in DOMAIN map |-> IF ultraOn \/ "ultra" \notin map[slug].on THEN map[slug]
                           ELSE [map[slug] EXCEPT !.on = @ \ {"ultra"}, !.off = @ \cup {"ultra"}]]

\* The config hook; a catalog that cannot be had leaves the user's configuration.
Configure(given, catalog, failed) ==
  LET hidden == Disabled(given)
      told == IF catalog = Unset THEN NoModels ELSE catalog
      custom == WithCustoms(Overridden(hidden, told))
  IN /\ config' = IF failed THEN hidden
                  ELSE Disabled(Aliased(custom, told, AliasSettings["oauth"]).map)
     /\ UNCHANGED <<ultraOn, models, linked, current>>

ModelInit == /\ ultraOn \in UltraChoices
             /\ models = NoModels /\ config = NoModels
             /\ linked = FALSE /\ current = Unset
ModelNext ==
  \/ \E host \in HostModels : LoadOAuth(host) \/ LoadKey(host)
  \/ \E catalog \in ModelCatalogs \cup {Unset} : Apply(catalog)
  \/ \E given \in HostModels, catalog \in ModelCatalogs \cup {Unset}, failed \in BOOLEAN :
       Configure(given, catalog, failed)

-----------------------------------------------------------------------------
\* What a catalog makes of an empty map, without the models of the host.
Afresh(catalog) == Applied(NoModels, catalog)
SameModel(a, b) == [a EXCEPT !.api = Unset] = [b EXCEPT !.api = Unset]
Ours == {slug \in DOMAIN models : models[slug].owner # "host"}

\* After any sequence of catalogs a model that comes from the last one is what that
\* one alone makes of it: no copy of what it was in an earlier account's catalog and
\* no alias of that is left, and none is missing (applyCodexCatalogToProviderModels
\* starts from the map it left before).  A slug the host has a model for is the host's.
MadeOfCurrentCatalog ==
  linked /\ current # Unset =>
    LET fresh == Afresh(current)
    IN /\ \A slug \in Ours : models[slug].of \in DOMAIN current =>
            slug \in DOMAIN fresh /\ SameModel(models[slug], fresh[slug])
       /\ DOMAIN fresh \subseteq DOMAIN models

\* With Ultra off no model offers it and none has it as its default, however it was
\* brought in: by the host, by a catalog, by the user's own variants of a custom model.
NoUltraWhenOff ==
  ~ultraOn => /\ \A slug \in DOMAIN models : "ultra" \notin models[slug].on
              /\ \A slug \in Ours : models[slug].effort # "ultra"
              /\ \A slug \in DOMAIN config : "ultra" \notin config[slug].on

\* docs/configuration.md:246: "Account-scoped catalog responses remain authoritative."
\* What the plugin offers is served by a model of the active account's catalog.
CatalogIsAuthoritative ==
  linked /\ current # Unset => \A slug \in Ours : models[slug].of \in DOMAIN current
=============================================================================
