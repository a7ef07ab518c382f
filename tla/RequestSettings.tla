---------------------------- MODULE RequestSettings ----------------------------
(***************************************************************************)
(* What a request asks of the model: the values the host gave, those of    *)
(* the configuration and the defaults of the model in the catalog, merged  *)
(* by chat.params; and what a change of account makes of them when the     *)
(* request is sent.  Operators only: RequestScope runs them.               *)
(*                                                                         *)
(* Absent is undefined.  A text of instructions is the catalog's, the      *)
(* host's or none, has maybe the tool names of a build agent, and maybe    *)
(* the paragraph that tells an Ultra model to delegate.                    *)
(***************************************************************************)
EXTENDS Integers, Sequences, FiniteSets, SequencesExt

CONSTANT Absent

Fields == {"effort", "summary", "verbosity", "parallel"}
Summaries == {"auto", "concise", "detailed"}
NoText == [base |-> Absent, built |-> FALSE, delegates |-> FALSE]

\* A model the catalog says nothing about.
Bare == [instructions |-> Absent, effort |-> Absent, summary |-> Absent, summaries |-> FALSE,
         verbosity |-> Absent, verbose |-> TRUE, parallel |-> Absent, priority |-> FALSE,
         ultra |-> FALSE]

\* The first value of a `??' chain that is set.
Chosen(values) == LET i == SelectInSeq(values, LAMBDA v : v # Absent)
                  IN IF i = 0 THEN Absent ELSE values[i]

-----------------------------------------------------------------------------
(* The configuration: entries of models with their variants, the custom    *)
(* model's own, and the global one.                                        *)

InEntry(entry, variants, field) ==
  Chosen([i \in DOMAIN variants |->
            IF variants[i] \in DOMAIN entry.variants THEN entry.variants[variants[i]][field]
            ELSE Absent]
         \o <<entry.own[field]>>)

\* Every name is looked for as it is, then without its suffix of effort.
Override(entries, names, variants, field) ==
  Chosen([i \in DOMAIN names |-> IF names[i] \in DOMAIN entries
                                 THEN InEntry(entries[names[i]], variants, field)
                                 ELSE Absent])

\* perModel, customModels, global.
Configured(settings, names, variants) ==
  [field \in Fields \cup {"tier"} |->
     Chosen(<<Override(settings.perModel, names, variants, field),
              IF settings.custom = Absent THEN Absent ELSE InEntry(settings.custom, variants, field),
              settings.global[field]>>)]

\* Priority where the catalog is known not to offer it is no tier, not the next one's.
Tier(given, configured, model) ==
  LET denied == configured = "priority" /\ model # Absent /\ ~model.priority
  IN CASE given # Absent -> given
       [] given = Absent /\ (denied \/ configured = "auto") -> Absent
       [] OTHER -> configured

-----------------------------------------------------------------------------
(* The options chat.params leaves.                                         *)

Reasons(effort) == effort \notin {Absent, "none"}

\* The first source that says anything of the summary, if it is no summary at all.
SummarySource(given, reasons, configured, model) ==
  Chosen(<<given>> \o
         (IF ~reasons THEN <<>> ELSE
            <<configured>> \o
            (IF ~model.summaries THEN <<>>
             ELSE <<IF model.summary = Absent THEN "auto" ELSE model.summary>>)))

AsksEncrypted(effort, summary, model) ==
  Reasons(effort) /\ (summary \notin {Absent, "none"} \/ model.summaries)

\* Ultra is max where it is off.
Effort(effort, ultra) == IF effort = "ultra" /\ ~ultra THEN "max" ELSE effort

ApplyDefaults(given, configured, known, settings) ==
  LET model == IF known = Absent THEN Bare ELSE known
      effort == Effort(Chosen(<<given.effort, configured.effort, model.effort>>), settings.ultra)
      source == SummarySource(given.summary, Reasons(effort), configured.summary, model)
      summary == CASE source \in Summaries -> source
                   [] source \notin Summaries /\ "none" \in {given.summary, configured.summary} -> Absent
                   [] OTHER -> given.summary
      verbosity == IF ~model.verbose \/ configured.verbosity = "none" THEN Absent
                   ELSE Chosen(<<given.verbosity,
                                 IF configured.verbosity = "default" THEN Absent
                                 ELSE configured.verbosity,
                                 model.verbosity>>)
      rendered == model.instructions # Absent /\ (settings.codex \/ given.base = Absent)
  IN [text |-> [NoText EXCEPT !.base = IF rendered THEN model.instructions ELSE given.base],
      effort |-> effort, summary |-> summary, verbosity |-> verbosity,
      parallel |-> Chosen(<<given.parallel, configured.parallel, model.parallel, TRUE>>),
      tier |-> Tier(given.tier, configured.tier, known),
      encrypted |-> AsksEncrypted(effort, summary, model),
      rendered |-> rendered]

\* The fields a change of account may change: those the host did not set.
Injected(given, options) ==
  {f \in Fields : given[f] = Absent /\ options[f] # Absent}
    \cup (IF options.rendered THEN {"instructions"} ELSE {})

-----------------------------------------------------------------------------
(* Ultra: an effort of its own for the user, another one on the wire, and  *)
(* instructions to delegate.                                               *)

ResolveUltra(effort, model, role) ==
  LET selected == effort = "ultra"
      eligible == selected /\ model # Absent /\ model.ultra
  IN [selected |-> selected, eligible |-> eligible, role |-> role,
      policy |-> CASE role = "auxiliary" -> "disabled"
                   [] role # "auxiliary" /\ eligible -> "proactive"
                   [] OTHER -> "explicit_request_only"]

\* The header is believed only if its parts agree.
ParseUltra(state) ==
  IF /\ state # Absent
     /\ state.selected
     /\ state.policy = "proactive" => state.eligible
     /\ state.eligible /\ state.role # "auxiliary" => state.policy = "proactive"
     /\ (state.policy = "disabled") <=> (state.role = "auxiliary")
  THEN state ELSE Absent

\* In codex mode the text tells to delegate, and a build agent's the host's tool names.
Instruct(text, ultra, build, settings) ==
  [text EXCEPT !.delegates = settings.codex /\ settings.ultra /\ ultra.selected
                             /\ ultra.eligible /\ ultra.policy # "disabled",
               !.built = settings.codex /\ build /\ text.base # Absent]

-----------------------------------------------------------------------------
(* The change of account: a field chat.params set is changed if it still   *)
(* is the default of the catalog before.                                   *)

DefaultSummary(model) ==
  IF ~model.summaries \/ model.summary = "none" THEN Absent
  ELSE IF model.summary = Absent THEN "auto" ELSE model.summary

Swap(injected, field, value, old, new) ==
  IF field \in injected /\ value # Absent /\ value = old THEN new ELSE value

SwapText(text, injected, old, new) ==
  IF "instructions" \in injected /\ ~text.built
  THEN [text EXCEPT !.base = Swap(injected, "instructions", @, old, new)] ELSE text

SwapSummary(p, injected, old, new) ==
  LET before == DefaultSummary(old) after == DefaultSummary(new)
      missing == "summary" \in injected /\ p.summary = Absent /\ before = Absent
                 /\ old.effort # Absent /\ p.effort = old.effort
  IN IF missing THEN after ELSE Swap(injected, "summary", p.summary, before, after)

SyncTo(p, injected, old, next) ==
  LET effort == Swap(injected, "effort", p.effort, old.effort, next.effort)
      summary == SwapSummary(p, injected, old, next)
      before == AsksEncrypted(p.effort, p.summary, old)
      after == AsksEncrypted(effort, summary, next)
      changed == effort # p.effort \/ summary # p.summary
  IN [p EXCEPT !.text = SwapText(@, injected, old.instructions, next.instructions),
               !.effort = effort, !.summary = summary,
               !.verbosity = Swap(injected, "verbosity", @, old.verbosity, next.verbosity),
               !.parallel = Swap(injected, "parallel", @, old.parallel, next.parallel),
               !.encrypted = CASE before /\ ~after /\ changed -> FALSE
                               [] ~before /\ after -> TRUE
                               [] OTHER -> @]

\* Where the next catalog lacks the model, what the old one gave is cleared.
ClearScope(p, injected, old) == SyncTo(p, injected, old, Bare)

\* Without the old model nothing is changed.
SyncScope(p, injected, old, new) ==
  CASE old = Absent -> p
    [] old # Absent /\ new = Absent -> ClearScope(p, injected, old)
    [] OTHER -> SyncTo(p, injected, old, new)

\* validateReasoningSummaryPayload: a summary no server takes.
FatalSummary(p, configured, model) ==
  SummarySource(p.summary, Reasons(p.effort), configured.summary, model)
    \notin Summaries \cup {Absent, "none"}

\* What is sent, from the options, for an account whose catalog has `new'.
\* A `fatal' one is not sent.
Transform(options, configured, settings, injected, ultraState, old, new) ==
  LET state == IF settings.ultra THEN ParseUltra(ultraState) ELSE Absent
      effort == IF state # Absent THEN "ultra" ELSE options.effort
      ultra == ResolveUltra(effort, new, IF state = Absent THEN "root" ELSE state.role)
      wired == IF effort = "ultra" /\ {options.effort, options.summary} # {Absent} THEN "max"
               ELSE options.effort
      synced == SyncScope([options EXCEPT !.effort = wired], injected, old, new)
  IN [text |-> [synced.text EXCEPT !.delegates = @ /\ settings.ultra
                                                 /\ (effort = "ultra" => ultra.eligible)],
      effort |-> synced.effort, summary |-> synced.summary, verbosity |-> synced.verbosity,
      parallel |-> synced.parallel, tier |-> synced.tier, encrypted |-> synced.encrypted,
      fatal |-> FatalSummary(synced, configured, IF new = Absent THEN Bare ELSE new)]
=============================================================================
