----------------------------- MODULE Configuration -----------------------------
(***************************************************************************)
(* The configuration a process runs with.  Starting, it makes sure that a  *)
(* configuration file exists, reads the file there is (the canonical one,  *)
(* else the one of the legacy name), refuses it if any value is wrong,     *)
(* and lets the environment override what it says.  It never reads again.  *)
(*                                                                         *)
(* Several processes start while a user edits.  A file is Nothing, Torn    *)
(* (opened to be written, still empty) or a document; the settings of it   *)
(* are those of requests, the rest has the runtime mode as its example.    *)
(* Deprecated names of a setting are kept next to the new one.             *)
(***************************************************************************)
EXTENDS Integers, Sequences, FiniteSets

CONSTANTS Starts,        \* processes
          Nothing,
          Torn,
          Template,      \* DEFAULT_CODEX_CONFIG_TEMPLATE
          Documents,     \* what a user may write
          Environments,
          MaxEdits

\* The template stands for a file that no user wrote; an environment's flags are flags.
ASSUME DocumentsAssumption == {Nothing, Torn, Template} \cap Documents = {}
ASSUME EnvironmentsAssumption ==
  \A env \in Environments : {env.summaries, env.thinking} \subseteq BOOLEAN \cup {Nothing}
ASSUME SettingsAssumption == MaxEdits \in Nat /\ Nothing \notin {"auto", "none"}

VARIABLES disk,      \* canonical, legacy, explicit -> file
          aside,     \* the quarantined legacy files
          starts, edits,
          calm       \* history: the processes since whose look no file changed
configVars == <<disk, aside, starts, edits, calm>>

Paths == {"canonical", "legacy", "explicit"}
OrElse(value, other) == IF value = Nothing THEN other ELSE value   \* ??

-----------------------------------------------------------------------------
(* One section of settings.                                                *)

SectionFields == {"summary", "summaries", "thinking", "text", "enabled", "verbosity", "tier"}
Blank == [f \in SectionFields |-> Nothing]
Allowed == [summary |-> {"auto", "concise", "detailed", "none"},
            summaries |-> BOOLEAN, thinking |-> BOOLEAN,
            text |-> {"default", "low", "medium", "high", "none"},
            enabled |-> BOOLEAN,
            verbosity |-> {"default", "low", "medium", "high"},
            tier |-> {"default", "auto", "priority", "flex"}]
SectionIsValid(section) == \A f \in SectionFields : section[f] \in Allowed[f] \cup {Nothing}

OfFlag(flag, yes, no) == IF flag = Nothing THEN Nothing ELSE IF flag THEN yes ELSE no
\* deriveReasoningSummaryAlias, deriveVerbosityEnabledAlias, deriveVerbosityAlias
NotNone(value) == IF value = Nothing THEN Nothing ELSE value # "none"
UnlessNone(value) == IF value = "none" THEN Nothing ELSE value

TextOf(section) ==
  LET off == IF section.enabled = FALSE THEN "none" ELSE Nothing
      on == IF section.enabled = TRUE THEN "default" ELSE Nothing
  IN OrElse(section.text, OrElse(off, OrElse(section.verbosity, on)))

\* What a section asks for; the deprecated names count where the new one is missing.
Normalised(section) ==
  LET summary == OrElse(section.summary, OrElse(OfFlag(section.summaries, "auto", "none"),
                                                OfFlag(section.thinking, "auto", "none")))
      text == TextOf(section)
  IN [summary |-> summary, summaries |-> NotNone(summary),
      text |-> text, enabled |-> NotNone(text), verbosity |-> UnlessNone(text),
      tier |-> IF section.tier = "default" THEN "auto" ELSE section.tier]
Silent == Normalised(Blank)

-----------------------------------------------------------------------------
(* A document.                                                             *)

\* A model has settings of its own and of its variants; a custom one needs a target.
ModelIsValid(model) == SectionIsValid(model.own)
                       /\ \A v \in DOMAIN model.variants : SectionIsValid(model.variants[v])
CustomIsValid(model) == ModelIsValid(model) /\ model.target # Nothing
DocumentIsValid(doc) ==
  /\ doc \notin {Nothing, Torn}
  /\ ~doc.wrong                                  \* a known field of another type
  /\ SectionIsValid(doc.global)
  /\ \A m \in DOMAIN doc.perModel : ModelIsValid(doc.perModel[m])
  /\ \A m \in DOMAIN doc.customs : CustomIsValid(doc.customs[m])

\* Sections that say nothing are left out.
Telling(map) == [k \in {k \in DOMAIN map : map[k] # Silent} |-> map[k]]
OfModel(model) == [own |-> Normalised(model.own),
                   variants |-> Telling([v \in DOMAIN model.variants |-> Normalised(model.variants[v])])]
Says(model) == model.own # Silent \/ model.variants # <<>>
PerModel(models) == LET parsed == [m \in DOMAIN models |-> OfModel(models[m])]
                    IN [m \in {m \in DOMAIN parsed : Says(parsed[m])} |-> parsed[m]]
\* A custom model with a blank target is no model.
CustomModels(models) ==
  [m \in {m \in DOMAIN models : models[m].target # ""} |->
     [target |-> models[m].target, behavior |-> OfModel(models[m])]]
Parsed(doc) == [global |-> Normalised(doc.global), perModel |-> PerModel(doc.perModel),
                customs |-> CustomModels(doc.customs), mode |-> doc.mode]
NoConfig == [global |-> Silent, perModel |-> <<>>, customs |-> <<>>, mode |-> Nothing]

-----------------------------------------------------------------------------
(* The environment.                                                        *)

WithText(global, env) ==
  IF TextOf(env) = Nothing THEN global
  ELSE [global EXCEPT !.text = TextOf(env), !.enabled = NotNone(TextOf(env)),
                      !.verbosity = UnlessNone(TextOf(env))]
Overrides(global, env) ==
  LET summaries == OrElse(env.summaries, env.thinking)
      said == WithText(global, env)
      summed == IF summaries = Nothing THEN said
                ELSE [said EXCEPT !.summary = OfFlag(summaries, "auto", "none"), !.summaries = summaries]
  IN [summed EXCEPT !.tier = OrElse(env.tier, @)]

\* The old name of the mode is asked last.
Mode(env, config) == OrElse(env.mode, OrElse(config.mode, OrElse(env.spoof, "native")))
Resolved(env, config) ==
  [config EXCEPT !.global = Overrides(@, env), !.mode = Mode(env, config)]

-----------------------------------------------------------------------------
(* A process starts.                                                       *)

\* `since' is history: the edits before the start.
Idle == [pc |-> "idle", env |-> Nothing, left |-> <<>>, both |-> FALSE,
         settings |-> Nothing, since |-> 0]
Step(p, from, q) == starts[p].pc = from /\ starts' = [starts EXCEPT ![p] = q]
There(path) == disk[path] # Nothing

\* ensureDefaultConfigFile: a file of either name will do.
Ensure(p, env) ==
  /\ Step(p, "idle", [Idle EXCEPT !.pc = IF There("canonical") \/ There("legacy") THEN "load" ELSE "mkdir",
                                  !.env = env, !.since = edits])
  /\ UNCHANGED <<disk, aside, edits, calm>>
\* The file is opened, and truncated, whatever came to be there meanwhile.
OpenFile(p) ==
  /\ Step(p, "mkdir", [starts[p] EXCEPT !.pc = "write"])
  /\ disk' = [disk EXCEPT !["canonical"] = Torn] /\ calm' = {}
  /\ UNCHANGED <<aside, edits>>
WriteFile(p) ==
  /\ Step(p, "write", [starts[p] EXCEPT !.pc = "load"])
  /\ disk' = [disk EXCEPT !["canonical"] = Template] /\ calm' = {}
  /\ UNCHANGED <<aside, edits>>
\* mkdir or writeFile may fail: the process goes on without a file.
EnsureFails(p) ==
  /\ starts[p].pc \in {"mkdir", "write"}
  /\ Step(p, starts[p].pc, [starts[p] EXCEPT !.pc = "load"])
  /\ UNCHANGED <<disk, aside, edits, calm>>

Candidates == IF ~There("legacy") THEN <<"canonical">>
              ELSE IF There("canonical") THEN <<"canonical", "legacy">> ELSE <<"legacy">>
Look(p) ==
  /\ Step(p, "load",
          [starts[p] EXCEPT !.pc = "read",
             !.left = IF starts[p].env.explicit THEN <<"explicit">> ELSE Candidates,
             !.both = ~starts[p].env.explicit /\ There("canonical") /\ There("legacy")])
  /\ calm' = calm \cup {p}
  /\ UNCHANGED <<disk, aside, edits>>

Ready(p, config) == Step(p, "read", [starts[p] EXCEPT !.pc = "ready", !.left = <<>>, !.both = FALSE,
                                                      !.since = 0, !.settings = Resolved(starts[p].env, config)])
\* Faulty: a file that is wrong ends the search.
SkipEnds(p) ==
  /\ starts[p].left # <<>> /\ ~DocumentIsValid(disk[Head(starts[p].left)])
  /\ Ready(p, NoConfig)
  /\ UNCHANGED <<disk, aside, edits, calm>>
\* A file that is missing, torn or wrong is skipped as a whole.
Skip(p) ==
  /\ starts[p].left # <<>> /\ ~DocumentIsValid(disk[Head(starts[p].left)])
  /\ Step(p, "read", [starts[p] EXCEPT !.left = Tail(@)])
  /\ UNCHANGED <<disk, aside, edits, calm>>
\* With the canonical file read, a legacy one that was there is put aside, if it can be.
Read(p) ==
  /\ starts[p].left # <<>>
  /\ LET path == Head(starts[p].left)
     IN /\ DocumentIsValid(disk[path])
        /\ Ready(p, Parsed(disk[path]))
        /\ \/ /\ starts[p].both /\ path = "canonical" /\ There("legacy")
              /\ aside' = aside \cup {disk["legacy"]}
              /\ disk' = [disk EXCEPT !["legacy"] = Nothing] /\ calm' = {}
           \/ UNCHANGED <<disk, aside, calm>>
  /\ UNCHANGED edits
GiveUp(p) ==
  /\ starts[p].left = <<>>
  /\ Ready(p, NoConfig)
  /\ UNCHANGED <<disk, aside, edits, calm>>

\* A process that ends, wherever it is, may be started again.
Exit(p) ==
  /\ starts[p].pc # "idle"
  /\ starts' = [starts EXCEPT ![p] = Idle]
  /\ UNCHANGED <<disk, aside, edits, calm>>
Edit(path, doc) ==
  /\ edits < MaxEdits
  /\ edits' = edits + 1
  /\ disk' = [disk EXCEPT ![path] = doc] /\ calm' = {}
  /\ UNCHANGED <<aside, starts>>

ConfigInit ==
  /\ disk \in {d \in [Paths -> Documents \cup {Nothing}] : d["explicit"] = Nothing}
  /\ aside = {} /\ edits = 0 /\ calm = {}
  /\ starts = [p \in Starts |-> Idle]
StartStep(p) == \/ \E env \in Environments : Ensure(p, env)
                \/ OpenFile(p) \/ WriteFile(p) \/ EnsureFails(p)
                \/ Look(p) \/ Skip(p) \/ Read(p) \/ GiveUp(p)
ConfigNext == \/ \E p \in Starts : StartStep(p) \/ Exit(p)
              \/ \E path \in Paths, doc \in Documents \cup {Nothing} : Edit(path, doc)
ConfigSpec == ConfigInit /\ [][ConfigNext]_configVars

-----------------------------------------------------------------------------
ConfigTypeOK ==
  /\ \A path \in Paths : disk[path] \in Documents \cup {Nothing, Torn, Template}
  /\ aside \subseteq Documents \cup {Torn, Template}
  /\ edits \in 0..MaxEdits /\ calm \subseteq Starts
  /\ \A p \in Starts : starts[p].pc \in {"idle", "mkdir", "write", "load", "read", "ready"}

\* What the files say: the first of the canonical and the legacy one that is right as a
\* whole, or the explicit one alone.
Best(files, explicit) ==
  LET Of(path, other) == IF DocumentIsValid(files[path]) THEN Parsed(files[path]) ELSE other
  IN IF explicit THEN Of("explicit", NoConfig) ELSE Of("canonical", Of("legacy", NoConfig))

\* A process whose files nobody changes while it loads runs with the best of them: no wrong or
\* torn file hides a right one (loadConfigFile), whoever else starts or edits.
UsesWhatIsThere ==
  [][\A p \in Starts :
       starts[p].pc = "read" /\ starts'[p].pc = "ready" /\ p \in calm =>
         starts'[p].settings = Resolved(starts[p].env, Best(disk, starts[p].env.explicit))]_configVars

\* The template is written only where no file of the user's was when the process
\* started (ensureDefaultConfigFile).  A file the user makes meanwhile is overwritten:
\* see the hazards.
TemplateOnlyWhereNone ==
  [][\A p \in Starts :
       starts[p].pc = "mkdir" /\ starts'[p].pc = "write" /\ edits = starts[p].since =>
         {disk["canonical"], disk["legacy"]} \cap Documents = {}]_configVars

\* The user's files decide, however starts, edits and crashes interleave (loadConfigFile,
\* ensureDefaultConfigFile).
ConfigurationIsTheUsers == UsesWhatIsThere /\ TemplateOnlyWhereNone

\* The deprecated names of a setting say what the new ones say, whatever the file said
\* by which name and the environment by which: getReasoningSummariesOverride and
\* others still read them.
AliasesAgree ==
  \A p \in Starts : starts[p].pc = "ready" =>
    LET global == starts[p].settings.global
    IN /\ global.summaries = NotNone(global.summary)
       /\ global.enabled = NotNone(global.text)
       /\ global.verbosity = UnlessNone(global.text)
=============================================================================
