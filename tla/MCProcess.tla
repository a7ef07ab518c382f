------------------------------ MODULE MCProcess ------------------------------
(***************************************************************************)
(* Instances of the parts that keep their state in the memory of one       *)
(* process. They share nothing, so a behaviour is one of a single part:    *)
(* the others keep their initial state. That checks each of them as if it  *)
(* were alone, without the product of their states.                        *)
(***************************************************************************)
EXTENDS PluginLifecycle, AgentExecution, BrowserLogin, DeviceLogin, Configuration

CONSTANTS Parts

VARIABLE part

vars == <<part, lifeVars, agentVars, loginVars, deviceVars, configVars>>

NoEnvironment == [summaries |-> Nothing, thinking |-> Nothing, text |-> Nothing, enabled |-> Nothing,
                  verbosity |-> Nothing, tier |-> Nothing, mode |-> Nothing, spoof |-> Nothing,
                  explicit |-> FALSE]
MCEnvironments == {[NoEnvironment EXCEPT !.text = "low", !.thinking = FALSE, !.spoof = "codex", !.tier = "flex"],
                   [NoEnvironment EXCEPT !.enabled = FALSE, !.mode = "codex", !.explicit = TRUE]}
NoDocument == [wrong |-> FALSE, global |-> Blank, perModel |-> <<>>, customs |-> <<>>, mode |-> Nothing]
MCTemplate == [NoDocument EXCEPT !.mode = "native"]
Model == [own |-> [Blank EXCEPT !.enabled = TRUE], target |-> "model",
          variants |-> [v \in {"high"} |-> [Blank EXCEPT !.tier = "default"]]]
MCDocuments ==
  {[NoDocument EXCEPT !.global = [Blank EXCEPT !.summaries = TRUE, !.thinking = FALSE, !.text = "high"],
                      !.perModel = [m \in {"model"} |-> Model], !.mode = "codex"],
   [NoDocument EXCEPT !.global = [Blank EXCEPT !.verbosity = "high", !.enabled = FALSE],
                      !.customs = [m \in {"mine"} |-> Model]],
   [NoDocument EXCEPT !.customs = [m \in {"mine"} |-> [Model EXCEPT !.own.tier = "fast"]]]}

Init ==
  /\ part \in Parts
  /\ LifeInit /\ AgentInit /\ LoginInit /\ DeviceInit /\ ConfigInit
  /\ part # "agents" => lineage = [s \in Sessions |-> "root"]
  /\ part # "config" => disk = [path \in Paths |-> Nothing]
  /\ part # "device" => device.interval = 1

Only(name) == part = name /\ UNCHANGED part
OnlyLogin == Only("login") /\ UNCHANGED <<lifeVars, agentVars, deviceVars, configVars>>

Next ==
  \/ Only("plugin") /\ LifeNext /\ UNCHANGED <<agentVars, loginVars, deviceVars, configVars>>
  \/ Only("agents") /\ AgentNext /\ UNCHANGED <<lifeVars, loginVars, deviceVars, configVars>>
  \/ OnlyLogin /\ LoginNext
  \/ Only("device") /\ DeviceNext /\ UNCHANGED <<lifeVars, agentVars, loginVars, configVars>>
  \/ Only("config") /\ ConfigNext /\ UNCHANGED <<lifeVars, agentVars, loginVars, deviceVars>>

Spec ==
  /\ Init /\ [][Next]_vars
  /\ \A l \in Logins : WF_vars(OnlyLogin /\ LoginStep(l))
  /\ WF_vars(OnlyLogin /\ Close)

(* Every variable of the parts has its type, and the invariants of the parts
   that relate them hold. *)
ProcessSound ==
  /\ LifeTypeOK /\ AgentTypeOK /\ LoginTypeOK /\ DeviceTypeOK /\ ConfigTypeOK
  /\ RolesAreProven /\ AliasesAgree

(* Every login ends and the server is not left running, in the instance in
   which logins act (scheduleStop, the timers of oauth-server.ts). *)
LoginsSettle == (part = "login") => LoginsEnd /\ ServerCloses
=============================================================================
