----------------------------- MODULE MCPackages -----------------------------
(* Small instances of Retimer, Inflight and PluginRegistry for TLC.  The   *)
(* three packages share nothing, so one run takes them in turn: in a       *)
(* behaviour one of them moves and the others keep their initial state.    *)
EXTENDS Retimer, Inflight, PluginRegistry

CONSTANTS byName, byScope, byHand, plain

MCPlugins == {byName, byScope, byHand, plain}

(* Two sources and two instances, one of which bears the name the first of *)
(* the sources is found under.                                             *)
MCSource ==
  [p \in MCPlugins |-> CASE p = byName -> Name("bare", "a")
                         [] p = byScope -> Name("shorthand", "c")
                         [] OTHER -> Instance]

MCOwnName ==
  [p \in MCPlugins |-> CASE p = byHand -> Name("public", "a")
                         [] p = plain -> Name("public", "b")
                         [] OTHER -> NoName]

MCOwnPriority == [p \in MCPlugins |-> IF p = byHand THEN 7 ELSE 0]

MCInstalled == {Name("public", "a"), Name("custom", "c")}

MCBatches == <<<<byName>>, <<byHand, byScope, plain>>>>

VARIABLE subject

packagesVars == <<subject, retimerVars, vars, registryVars>>

PackagesInit ==
  /\ subject \in {"retimer", "inflight", "plugin"}
  /\ RetimerInit /\ (subject # "retimer" => scheduled = MaxDelay)
  /\ Init
  /\ RegistryInit

PackagesNext ==
  \/ subject = "retimer" /\ RetimerNext /\ UNCHANGED <<subject, vars, registryVars>>
  \/ subject = "inflight" /\ Next /\ UNCHANGED <<subject, retimerVars, registryVars>>
  \/ subject = "plugin" /\ RegistryNext /\ UNCHANGED <<subject, retimerVars, vars>>

PackagesSpec == PackagesInit /\ [][PackagesNext]_packagesVars
=============================================================================
