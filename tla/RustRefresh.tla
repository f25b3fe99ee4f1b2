----------------------------- MODULE RustRefresh -----------------------------
(***************************************************************************)
(* The configuration of a Rust proxy under refreshes. They are one after   *)
(* another: apply_config, add_to_config and del_from_config hold App.config *)
(* from the first look at it to the last change (rust/app.rs:340-454).     *)
(***************************************************************************)
EXTENDS RustConfig, FiniteSets

CONSTANTS
  InitConfig,  \* the configuration of the process
  Inputs       \* those of requests

ASSUME ConfigAssumption == \A cfg \in {InitConfig} \union Inputs : IsConfig(cfg)
ASSUME InitAssumption == ProxyParses(InitConfig) /\ RoutesParse(InitConfig)

VARIABLES
  config,      \* App.config
  paths,       \* App.paths
  last         \* the refresh that was answered last

vars == <<config, paths, last>>

Init ==
  /\ config = InitConfig
  /\ paths = MakeProxyPaths(InitConfig)
  /\ last = [action |-> "set", cfg |-> InitConfig]

Publish(cfg) == config' = cfg /\ paths' = MakeProxyPaths(cfg)

\* A configuration that does not parse is refused and changes nothing.
ApplyConfig(cfg) ==
  /\ ProxyParses(cfg) /\ RoutesParse(cfg)
  /\ Publish(cfg)
  /\ last' = [action |-> "set", cfg |-> cfg]

\* (Mutant: it is stored before the routes are made, which may fail.)
AddBeforeRoutes(cfg) ==
  /\ ProxyParses(cfg)
  /\ config' = AddConfig(config, cfg)
  /\ IF RoutesParse(config')
       THEN paths' = MakeProxyPaths(config') /\ last' = [action |-> "add", cfg |-> cfg]
       ELSE UNCHANGED <<paths, last>>

AddToConfig(cfg) ==
  /\ ProxyParses(cfg) /\ RoutesParse(AddConfig(config, cfg))
  /\ Publish(AddConfig(config, cfg))
  /\ last' = [action |-> "add", cfg |-> cfg]

\* What is to be deleted need not parse.
DelFromConfig(cfg) ==
  /\ ProxyParses(cfg) /\ RoutesParse(DelConfig(config, cfg))
  /\ Publish(DelConfig(config, cfg))
  /\ last' = [action |-> "del", cfg |-> cfg]

Next ==
  \E cfg \in Inputs :
    \/ ApplyConfig(cfg)
    \/ AddToConfig(cfg)
    \/ DelFromConfig(cfg)

Spec == Init /\ [][Next]_vars

-----------------------------------------------------------------------------
(* Properties. *)

\* The routes of a configuration without their order.
RoutesOf(ps) == UNION {{<<p, a>> : a \in ToSet(ps[p])} : p \in DOMAIN ps}
Asked(cfg)   == RoutesOf(MakeProxyPaths(cfg))

\* The configuration of a process parses, although what a del names need not and
\* an add is only refused when its routes are made: one that did not would make
\* every later add and del fail. The routes are the configuration's.
TypeOK ==
  /\ IsConfig(config)
  /\ ProxyParses(config) /\ RoutesParse(config)
  /\ paths = MakeProxyPaths(config)

DistinctIn(list) ==
  \A i, j \in DOMAIN list : ToAddr(list[i]) = ToAddr(list[j]) => i = j

\* A path of the table that had an address has one or is not in it any more:
\* with its last address it is removed, so that requests get 404 and not 503
\* (del_path, config.rs:245-248).
DelLeavesNoBarren ==
  [][last'.action = "del" =>
       \A p \in DOMAIN config.paths \intersect DOMAIN config'.paths :
         config.paths[p].list # <<>> => config'.paths[p].list # <<>>]_vars

\* After an add, what was routed and what was asked for is routed, and nothing
\* else, in whichever of its two forms either is written; and no list repeats an
\* address that did not, however it is spelt and however often it is added
\* (add_unique_addr, config.rs:363-403): each request would try it twice.
AddIsUnion ==
  [][last'.action = "add" =>
       /\ RoutesOf(paths') = RoutesOf(paths) \union Asked(last'.cfg)
       /\ \A p \in DOMAIN config.paths :
            DistinctIn(config.paths[p].list) => DistinctIn(config'.paths[p].list)]_vars

\* A del routes nothing new.
DelOnlyRemoves ==
  [][last'.action = "del" => RoutesOf(paths') \subseteq RoutesOf(paths)]_vars
=============================================================================
