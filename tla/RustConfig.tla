------------------------------ MODULE RustConfig ------------------------------
(***************************************************************************)
(* The configuration of the Rust proxy as values (rust/config.rs): what    *)
(* add and del do to it, and the routes that are made of it.               *)
(*                                                                         *)
(* An address is written in a configuration as a text, which names a host  *)
(* and may have a prefix; a text that does not parse has a host of BadHost.*)
(***************************************************************************)
EXTENDS Naturals, Sequences, SequencesExt

CONSTANTS
  Host,      \* socket addresses, and what does not parse as one
  BadHost,   \* the latter
  Path       \* request paths

ASSUME HostAssumption == BadHost \subseteq Host

Prefix == {"", "http://", "https://"}
Text   == [host : Host, prefix : Prefix]

\* ConfigPathAddr: Simple has no flag, and is not secure.
PathAddr == [text : Text, secure : BOOLEAN]

\* Addr::from_str, and what to_addr makes of it: the flag beside the text is
\* used and the prefix of the text is not.
Parses(a) == a.text.host \notin BadHost
ToAddr(a) == [host |-> a.text.host, secure |-> a.secure]

AddrEq(a, b) == Parses(a) /\ Parses(b) /\ ToAddr(a) = ToAddr(b)

\* ConfigPathAddrs: a Single, which has one element, or a Multi.
PathAddrs == {pa \in [single : BOOLEAN, list : Seq(PathAddr)] :
                pa.single => Len(pa.list) = 1}
Single(a)   == [single |-> TRUE, list |-> <<a>>]
Multi(list) == [single |-> FALSE, list |-> list]

\* ConfigAddr: the other way to write routes, an address and its paths.
ConfigAddr == [text : Text, secure : BOOLEAN, paths : Seq(Path)]
SameAddr(c, d) == c.text = d.text /\ c.secure = d.secure

\* Config: proxy.addr, the table of paths (a function) and the list of addrs.
IsConfig(cfg) ==
  /\ cfg \in [proxy : PathAddrs, paths : {cfg.paths}, addrs : Seq(ConfigAddr)]
  /\ DOMAIN cfg.paths \subseteq Path
  /\ cfg.paths \in [DOMAIN cfg.paths -> PathAddrs]

EmptyConfig == [proxy |-> Multi(<<>>), paths |-> <<>>, addrs |-> <<>>]

\* Vec::retain: what is at the places of keep, in its order.
Retain(list, keep) ==
  LET kept[i \in 0 .. Len(list)] ==
        IF i = 0 THEN <<>>
        ELSE IF i \in keep THEN Append(kept[i - 1], list[i]) ELSE kept[i - 1]
  IN kept[Len(list)]

-----------------------------------------------------------------------------
(* add. *)

AddUniqueAddr(old, a) ==
  IF \E i \in DOMAIN old.list : AddrEq(old.list[i], a)
    THEN old ELSE Multi(Append(old.list, a))

AddUniqueAddrs(old, new) == FoldLeft(AddUniqueAddr, old, new.list)

\* add_path for each path of new.
AddPaths(old, new) ==
  [p \in DOMAIN old \union DOMAIN new |->
     IF p \notin DOMAIN new THEN old[p]
     ELSE IF p \notin DOMAIN old THEN new[p]
     ELSE AddUniqueAddrs(old[p], new[p])]

PushPath(list, p) == IF p \in ToSet(list) THEN list ELSE Append(list, p)

FirstSame(addrs, c) == SelectInSeq(addrs, LAMBDA o : SameAddr(o, c))

\* (Mutant: an address that is listed gets no more paths.)
KeepAddr(addrs, c) == IF FirstSame(addrs, c) = 0 THEN Append(addrs, c) ELSE addrs

AddAddr(addrs, c) ==
  LET i == FirstSame(addrs, c)
  IN IF i = 0 THEN Append(addrs, c)
     ELSE [addrs EXCEPT ![i].paths = FoldLeft(PushPath, @, c.paths)]

\* add_to_config: the listeners of new are started but not added.
AddConfig(old, new) ==
  [old EXCEPT !.paths = AddPaths(@, new.paths),
              !.addrs = FoldLeft(AddAddr, @, new.addrs)]

-----------------------------------------------------------------------------
(* del. *)

\* Of a Multi, the address to delete is what is kept.
DelOne(old, a) ==
  IF old.single
    THEN IF AddrEq(old.list[1], a) THEN Multi(<<>>) ELSE old
    ELSE Multi(Retain(old.list, {i \in DOMAIN old.list : AddrEq(old.list[i], a)}))

DelAddrs(old, gone) == FoldLeft(DelOne, old, gone.list)

\* del_path for each path of gone: a path without addresses is removed
\* (mutant: it stays).
DelPathsEmptied(old, gone) ==
  [p \in DOMAIN old |->
     IF p \in DOMAIN gone THEN DelAddrs(old[p], gone[p]) ELSE old[p]]

DelPaths(old, gone) ==
  LET left == DelPathsEmptied(old, gone)
  IN [p \in {q \in DOMAIN old :
               q \in DOMAIN gone => Len(left[q].list) # 0} |-> left[p]]

\* (Mutant: the paths that are named are added.)
DelAddrAdds(addrs, c) == AddAddr(addrs, c)

DelAddr(addrs, c) ==
  LET i    == FirstSame(addrs, c)
      old  == addrs[i].paths
      left == Retain(old, {k \in DOMAIN old : old[k] \notin ToSet(c.paths)})
  IN IF i = 0 \/ Len(left) = Len(old) THEN addrs
     ELSE IF left = <<>> THEN RemoveAt(addrs, i)
     ELSE [addrs EXCEPT ![i].paths = left]

\* del_from_config: the listeners of gone leave the map but not proxy.addr.
DelConfig(old, gone) ==
  [old EXCEPT !.paths = DelPaths(@, gone.paths),
              !.addrs = FoldLeft(DelAddr, @, gone.addrs)]

-----------------------------------------------------------------------------
(* Routes. *)

\* make_addrs: which listeners an update starts or keeps is the matter of RustApp.
ProxyParses(cfg) == \A a \in ToSet(cfg.proxy.list) : Parses(a)

\* make_proxy_paths: for each path, the addresses of the table and then those
\* of the list, in the order in which they are tried.
RoutesParse(cfg) ==
  /\ \A p \in DOMAIN cfg.paths : \A a \in ToSet(cfg.paths[p].list) : Parses(a)
  /\ \A c \in ToSet(cfg.addrs) : Parses(c)

FromTable(cfg, p) ==
  IF p \notin DOMAIN cfg.paths THEN <<>>
  ELSE LET list == cfg.paths[p].list IN [i \in DOMAIN list |-> ToAddr(list[i])]

FromAddrs(cfg, p) ==
  FlattenSeq([k \in DOMAIN cfg.addrs |->
    LET list  == cfg.addrs[k].paths
        named == Retain(list, {i \in DOMAIN list : list[i] = p})
    IN [j \in DOMAIN named |-> ToAddr(cfg.addrs[k])]])

MakeProxyPaths(cfg) ==
  [p \in DOMAIN cfg.paths \union UNION {ToSet(c.paths) : c \in ToSet(cfg.addrs)} |->
     FromTable(cfg, p) \o FromAddrs(cfg, p)]
=============================================================================
