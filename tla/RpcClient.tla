------------------------------ MODULE RpcClient ------------------------------
(***************************************************************************)
(* How the RPC client comes by its credentials at the start of the         *)
(* program: config.toml (Config::load), the choice in main.rs, and         *)
(* BitcoinRpc::from_config_with_defaults, which reads the cookie of the    *)
(* node and then bitcoin.conf line by line.                                *)
(*                                                                         *)
(* A value is named by where it comes from.  An rpcport= line whose value  *)
(* is no u16 is an "other" line, and a file that cannot be read has none.  *)
(***************************************************************************)
EXTENDS Naturals, Sequences

CONSTANT MaxLines        \* bound on the lines of bitcoin.conf

VARIABLES
    file, keys,        \* config.toml, and the keys of [bitcoin] in it
    cookie,            \* .cookie of the node
    conf,              \* bitcoin.conf
    pc,
    config,            \* the keys Config::load found
    line,              \* the next line of bitcoin.conf
    user, pass,        \* lines they were last read from, 0 for None
    client             \* where port, user and password come from

environment == <<file, keys, cookie, conf>>
clientVars == <<environment, pc, config, line, user, pass, client>>

Line == {"rpcuser", "rpcpassword", "rpcport", "other"}

Origin == {"none", "config", "cookie", "conf", "default", "empty"} \X Nat

From(origin) == <<origin, 0>>
ConfLine(n) == <<"conf", n>>

ClientInit ==
    /\ file \in {"absent", "unreadable", "malformed", "parsed"}
    /\ keys \in SUBSET {"rpc_port", "rpc_user", "rpc_password"}
    /\ cookie \in {"absent", "no colon", "user:pass"}
    /\ conf \in UNION {[1..n -> Line] : n \in 0..MaxLines}
    /\ pc = "config"
    /\ config = {} /\ line = 1 /\ user = 0 /\ pass = 0
    /\ client = [port |-> From("none"), user |-> From("none"), pass |-> From("none")]

\* BitcoinRpc::new
New(p, u, w) ==
    /\ client' = [port |-> p, user |-> u, pass |-> w]
    /\ pc' = "ready"

\* Config::load: the defaults if there is no file that parses; a key that is
\* missing has its default.
LoadConfig ==
    /\ pc = "config"
    /\ config' = IF file = "parsed" THEN keys ELSE {}
    /\ pc' = "choose"
    /\ UNCHANGED <<environment, line, user, pass, client>>

Configured == {"rpc_user", "rpc_password"} \subseteq config

ConfigPort == From(IF "rpc_port" \in config THEN "config" ELSE "default")

\* main: credentials of the configuration count only together.
UseConfig ==
    /\ pc = "choose" /\ Configured
    /\ New(ConfigPort, From("config"), From("config"))
    /\ UNCHANGED <<environment, config, line, user, pass>>

UseCookie ==
    /\ pc = "choose" /\ ~Configured
    /\ cookie = "user:pass"
    /\ New(ConfigPort, From("cookie"), From("cookie"))
    /\ UNCHANGED <<environment, config, line, user, pass>>

OpenConf ==
    /\ pc = "choose" /\ ~Configured
    /\ cookie # "user:pass"
    /\ pc' = "conf"
    /\ UNCHANGED <<environment, config, line, user, pass, client>>

ReadLine ==
    /\ pc = "conf" /\ line <= Len(conf)
    /\ conf[line] # "rpcport"
    /\ line' = line + 1
    /\ user' = IF conf[line] = "rpcuser" THEN line ELSE user
    /\ pass' = IF conf[line] = "rpcpassword" THEN line ELSE pass
    /\ UNCHANGED <<environment, pc, config, client>>

\* The port ends the reading, whatever comes after it.
ReadPort ==
    /\ pc = "conf" /\ line <= Len(conf)
    /\ conf[line] = "rpcport"
    /\ New(ConfLine(line),
           IF user # 0 THEN ConfLine(user) ELSE From("default"),
           IF pass # 0 THEN ConfLine(pass) ELSE From("empty"))
    /\ UNCHANGED <<environment, config, line, user, pass>>

EndOfConf ==
    /\ pc = "conf" /\ line > Len(conf)
    /\ IF user # 0 /\ pass # 0
       THEN New(ConfigPort, ConfLine(user), ConfLine(pass))
       ELSE New(ConfigPort, From("default"), From("default"))
    /\ UNCHANGED <<environment, config, line, user, pass>>

ClientNext == LoadConfig \/ UseConfig \/ UseCookie \/ OpenConf \/ ReadLine \/ ReadPort \/ EndOfConf

ClientSpec == ClientInit /\ [][ClientNext]_clientVars

-----------------------------------------------------------------------------
(* Properties. *)

\* bitcoin.conf is asked, and has both credentials.
ConfDecides ==
    /\ ~Configured /\ cookie # "user:pass"
    /\ \E u, w \in DOMAIN conf : conf[u] = "rpcuser" /\ conf[w] = "rpcpassword"

UsesConf ==
    \E u, w \in DOMAIN conf :
        /\ conf[u] = "rpcuser" /\ client.user = ConfLine(u)
        /\ conf[w] = "rpcpassword" /\ client.pass = ConfLine(w)

(* The RPC configuration of ARCHITECTURE.md:71: if neither the             *)
(* configuration nor the cookie has credentials, those of bitcoin.conf are *)
(* used.  They are not if the line rpcport= comes before one of them.      *)
CredentialsDetected == pc = "ready" /\ ConfDecides => UsesConf

\* Both credentials precede each line with a port.
PortLast ==
    \A p \in DOMAIN conf : conf[p] = "rpcport" =>
        \E u, w \in 1..(p - 1) : conf[u] = "rpcuser" /\ conf[w] = "rpcpassword"

(* They are used in every file whose port comes after them, as in          *)
(* docs/SETUP.md:21.                                                       *)
CredentialsBeforePort == pc = "ready" /\ ConfDecides /\ PortLast => UsesConf
=============================================================================
