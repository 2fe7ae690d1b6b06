----------------------------- MODULE MCStartup ------------------------------
(***************************************************************************)
(* Instances of Startup for TLC: one host with every combination of TLS,   *)
(* channel binding and password options; up to two hosts, hostaddrs and    *)
(* ports with every combination of numbers, kinds, order and session.      *)
(***************************************************************************)
EXTENDS Startup

Base == [host |-> <<"tcp">>, hostaddr |-> 0, port |-> 0, random |-> FALSE,
         password |-> TRUE, canTls |-> TRUE, compat |-> FALSE,
         ssl |-> "disable", negotiation |-> "postgres", binding |-> "disable",
         attrs |-> "any"]

OneHost ==
  {[Base EXCEPT !.ssl = s, !.negotiation = n, !.binding = b, !.password = p,
                !.canTls = t, !.compat = o] :
     s \in {"disable", "prefer", "require"}, n \in {"postgres", "direct"},
     b \in {"disable", "prefer", "require"}, p \in BOOLEAN, t \in BOOLEAN,
     o \in BOOLEAN}

ManyHosts ==
  {[Base EXCEPT !.host = h, !.hostaddr = a, !.port = p, !.random = r] :
     h \in UNION {[1 .. n -> HostKinds] : n \in 0 .. 2}, a \in 0 .. 2, p \in 0 .. 2,
     r \in BOOLEAN}

TwoServers ==
  {[Base EXCEPT !.host = <<"tcp", "tcp">>, !.hostaddr = 2, !.attrs = t, !.ssl = s,
                !.binding = b] :
     t \in {"any", "read_write", "read_only"}, s \in {"disable", "require"},
     b \in {"disable", "require"}}

MCConfigs == OneHost \cup ManyHosts \cup TwoServers
=============================================================================
