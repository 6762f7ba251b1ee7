-------------------------- MODULE MCServerStartup --------------------------
(***************************************************************************)
(* Instances of ServerStartup for TLC.                                     *)
(***************************************************************************)
EXTENDS ServerStartup

CONSTANTS a, b, o1

\* Both ways to decide on authentication, with and without a storage proxy, and
\* a configuration that decides on neither.
OneOfEach ==
    { [issuer |-> TRUE,  anonymous |-> FALSE, storage |-> "etcd"],
      [issuer |-> FALSE, anonymous |-> TRUE,  storage |-> "relay"],
      [issuer |-> FALSE, anonymous |-> FALSE, storage |-> "kine"] }
=============================================================================
