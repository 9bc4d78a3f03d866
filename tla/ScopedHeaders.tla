--------------------------- MODULE ScopedHeaders ---------------------------
(***************************************************************************)
(* Headers attached only to requests for hosts under an allowed domain     *)
(* (nq_core/scoped_headers.rs, configured by access.rs).                   *)
(*                                                                         *)
(* A host is a sequence over four symbols: "s" is the allowed domain as it *)
(* is configured, "S" the same domain in other letter case, "." a dot, and *)
(* "x" any other text.  The empty host stands for a URI without one.       *)
(***************************************************************************)
EXTENDS Integers, Sequences, FiniteSets

Symbol == {"s", "S", ".", "x"}

(***************************************************************************)
(* The host without trailing dots and in lower case.                       *)
(***************************************************************************)
LastOfName(host) ==
  CHOOSE n \in 0..Len(host) :
    /\ n > 0 => host[n] # "."
    /\ \A i \in (n + 1)..Len(host) : host[i] = "."

Normalised(host) ==
  [i \in 1..LastOfName(host) |-> IF host[i] = "S" THEN "s" ELSE host[i]]

(***************************************************************************)
(* ScopedHeaders::allows_host: the domain itself, or a host that ends with *)
(* a dot and the domain.                                                   *)
(***************************************************************************)
EndsWithDomain(name) == Len(name) > 0 /\ name[Len(name)] = "s"

AllowsHostByEnding(host) == EndsWithDomain(Normalised(host))

AllowsHost(host) ==
  LET name == Normalised(host) IN
  \/ name = << "s" >>
  \/ /\ Len(name) > 1
     /\ EndsWithDomain(name)
     /\ name[Len(name) - 1] = "."

(***************************************************************************)
(* ScopedHeaders::apply, on the header a request already has ("none" or    *)
(* "own"); `scope` says whether the client was given scoped headers.       *)
(***************************************************************************)
Apply(scope, host, header) ==
  IF scope /\ AllowsHost(host) /\ header = "none" THEN "scoped" ELSE header

(***************************************************************************)
(* Reference: the last label of the host, trailing dots aside, is the      *)
(* allowed domain in some letter case.                                     *)
(***************************************************************************)
UnderDomain(host) ==
  \E i \in DOMAIN host :
    /\ host[i] \in {"s", "S"}
    /\ i > 1 => host[i - 1] = "."
    /\ \A j \in (i + 1)..Len(host) : host[j] = "."
=============================================================================
