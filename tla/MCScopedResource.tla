-------------------------- MODULE MCScopedResource --------------------------
(* Instances of ScopedResource for TLC. *)
EXTENDS ScopedResource, TLC

CONSTANTS n1, n2, n3

\* Namespaces are alike.
AnyNamespace == Permutations({n1, n2})

=============================================================================
