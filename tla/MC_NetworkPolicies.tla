------------------------- MODULE MC_NetworkPolicies --------------------------
(***************************************************************************)
(* TLC instances of NetworkPolicies.  A proxy in a spec has its            *)
(* provisioning set, by the default of the API.                            *)
(***************************************************************************)
EXTENDS NetworkPolicies

SameName == {[name |-> "a", component |-> c] : c \in {"core", "bitwarden"}}
TwoRules == {"r1", "r2"}

ProxyWith(h, s, p) == [NoProxy EXCEPT !.http = h, !.https = s, !.provisioning = p]
AnyProxy == {ProxyWith("http", "", "Managed"), ProxyWith("", "port", "Unmanaged"),
             ProxyWith("", "socks", "Managed"), ProxyWith("invalid", "", "Managed")}
Environment == [NoProxy EXCEPT !.https = "https"]
=============================================================================
