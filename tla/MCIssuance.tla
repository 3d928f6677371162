----------------------------- MODULE MCIssuance -----------------------------
(***************************************************************************)
(* A small instance of Issuance: three policies, of which one lists two    *)
(* spellings of a name, over three DNS names and one address; a five       *)
(* minute allowance of two ticks and a day of three.                       *)
(***************************************************************************)
EXTENDS Issuance

a == [id |-> "a", form |-> "plain"]
A == [id |-> "a", form |-> "variant"]
b == [id |-> "b", form |-> "plain"]
address == [id |-> "address", form |-> "variant"]

MCNameLists == {<<b, A>>, <<a, b, b>>, <<a, a>>, <<a>>}

Authority(subject, expiry) ==
    [subject |-> subject, basic_ca |-> TRUE, key_cert_sign |-> TRUE, self_signed |-> TRUE,
     not_before |-> 0, not_after |-> expiry, hash |-> "sha256", alg |-> "EC"]

Identity(dns, ip, days) == [subject |-> "CN=unifi", dns |-> dns, ip |-> ip, days |-> days]

Trust(ca) == [ca |-> <<ca>>, hash |-> "sha256", oid |-> <<"EC", "sha256">>]

MCPolicies ==
    {<<Identity(<<a, b>>, <<address>>, 2), Trust(Authority("long", 30))>>,
     <<Identity(<<A>>, <<>>, 1), Trust(Authority("short", 6))>>,
     <<Identity(<<a, A, b>>, <<>>, 2), Trust(Authority("long", 30))>>}
=============================================================================
