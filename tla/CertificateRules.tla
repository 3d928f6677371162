-------------------------- MODULE CertificateRules --------------------------
(***************************************************************************)
(* What the renewer and the executor ask of a CSR, of an issued            *)
(* certificate and of the CA that issued it: src/csr.py,                   *)
(* src/certificate.py, parse_policy of src/renewal_policy.py and the       *)
(* validations of src/unifi_client.py and src/opnsense_client.py.          *)
(*                                                                         *)
(* A name is an identity and a spelling: two spellings of one identity are *)
(* what lower(), casefold() and str(ip_address()) map to one value.  Times *)
(* are ticks.  An extension that is missing is an empty value.             *)
(***************************************************************************)
EXTENDS Naturals, Sequences, FiniteSets

CONSTANTS
    DAY,                            \* ticks in a day
    DEFAULT_CLOCK_SKEW,             \* five minutes
    MAX_CERTIFICATE_LIFETIME_DAYS   \* 397

ASSUME TimeAssumption ==
    /\ DAY \in Nat /\ DEFAULT_CLOCK_SKEW \in Nat /\ DEFAULT_CLOCK_SKEW < DAY
    /\ MAX_CERTIFICATE_LIFETIME_DAYS \in Nat \ {0}

MAX_SAN_ENTRIES == 100

_ALLOWED_SIGNATURE_HASHES == {"sha256", "sha384", "sha512"}

_SUPPORTED_RSA_KEY_SIZES == {2048, 3072, 4096}

_ISSUED_SIGNATURE_OIDS ==
    [alg \in {"RSA", "EC"} |-> [hash \in _ALLOWED_SIGNATURE_HASHES |-> <<alg, hash>>]]

CSR_OID == _ISSUED_SIGNATURE_OIDS["RSA"]["sha384"]

_ALLOWED_SERVER_EKU_PROFILES == {{"serverAuth"}, {"serverAuth", "ikeIntermediate"}}

SERVER_KEY_USAGE == {"digital_signature", "key_encipherment"}

-----------------------------------------------------------------------------
(* Names.                                                                  *)

canonical(name) == name.id

Elements(s) == {s[i] : i \in 1..Len(s)}

Identities(s) == {canonical(s[i]) : i \in 1..Len(s)}

\* The seen sets of _validate_dns_sans and _validate_ip_sans.
Distinct(s) == \A i, j \in 1..Len(s) : i # j => canonical(s[i]) # canonical(s[j])

WellFormed(s) == \A i \in 1..Len(s) : s[i].form # "malformed"

\* Mutant of SameNames: the numbers of entries are not compared.
SameNameSet(s, t) == Identities(s) = Identities(t)

\* Equal numbers of entries and equal sets of canonical names.
SameNames(s, t) == Len(s) = Len(t) /\ Identities(s) = Identities(t)

\* build_keytool_certreq_command and _validate_csr_identity.
NamesAllowed(dns, ip) ==
    /\ WellFormed(dns) /\ WellFormed(ip)
    /\ Distinct(dns) /\ Distinct(ip)
    /\ Len(dns) + Len(ip) \in 1..MAX_SAN_ENTRIES

-----------------------------------------------------------------------------
(* The issuing CA and the policy.                                          *)

\* Every certificate may sign certificates: it is a CA's, and its key usage has
\* keyCertSign or is absent.
_load_trust_certificates(bundle) ==
    /\ bundle # <<>>
    /\ \A i \in 1..Len(bundle) : bundle[i].basic_ca /\ bundle[i].key_cert_sign

ValidAt(c, now) == c.not_before <= now /\ now < c.not_after

_validate_signature_hash(c) == c.hash \in _ALLOWED_SIGNATURE_HASHES

validate_installation_ca(bundle, now) ==
    /\ _load_trust_certificates(bundle)
    /\ Len(bundle) = 1
    /\ bundle[1].self_signed
    /\ ValidAt(bundle[1], now)
    /\ _validate_signature_hash(bundle[1])

validate_issued_signature_policy(bundle, digest, oid, now) ==
    /\ validate_installation_ca(bundle, now)
    /\ bundle[1].alg \in DOMAIN _ISSUED_SIGNATURE_OIDS
    /\ digest \in _ALLOWED_SIGNATURE_HASHES
    /\ oid = _ISSUED_SIGNATURE_OIDS[bundle[1].alg][digest]

_validate_lifetime_days(days) == days \in 1..MAX_CERTIFICATE_LIFETIME_DAYS

\* A policy is its whole text: two policies are equal when their digests are.
parse_policy(p, now) ==
    /\ NamesAllowed(p.dns, p.ip)
    /\ validate_issued_signature_policy(p.ca, p.hash, p.oid, now)
    /\ _validate_lifetime_days(p.days)

-----------------------------------------------------------------------------
(* The CSR.                                                                *)

\* A CSR that is one PEM envelope and carries its proof of possession.
inspect_csr(csr) == csr.whole /\ csr.signature_valid

validate_csr_spki(csr, key) == csr.key = key

SupportedKey(c) == c.alg = "RSA" /\ c.size \in _SUPPORTED_RSA_KEY_SIZES

validate_requested_csr(csr, policy, key) ==
    /\ NamesAllowed(policy.dns, policy.ip)
    /\ inspect_csr(csr)
    /\ validate_csr_spki(csr, key)
    /\ csr.subject = policy.subject
    /\ ~csr.other_names
    /\ SameNames(csr.dns, policy.dns) /\ SameNames(csr.ip, policy.ip)
    /\ SupportedKey(csr)
    /\ _validate_signature_hash(csr)

\* The checks of sign_csr before it sends anything.
sign_csr_checks(csr, policy, key) ==
    /\ inspect_csr(csr)
    /\ validate_csr_spki(csr, key)
    /\ policy.hash \in _ALLOWED_SIGNATURE_HASHES
    /\ _validate_lifetime_days(policy.days)
    /\ SupportedKey(csr)
    /\ ~csr.other_names /\ NamesAllowed(csr.dns, csr.ip)

-----------------------------------------------------------------------------
(* The issued certificate.                                                 *)

_validate_exact_sans(c, csr) ==
    /\ ~c.other_names
    /\ SameNames(c.dns, csr.dns) /\ SameNames(c.ip, csr.ip)

_validate_leaf_extensions(c) ==
    /\ c.basic_constraints = "leaf"
    /\ Cardinality(Elements(c.eku)) = Len(c.eku)
    /\ Elements(c.eku) \in _ALLOWED_SERVER_EKU_PROFILES
    /\ c.key_usage = SERVER_KEY_USAGE

_validate_validity(c, days, now, reference) ==
    /\ c.not_before < c.not_after
    /\ ValidAt(c, now)
    /\ reference <= c.not_before + DEFAULT_CLOCK_SKEW
    /\ c.not_before <= reference
    /\ c.not_after - c.not_before = days * DAY

\* The path that the verifier of the cryptography library builds for the first
\* name, DNS before IP.
_verify_ca_trust(c, bundle, csr, now) ==
    /\ _load_trust_certificates(bundle)
    /\ Len(csr.dns) + Len(csr.ip) > 0
    /\ \E i \in 1..Len(bundle) :
          /\ c.issuer = bundle[i].subject
          /\ bundle[i].not_before <= now /\ now <= bundle[i].not_after

validate_issued_certificate(c, csr, policy, reference, now) ==
    /\ _validate_lifetime_days(policy.days)
    /\ policy.hash \in _ALLOWED_SIGNATURE_HASHES
    /\ c.whole
    /\ SupportedKey(c)
    /\ ~csr.other_names
    /\ c.key = csr.key
    /\ c.subject = csr.subject
    /\ _validate_exact_sans(c, csr)
    /\ _validate_leaf_extensions(c)
    /\ _validate_validity(c, policy.days, now, reference)
    /\ _validate_signature_hash(c)
    /\ c.hash = policy.hash /\ c.oid = policy.oid
    /\ _verify_ca_trust(c, policy.ca, csr, now)

build_validated_certificate_reply(c, csr, policy, reference, now) ==
    /\ validate_installation_ca(policy.ca, now)
    /\ validate_issued_certificate(c, csr, policy, reference, now)

\* before is the keystore the request was made for; key the public key that the
\* configuration, or the executor's own observation of before, expects.
prepare_certificate_import(q, policy, key, reference, now) ==
    /\ validate_requested_csr(q.csr, policy, key)
    /\ validate_csr_spki(q.csr, q.before.key)
    /\ build_validated_certificate_reply(q.cert, q.csr, policy, reference, now)

\* Mutant of NotLonger: a threshold equal to the lifetime passes.
NotLongerOrEqual(renew_before_days, policy) == renew_before_days <= policy.days

\* _run_one_shot refuses to renew when the threshold is not below the lifetime.
NotLonger(renew_before_days, policy) == renew_before_days < policy.days

\* _renewal_is_due, and run_to_installation's check of the new certificate.
_renewal_is_due(c, renew_before_days, now) ==
    c.not_after <= now + renew_before_days * DAY
=============================================================================
