------------------------------- MODULE Store -------------------------------
(***************************************************************************)
(* Najm Store packages: build_package in runner/build.rs and               *)
(* kernel/src/store.rs.  verify decides, from a package's bytes, which     *)
(* Realm it runs in and with which rights.                                 *)
(*                                                                         *)
(* A package is a header (magic, version, manifest length, digest) and a   *)
(* body: the manifest's lines, then the payload.  A line of the manifest   *)
(* is a record with a key and a value; a payload unit is text (bytes that  *)
(* are valid UTF-8 but no known line) or binary.  The digest (external)    *)
(* stands for what it was computed over: SHA-256 without collisions.       *)
(***************************************************************************)
EXTENDS Integers, Sequences

RealmRights ==
    [Home   |-> {"serial_write", "timer_read", "file_read", "ipc_create", "ipc_connect",
                 "surface_create", "input_read"},
     Gaming |-> {"serial_write", "timer_read", "file_read", "surface_create", "input_read",
                 "exclusive_scanout"},
     Vault  |-> {"timer_read", "file_read", "file_write", "surface_create"}]

Line(key, value) == [key |-> key, value |-> value]
Text == Line("text", "")        \* a line the parser skips: no "=", or a comment
Binary == Line("binary", "")    \* bytes that are not UTF-8

PackageVersion == 1

-----------------------------------------------------------------------------
(* runner/build.rs *)

\* The digest is taken before the corruption of the test package is applied.
build_package(manifest, payload, corrupt) ==
    LET body == manifest \o payload
    IN [whole        |-> TRUE,
        magic        |-> TRUE,
        version      |-> PackageVersion,
        manifest_len |-> Len(manifest),
        digest       |-> body,
        body         |-> IF corrupt THEN [body EXCEPT ![Len(body)] = Line("flipped", "")]
                         ELSE body]

-----------------------------------------------------------------------------
(* kernel/src/store.rs *)

IsPackage(cell) == "manifest_len" \in DOMAIN cell

KnownRights == {"serial_write", "timer_read", "file_read", "file_write", "process_spawn",
                "ipc_create", "ipc_connect", "surface_create", "input_read",
                "exclusive_scanout"}

\* The value the last line with this key gave, or the default.
LastValue(lines, key, default) ==
    LET at == {i \in DOMAIN lines : lines[i].key = key}
    IN IF at = {} THEN default ELSE lines[CHOOSE i \in at : \A j \in at : j <= i].value

\* Manifest::parse, on lines that are UTF-8.  An unknown Realm means Home, and
\* there is no word for the System Realm.
ManifestOf(lines) ==
    [id     |-> LastValue(lines, "id", ""),
     entry  |-> LastValue(lines, "entry", ""),
     realm  |-> LET r == LastValue(lines, "realm", "Home")
                IN IF r \in {"Gaming", "Vault"} THEN r ELSE "Home",
     rights |-> {lines[i].value : i \in {k \in DOMAIN lines : lines[k].key = "capability"}}
                   \intersect KnownRights]

\* verify_signature: no verifier exists, so it fails closed.
verify_signature(package) == "Absent"

\* What verify refuses to examine: TooSmall, BadMagic, UnsupportedVersion,
\* Malformed (manifest length or UTF-8) and BadManifest.
Examinable(p) ==
    /\ p.whole /\ p.magic /\ p.version = PackageVersion
    /\ p.manifest_len <= Len(p.body)
    /\ \A i \in 1..p.manifest_len : p.body[i] # Binary
    /\ LET m == ManifestOf(SubSeq(p.body, 1, p.manifest_len))
       IN m.id # "" /\ m.entry # ""

\* Mutant of DigestMatches: only the manifest is compared.
ManifestDigestMatches(p) ==
    SubSeq(p.body, 1, p.manifest_len) = SubSeq(p.digest, 1, p.manifest_len)

DigestMatches(p) == p.body = p.digest

\* The Realm is decided by the signature; the request is only compared.
verify(p) ==
    LET manifest == ManifestOf(SubSeq(p.body, 1, p.manifest_len))
        granted  == IF verify_signature(p) = "Verified" THEN manifest.realm ELSE "Home"
        realm    == IF DigestMatches(p) THEN granted ELSE "Home"
    IN [manifest  |-> manifest,
        integrity |-> DigestMatches(p),
        granted   |-> realm,
        denied    |-> manifest.realm # realm]

\* effective_profile: the declared rights narrow the Realm's; none declared
\* means all of them.
effective_profile(verdict) ==
    IF verdict.manifest.rights # {} THEN RealmRights[verdict.granted] \intersect verdict.manifest.rights
    ELSE RealmRights[verdict.granted]

\* payload: where the package's own archive starts.
Payload(p) == SubSeq(p.body, p.manifest_len + 1, Len(p.body))
=============================================================================
