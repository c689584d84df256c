------------------------- MODULE ShieldValidation --------------------------
EXTENDS Naturals
(***************************************************************************)
(* shield.ValidateResource (src/shield/pkg/shield/utilValidation.go): the *)
(* check of the shield's own custom resources before they are admitted.    *)
(* It is a pure function of the request, so the module enumerates every    *)
(* request of a small domain as the initial state and states what the      *)
(* result must be as an invariant.                                         *)
(*                                                                         *)
(* A request body is abstracted to what the validators read:              *)
(*   parses    json.Unmarshal into the kind's type succeeds               *)
(*   selector  Spec.TargetNamespaceSelector is set (a profile)             *)
(*   sigData   len(Spec.Data) (a resource signature)                       *)
(*   labels    which of the three required labels the object carries      *)
(* The error and message strings are abstracted to whether one is set.     *)
(***************************************************************************)
CONSTANTS
    Kinds,             \* the kinds a request may carry
    Namespaces,
    ShieldNamespace,   \* the namespace the shield runs in
    ResSigLabels,      \* ResSigLabelApiVer, ResSigLabelKind, ResSigLabelTime
    MaxSigData,        \* bound on len(Spec.Data)
    \* the identifiers of package common that ValidateResource compares with
    ProfileCustomResourceKind,
    SignatureCustomResourceKind,
    ShieldConfigCustomResourceKind,
    SignerConfigCustomResourceKind,
    HelmReleaseMetadataCustomResourceKind,
    ShieldConfigCustomResourceAPIVersion,
    HelmReleaseMetadataCustomResourceAPIVersion

\* An apiVersion is "group/version" and a kind a bare identifier, so no
\* kind a request can carry equals an API version.
ASSUME /\ ShieldConfigCustomResourceAPIVersion \notin Kinds
       /\ HelmReleaseMetadataCustomResourceAPIVersion \notin Kinds

VARIABLE reqc

Requests == [op : {"CREATE", "UPDATE", "DELETE"}, kind : Kinds,
             namespace : Namespaces, parses : BOOLEAN, selector : BOOLEAN,
             sigData : 0..MaxSigData, labels : SUBSET ResSigLabels]

\* The (bool, error) pair the validators return.
Ok == [ok |-> TRUE, err |-> FALSE]
Fail == [ok |-> FALSE, err |-> TRUE]

\* json.Unmarshal of the raw object into the kind's type.
Unmarshal(r) == IF r.parses THEN Ok ELSE Fail

\* A profile may carry a TargetNamespaceSelector only in the shield namespace.
ValidateResourceSigningProfile(r) ==
    IF ~r.parses THEN Fail
    ELSE IF r.namespace # ShieldNamespace /\ r.selector THEN Fail
    ELSE Ok

\* At most one signature data, and every required label present.
ValidateResourceSignature(r) ==
    IF ~r.parses THEN Fail
    ELSE IF r.sigData > 1 THEN Fail
    ELSE IF ResSigLabels \ r.labels # {} THEN Fail
    ELSE Ok

ValidateShieldConfig(r) == Unmarshal(r)

ValidateSignerConfig(r) == Unmarshal(r)

ValidateHelmReleaseMetadata(r) == Unmarshal(r)

\* The (bool, string) pair ValidateResource returns for a validator's
\* result: an error becomes false with a "Validation error" message.
Report(res) == IF res.err THEN [allowed |-> FALSE, msg |-> TRUE]
                          ELSE [allowed |-> res.ok, msg |-> FALSE]

Pass == [allowed |-> TRUE, msg |-> FALSE]

\* The dispatch of ValidateResource, comparisons in the code's order.
ValidateResource(r) ==
    IF r.op = "DELETE" THEN Pass
    ELSE IF r.kind = ProfileCustomResourceKind
         THEN Report(ValidateResourceSigningProfile(r))
    ELSE IF r.kind = SignatureCustomResourceKind
         THEN Report(ValidateResourceSignature(r))
    ELSE IF r.kind = ShieldConfigCustomResourceAPIVersion
         THEN Report(ValidateShieldConfig(r))
    ELSE IF r.kind = SignerConfigCustomResourceKind
         THEN Report(ValidateSignerConfig(r))
    ELSE IF r.kind = HelmReleaseMetadataCustomResourceAPIVersion
         THEN Report(ValidateHelmReleaseMetadata(r))
    ELSE Pass

\* The shield's own custom resource kinds, each with a validator.
ShieldKinds == {ProfileCustomResourceKind, SignatureCustomResourceKind,
                ShieldConfigCustomResourceKind, SignerConfigCustomResourceKind,
                HelmReleaseMetadataCustomResourceKind}

TypeOK == reqc \in Requests

Init == reqc \in Requests

Next == UNCHANGED reqc

Spec == Init /\ [][Next]_reqc

\* Spec section 7, "Validation failure": a malformed body of one of the
\* shield's own resources is denied with the parse error.  ValidateResource
\* is to reject every Create or Update of a shield kind whose body does not
\* unmarshal into that kind's type.
MalformedResourceRejected ==
    (reqc.op # "DELETE" /\ reqc.kind \in ShieldKinds /\ ~reqc.parses)
        => ~ValidateResource(reqc).allowed

=============================================================================
