\* Every Create, Update and Delete of every kind, in and out of the shield
\* namespace, with bodies that do or do not parse.
CONSTANTS
    rsp = rsp
    rsig = rsig
    sconf = sconf
    sigconf = sigconf
    hrm = hrm
    other = other
    shieldNs = shieldNs
    userNs = userNs
    apiVer = apiVer
    kindLabel = kindLabel
    timeLabel = timeLabel
    groupVersion = groupVersion
    Kinds = {rsp, rsig, sconf, sigconf, hrm, other}
    Namespaces = {shieldNs, userNs}
    ShieldNamespace = shieldNs
    ResSigLabels = {apiVer, kindLabel, timeLabel}
    MaxSigData = 2
    ProfileCustomResourceKind = rsp
    SignatureCustomResourceKind = rsig
    ShieldConfigCustomResourceKind = sconf
    SignerConfigCustomResourceKind = sigconf
    HelmReleaseMetadataCustomResourceKind = hrm
    ShieldConfigCustomResourceAPIVersion = groupVersion
    HelmReleaseMetadataCustomResourceAPIVersion = groupVersion
SPECIFICATION Spec
INVARIANT MalformedResourceRejected
